--------------------------- MODULE IdentityProofs ---------------------------
(* Proofs about Identity, for any number of certificates, tokens, faults    *)
(* and webhooks. The handlers are functions from worlds to worlds, so most  *)
(* of the argument is a lemma for each of them; IdentityInvariants defines  *)
(* what the lemmas keep.                                                    *)
EXTENDS IdentityInvariants, TLAPS, WellFoundedInduction, FiniteSetTheorems, SequenceTheorems

----------------------------------------------------------------------------
LEMMA SameIsGood ==
  ASSUME NEW w, NEW v, Good(w), SameIdentity(w, v) PROVE Good(v)
BY DEF Good, SameIdentity

LEMMA SameTwice ==
  ASSUME NEW w, NEW v, NEW u, SameIdentity(w, v), SameIdentity(v, u)
  PROVE  SameIdentity(w, u)
BY DEF SameIdentity

LEMMA WorldIsGood == IInv => Good(World)
BY DEF IInv, Good, Fields, World, PemNamesIdentity

LEMMA BecomeKeeps == ASSUME NEW w, Good(w), Become(w) PROVE IInv'
BY DEF Become, Good, Fields, IInv, PemNamesIdentity

LEMMA DevUntouched == IInv /\ dev' = dev => IInv'
BY DEF IInv, PemNamesIdentity

----------------------------------------------------------------------------
(* What leaves the identity alone.                                          *)
LEMMA PruneSame == ASSUME NEW w, Fields(w), NEW keep, NEW F
                   PROVE  SameIdentity(w, Prune(w, keep, F))
BY DEF Prune, Fields, SameIdentity, DevFields

LEMMA ParkSame == ASSUME NEW w, Fields(w), NEW S, NEW F
                  PROVE  SameIdentity(w, Park(w, S, F))
BY DEF Park, Fields, SameIdentity, DevFields

LEMMA WriteTokenSame == ASSUME NEW w, Fields(w) PROVE SameIdentity(w, WriteToken(w))
BY DEF WriteToken, Fields, SameIdentity, DevFields

LEMMA RestoreTokenSame == ASSUME NEW w, Fields(w), NEW F
                          PROVE  SameIdentity(w, RestoreToken(w, F))
BY WriteTokenSame DEF RestoreToken, Fields, SameIdentity, DevFields

LEMMA CaptureSame == ASSUME NEW w, Fields(w), NEW replace
                     PROVE  SameIdentity(w, Capture(w, replace))
BY DEF Capture, Fields, SameIdentity, DevFields

LEMMA CopyKeptSame == ASSUME NEW w, Fields(w) PROVE SameIdentity(w, CopyKept(w))
BY DEF CopyKept, Fields, SameIdentity, DevFields

LEMMA BindRowSame == ASSUME NEW w, Fields(w), NEW c PROVE SameIdentity(w, BindRow(w, c))
BY DEF BindRow, Fields, SameIdentity, DevFields

LEMMA FailSame == ASSUME NEW w, Fields(w), NEW S, NEW how
                  PROVE  SameIdentity(w, Fail(w, S, how))
BY DEF Fail, Fields, SameIdentity, DevFields

LEMMA FinishSame == ASSUME NEW w, Fields(w), NEW c, NEW F
                    PROVE  SameIdentity(w, Finish(w, c, F))
<1> DEFINE cleared == [w EXCEPT !.row[c].pem = None]
           bare == [cleared EXCEPT !.snapshot = {}]
<1>1. SameIdentity(w, cleared) /\ SameIdentity(w, bare)
  BY DEF Fields, SameIdentity, DevFields
<1>2. SameIdentity(w, Prune(bare, {c}, F))
  <2> HIDE DEF bare
  <2>1. QED BY <1>1, PruneSame, SameTwice DEF SameIdentity
<1>3. Finish(w, c, F) \in {cleared, Prune(bare, {c}, F)}
  BY DEF Finish
<1> HIDE DEF cleared, bare
<1>4. QED BY <1>1, <1>2, <1>3

LEMMA FinishOnTokenUpdateSame == ASSUME NEW w, Fields(w), NEW c, NEW F
                                 PROVE  SameIdentity(w, FinishOnTokenUpdate(w, c, F))
BY FinishSame DEF FinishOnTokenUpdate, SameIdentity

LEMMA ReenrollSame == ASSUME NEW w, Fields(w), NEW c, NEW sameInstall
                      PROVE  SameIdentity(w, Reenroll(w, c, sameInstall))
<1> DEFINE failed == Fail(w, IF w.row[c].kind = "renewal" THEN Certs \ {c} ELSE Certs, "failed")
<1>1. SameIdentity(w, failed)
  BY FailSame
<1>2. \/ \E b : Reenroll(w, c, sameInstall) = [failed EXCEPT !.dev.escrowed = b]
      \/ Reenroll(w, c, sameInstall)
            = [failed EXCEPT !.dev.escrowed = FALSE, !.dev.sealed = None]
  BY DEF Reenroll
<1> HIDE DEF failed
<1>3. QED BY <1>1, <1>2 DEF Fields, SameIdentity, DevFields

LEMMA RefuseSame == ASSUME NEW w, Fields(w), NEW c, NEW F
                    PROVE  SameIdentity(w, Refuse(w, c, F))
<1> DEFINE parked == Park(w, ({c} \cup Assoc(w)) \ Allowed(w), F)
<1>1. SameIdentity(w, parked) /\ SameIdentity(w, WriteToken(parked))
  <2>1. SameIdentity(w, parked)
    BY ParkSame
  <2> HIDE DEF parked
  <2>2. QED BY <2>1, WriteTokenSame, SameTwice DEF SameIdentity
<1>2. SameIdentity(w, [parked EXCEPT !.nano.token = None, !.nano.stamped = FALSE])
  <2> HIDE DEF parked
  <2>1. QED BY <1>1 DEF Fields, SameIdentity, DevFields
<1> DEFINE live == Enrolled(w) /\ c \in Assoc(w)
           tokened == IF ~live \/ "token" \in F THEN parked
                      ELSE IF w.dev.sealed # None THEN WriteToken(parked)
                      ELSE [parked EXCEPT !.nano.token = None, !.nano.stamped = FALSE]
<1>3. SameIdentity(w, tokened)
  <2> HIDE DEF parked
  <2>1. QED BY <1>1, <1>2
<1>4. Refuse(w, c, F).dev.id = tokened.dev.id /\ Refuse(w, c, F).dev.pem = tokened.dev.pem
      /\ DOMAIN Refuse(w, c, F) = DOMAIN tokened
      /\ DOMAIN Refuse(w, c, F).dev = DOMAIN tokened.dev
  <2> HIDE DEF parked
  <2>1. /\ {"row", "dev", "snapshot", "nano", "alarm"} \subseteq DOMAIN tokened
        /\ DevFields \subseteq DOMAIN tokened.dev
    BY <1>3 DEF SameIdentity, Fields
  <2>2. QED BY <2>1 DEF Refuse, parked, DevFields
<1> HIDE DEF parked, live, tokened
<1>5. QED BY <1>3, <1>4 DEF Fields, SameIdentity

----------------------------------------------------------------------------
(* What changes it: a bind writes both, a rollback both or none.            *)
LEMMA AcceptGood == ASSUME NEW w, Fields(w), NEW c, NEW topic, NEW F
                    PROVE  Good(Accept(w, c, topic, F))
<1> DEFINE written == [BindRow(w, c) EXCEPT !.dev = WriteDevice(w, c)]
           same == SameInstall(w, c, topic)
           renewal == w.row[c].kind = "renewal"
           restored == IF same THEN RestoreToken(written, F) ELSE written
           keep == (Allowed(restored) \cup {c} \cup (IF renewal THEN {w.dev.id} ELSE {})) \ {None}
           pruned == Prune(restored, keep, F)
<1>1. Good(written)
  <2>1. Fields(BindRow(w, c))
    BY BindRowSame DEF SameIdentity
  <2>2. /\ DevFields \subseteq DOMAIN WriteDevice(w, c)
        /\ WriteDevice(w, c).id = c /\ WriteDevice(w, c).pem = c
    BY DEF WriteDevice, Fields, DevFields
  <2>3. QED BY <2>1, <2>2 DEF Good, Fields
<1>2. Good(restored)
  <2> HIDE DEF written
  <2>1. QED BY <1>1, RestoreTokenSame, SameIsGood DEF Good
<1>3. Good(pruned)
  <2> HIDE DEF restored, keep
  <2>1. QED BY <1>2, PruneSame, SameIsGood DEF Good
<1>4. Good(Capture(pruned, TRUE))
  <2> HIDE DEF pruned
  <2>1. QED BY <1>3, CaptureSame, SameIsGood DEF Good
<1>5. Accept(w, c, topic, F) \in {pruned, Capture(pruned, TRUE)}
  BY DEF Accept
<1> HIDE DEF pruned
<1>6. QED BY <1>3, <1>4, <1>5

LEMMA RollBackGood == ASSUME NEW w, Good(w), NEW c, NEW F
                      PROVE  Good(RollBack(w, c, F))
<1> DEFINE expired == [w EXCEPT !.row[c].live = FALSE]
           before == BoundBefore(w, c)
           previous == IF before = None /\ Cardinality(w.snapshot) = 1
                       THEN CHOOSE b \in w.snapshot : TRUE ELSE before
           pem == IF w.row[c].pem = previous THEN previous ELSE None
           mine == w.dev.id = c
           forgotten == [expired EXCEPT !.row[c].holds = FALSE, !.row[c].pem = None]
           restored == IF ~mine THEN forgotten
                       ELSE [forgotten EXCEPT
                               !.dev.id = previous, !.dev.pem = pem,
                               !.nano.id = IF pem # None /\ @ = w.dev.pem /\ "pem" \notin F
                                           THEN pem ELSE @]
           keep == {IF restored.dev.id \in {None, c, previous} THEN previous ELSE restored.dev.id}
                      \cup w.snapshot
<1>1. Good(expired) /\ Good(forgotten)
  BY DEF Good, Fields, DevFields
<1>2. Good(restored)
  <2>1. pem \in {None, previous}
    OBVIOUS
  <2> HIDE DEF previous, pem, forgotten
  <2>2. QED BY <1>1, <2>1 DEF Good, Fields, DevFields
<1>3. Good(Prune(restored, keep \ {c}, F))
  <2> HIDE DEF restored, keep
  <2>1. QED BY <1>2, PruneSame, SameIsGood DEF Good
<1>4. RollBack(w, c, F) \in {expired, Prune(restored, keep \ {c}, F)}
  BY DEF RollBack
<1> HIDE DEF expired, restored, keep
<1>5. QED BY <1>1, <1>3, <1>4

LEMMA BindGood == ASSUME NEW w, Fields(w), NEW c, NEW topic, NEW F
                  PROVE  Good(Bind(w, c, topic, F))
<1> DEFINE accepted == Accept(w, c, topic, F)
           anew == Fresh(w, c) \/ NewInstall(w, c)
           enrolled == IF anew THEN Reenroll(accepted, c, SameInstall(w, c, topic)) ELSE accepted
           rts == IF anew /\ w.row[c].kind = "rts" THEN Capture(enrolled, FALSE) ELSE enrolled
<1>1. Good(accepted)
  BY AcceptGood
<1>2. Good(enrolled)
  <2> HIDE DEF accepted
  <2>1. QED BY <1>1, ReenrollSame, SameIsGood DEF Good
<1>3. Good(rts)
  <2> HIDE DEF enrolled
  <2>1. QED BY <1>2, CaptureSame, SameIsGood DEF Good
<1>4. Good(FinishOnTokenUpdate(rts, c, F))
  <2> HIDE DEF rts
  <2>1. QED BY <1>3, FinishOnTokenUpdateSame, SameIsGood DEF Good
<1>5. Bind(w, c, topic, F) \in {rts, FinishOnTokenUpdate(rts, c, F)}
  BY DEF Bind
<1> HIDE DEF rts
<1>6. QED BY <1>3, <1>4, <1>5

----------------------------------------------------------------------------
(* The actions.                                                             *)
LEMMA HandleKeeps == IInv /\ Handle => IInv'
<1> SUFFICES ASSUME IInv, Handle PROVE IInv'
  OBVIOUS
<1>1. Good(World) /\ Fields(World)
  BY WorldIsGood DEF Good
<1>2. CASE \E topic \in CheckIns : UpsertUnjudged(topic)
  BY <1>2, DevUntouched DEF UpsertUnjudged, server
<1>3. ASSUME NEW topic \in CheckIns, NEW F \in Faults, UpsertRefused(topic, F) PROVE IInv'
  BY <1>1, <1>3, RefuseSame, SameIsGood, BecomeKeeps DEF UpsertRefused
<1>4. ASSUME NEW topic \in CheckIns, NEW F \in Faults, UpsertBound(topic, F) PROVE IInv'
  BY <1>1, <1>4, BindGood, BecomeKeeps DEF UpsertBound
<1>5. CASE SaveUpsert
  <2> DEFINE saved == [World EXCEPT !.dev.state = "enrolled"]
  <2>1. Good(saved)
    BY <1>1 DEF Good, Fields, DevFields
  <2>2. Good(Capture(saved, FALSE))
    <3> HIDE DEF saved
    <3>1. QED BY <2>1, CaptureSame, SameIsGood DEF Good
  <2>3. UNCHANGED server \/ Become(saved) \/ Become(Capture(saved, FALSE))
    BY <1>5 DEF SaveUpsert
  <2> HIDE DEF saved
  <2>4. QED BY <2>1, <2>2, <2>3, BecomeKeeps, DevUntouched DEF server
<1>6. ASSUME NEW t, HandleSetToken(t) PROVE IInv'
  <2>1. dev' = dev \/ dev' = [dev EXCEPT !.sealed = t, !.escrowed = TRUE]
    BY <1>6 DEF HandleSetToken
  <2>2. QED BY <2>1, DevUntouched DEF IInv, DevFields, PemNamesIdentity
<1>7. CASE HandleCheckOut
  <2> DEFINE failed == Fail(World, Certs, "failed")
             out == [failed EXCEPT !.dev.state = "unenrolled", !.dev.sealed = None,
                                   !.dev.escrowed = FALSE]
  <2>1. Good(failed)
    BY <1>1, FailSame, SameIsGood
  <2>2. Good(out)
    <3> HIDE DEF failed
    <3>1. QED BY <2>1 DEF Good, Fields, DevFields
  <2>3. UNCHANGED server \/ Become(out)
    BY <1>7 DEF HandleCheckOut
  <2> HIDE DEF out
  <2>4. QED BY <2>2, <2>3, BecomeKeeps, DevUntouched DEF server
<1>8. ASSUME NEW c \in Certs, NEW F \in Faults, HandleAcknowledged(c, F) PROVE IInv'
  <2> DEFINE done == [World EXCEPT !.row[c].task = "done"]
  <2>1. Good(done)
    BY <1>1 DEF Good, Fields, DevFields
  <2>2. Good(Finish(done, c, F))
    <3> HIDE DEF done
    <3>1. QED BY <2>1, FinishSame, SameIsGood DEF Good
  <2>3. Become(World) \/ Become(done) \/ Become(Finish(done, c, F))
    BY <1>8 DEF HandleAcknowledged
  <2> HIDE DEF done
  <2>4. QED BY <1>1, <2>1, <2>2, <2>3, BecomeKeeps
<1>9. ASSUME NEW c \in Certs, NEW F \in Faults, HandleError(c, F) PROVE IInv'
  <2> DEFINE failed == [World EXCEPT !.row[c].task = "failed"]
  <2>1. Good(failed)
    BY <1>1 DEF Good, Fields, DevFields
  <2>2. Become(World) \/ Become(RollBack(failed, c, F))
    BY <1>9 DEF HandleError
  <2> HIDE DEF failed
  <2>3. QED BY <1>1, <2>1, <2>2, RollBackGood, BecomeKeeps
<1>10. QED BY <1>2, <1>3, <1>4, <1>5, <1>6, <1>7, <1>8, <1>9 DEF Handle

LEMMA MinuteKeeps == IInv /\ Minute => IInv'
<1> SUFFICES ASSUME IInv, Minute PROVE IInv'
  OBVIOUS
<1>1. Good(World) /\ Fields(World)
  BY WorldIsGood DEF Good
<1>2. ASSUME NEW F \in Faults, Reconcile(F) PROVE IInv'
  <2>1. Become(Accept(World, nano.id, "none", F)) \/ Become(Refuse(World, nano.id, F))
    BY <1>2 DEF Reconcile
  <2>2. Good(Refuse(World, nano.id, F)) /\ Good(Accept(World, nano.id, "none", F))
    BY <1>1, RefuseSame, SameIsGood, AcceptGood
  <2>3. QED BY <2>1, <2>2, BecomeKeeps
<1>3. CASE RetryRefusalRestore
  BY <1>3, DevUntouched DEF RetryRefusalRestore
<1>4. CASE RetryBootstrapRestore
  BY <1>1, <1>4, WriteTokenSame, SameIsGood, BecomeKeeps DEF RetryBootstrapRestore
<1>5. CASE CaptureToken
  BY <1>1, <1>5, CaptureSame, SameIsGood, BecomeKeeps DEF CaptureToken
<1>6. QED BY <1>2, <1>3, <1>4, <1>5 DEF Minute

LEMMA IssueKeeps == IInv /\ Issue => IInv'
<1> SUFFICES ASSUME IInv, Issue PROVE IInv'
  OBVIOUS
<1>1. Good(World) /\ Fields(World)
  BY WorldIsGood DEF Good
<1>2. ASSUME NEW c \in Certs, Renew(c) PROVE IInv'
  <2>1. Good(CopyKept(World))
    BY <1>1, CopyKeptSame, SameIsGood
  <2>2. PICK r : Become([CopyKept(World) EXCEPT !.row[c] = r])
    BY <1>2 DEF Renew
  <2>3. Good([CopyKept(World) EXCEPT !.row[c] = r])
    BY <2>1 DEF Good, Fields
  <2>4. QED BY <2>2, <2>3, BecomeKeeps
<1>3. ASSUME NEW c \in Certs, NEW how, EndTask(c, how) PROVE IInv'
  BY <1>1, <1>3, FailSame, SameIsGood, BecomeKeeps DEF EndTask
<1>4. CASE Allow
  BY <1>4 DEF Allow, IInv, DevFields, PemNamesIdentity
<1>5. CASE AgeAssociations \/ RefusalLapses
  BY <1>5, DevUntouched DEF AgeAssociations, RefusalLapses
<1>6. QED BY <1>2, <1>3, <1>4, <1>5 DEF Issue

LEMMA OutsideKeeps == IInv /\ Outside => IInv'
<1> SUFFICES ASSUME IInv, Outside PROVE IInv'
  OBVIOUS
<1>1. ASSUME NEW c, NEW kind, NEW erased, MacEnrolls(c, kind, erased) PROVE IInv'
  BY <1>1 DEF MacEnrolls, IInv, DevFields, PemNamesIdentity
<1>2. ASSUME \/ \E c \in Certs : MacRenews(c) \/ MacFails(c) \/ MacAcknowledges(c)
                                 \/ OtherAuthenticates(c) \/ OtherSetsToken(c)
             \/ MacAuthenticates \/ MacConfirms \/ MacTokenUpdate \/ MacSetsToken
             \/ MacChecksOut \/ LoseWebhook
      PROVE  dev' = dev
  BY <1>2 DEF MacRenews, MacFails, MacAcknowledges, OtherAuthenticates, OtherSetsToken,
              MacAuthenticates, MacConfirms, MacTokenUpdate, MacSetsToken, MacChecksOut,
              LoseWebhook, server
<1>3. QED BY <1>1, <1>2, DevUntouched DEF Outside

----------------------------------------------------------------------------
(* Through binds, refusals, renewals, rollbacks, failed writes and webhooks *)
(* in any order, for any number of certificates: the certificate kept in    *)
(* the device row to put back is the device's own (identity.py              *)
(* apply_acceptance, apply_refusal; identity_renewal.py fail_renewal).      *)
THEOREM PemAlwaysNamesIdentity == Spec => []PemNamesIdentity
<1>1. Init => IInv
  <2> SUFFICES ASSUME Init PROVE IInv
    OBVIOUS
  <2>1. PICK known \in BOOLEAN, t \in {None, MaxTokens} :
           dev = [state |-> "enrolled", id |-> IF known THEN 1 ELSE None,
                  pem |-> IF known THEN 1 ELSE None, sealed |-> None,
                  escrowed |-> t # None, erased |-> FALSE, allowance |-> FALSE]
    BY DEF Init
  <2>2. QED BY <2>1 DEF IInv, DevFields, PemNamesIdentity
<1>2. IInv /\ [Next]_vars => IInv'
  BY HandleKeeps, MinuteKeeps, IssueKeeps, OutsideKeeps, DevUntouched DEF Next, vars
<1>3. IInv => PemNamesIdentity
  BY DEF IInv
<1>4. QED BY <1>1, <1>2, <1>3, PTL DEF Spec

----------------------------------------------------------------------------
(* What was rolled back stays so, through what keeps ranks and bindings.    *)
LEMMA KeptIsSound == ASSUME NEW w, NEW v, Sound(w), Kept(w, v) PROVE Sound(v)
BY DEF Sound, Kept, Ranked, RolledBack

LEMMA KeptTwice ==
  ASSUME NEW w, NEW v, NEW u, Kept(w, v), Kept(v, u) PROVE Kept(w, u)
BY DEF Kept

LEMMA SameRowsKept ==
  ASSUME NEW w, NEW v, Rowed(w), Fields(v), v.row = w.row, v.snapshot \subseteq w.snapshot
  PROVE  Kept(w, v)
BY DEF Rowed, Kept

(* The largest rank of some certificates is the rank of one of them.        *)
LEMMA Least ==
  ASSUME NEW B \in SUBSET Nat, B # {} PROVE \E b \in B : \A c \in B : b <= c
<1> DEFINE R == OpToRel(<, Nat)
<1>1. IsWellFoundedOn(R, Nat)
  BY NatLessThanWellFounded
<1>2. \A x, y \in Nat : x < y => <<x, y>> \in R
  BY DEF OpToRel
<1> HIDE DEF R
<1>3. PICK b \in B : \A c \in B : ~(<<c, b>> \in R)
  BY <1>1, WFMin
<1>4. ASSUME NEW c \in B PROVE b <= c
  <2>1. b \in Nat /\ c \in Nat /\ ~(c < b)
    BY <1>2, <1>3
  <2>2. QED BY <2>1
<1>5. QED BY <1>4

LEMMA Largest ==
  ASSUME NEW n \in Nat, NEW A \in SUBSET (0..n), A # {}
  PROVE  \E b \in A : \A c \in A : c <= b
<1> DEFINE B == {n - b : b \in A}
<1>1. B \in SUBSET Nat /\ \E b : b \in B
  <2>1. \A b \in A : b \in Nat /\ n - b \in Nat /\ n - b \in B
    OBVIOUS
  <2>2. B \in SUBSET Nat
    BY <2>1
  <2>3. QED BY <2>1, <2>2
<1>2. PICK m \in B : \A c \in B : m <= c
  <2> HIDE DEF B
  <2>1. QED BY <1>1, Least
<1>3. PICK b \in A : m = n - b
  OBVIOUS
<1>4. ASSUME NEW c \in A PROVE c <= b
  <2>1. n - b <= n - c /\ b \in Nat /\ c \in Nat
    BY <1>2, <1>3
  <2>2. QED BY <2>1
<1>5. QED BY <1>4

LEMMA NewestIs ==
  ASSUME NEW w, Ranked(w), NEW S \in SUBSET Certs
  PROVE  Newest(w, S) = None \/ Newest(w, S) \in S
<1> SUFFICES ASSUME S # {} PROVE Newest(w, S) \in S
  BY DEF Newest
<1>1. PICK n \in Nat : \A c \in Certs : w.row[c].bound \in 0..n
  BY DEF Ranked
<1> DEFINE A == {w.row[c].bound : c \in S}
<1>2. A \in SUBSET (0..n) /\ \E b : b \in A
  BY <1>1
<1>3. PICK m \in A : \A b \in A : b <= m
  <2> HIDE DEF A
  <2>1. QED BY <1>2, Largest
<1>4. \E c \in S : \A b \in S : w.row[b].bound <= w.row[c].bound
  BY <1>3
<1>5. QED BY <1>4 DEF Newest

LEMMA RankIs ==
  ASSUME NEW w, Ranked(w), NEW c \in Certs
  PROVE  \E n \in Nat : BindRank(w) \in 1..n /\ \A b \in Certs : w.row[b].bound \in 0..n
<1>1. PICK n \in Nat : \A b \in Certs : w.row[b].bound \in 0..n
  BY DEF Ranked
<1> DEFINE A == {w.row[b].bound : b \in Certs}
<1>2. A \in SUBSET (0..n) /\ \E b : b \in A
  BY <1>1
<1>3. Max(A) \in A
  <2> HIDE DEF A
  <2>1. PICK m \in A : \A b \in A : b <= m
    BY <1>2, Largest
  <2>2. \A b \in A : m >= b
    BY <1>2, <2>1
  <2>3. QED BY <2>2 DEF Max
<1>4. BindRank(w) \in 1..(n + 1)
  BY <1>2, <1>3 DEF BindRank
<1>5. \A b \in Certs : w.row[b].bound \in 0..(n + 1)
  BY <1>1
<1>6. QED BY <1>4, <1>5

----------------------------------------------------------------------------
(* What leaves the rows alone, or only ends tasks and forgets certificates. *)
LEMMA WritesKeep ==
  ASSUME NEW w, Rowed(w), NEW F, NEW S, NEW flag
  PROVE  /\ Kept(w, Prune(w, S, F)) /\ Kept(w, Park(w, S, F)) /\ Kept(w, WriteToken(w))
         /\ Kept(w, RestoreToken(w, F)) /\ Kept(w, Capture(w, flag)) /\ Kept(w, CopyKept(w))
<1>1. Fields(w)
  BY DEF Rowed
<1>2. /\ Prune(w, S, F).row = w.row /\ Prune(w, S, F).snapshot = w.snapshot
      /\ Park(w, S, F).row = w.row /\ Park(w, S, F).snapshot = w.snapshot
      /\ WriteToken(w).row = w.row /\ WriteToken(w).snapshot = w.snapshot
  BY <1>1 DEF Prune, Park, WriteToken, Fields
<1>3. RestoreToken(w, F).row = w.row /\ RestoreToken(w, F).snapshot = w.snapshot
  BY <1>1, <1>2 DEF RestoreToken, Fields
<1>4. /\ Capture(w, flag).row = w.row /\ Capture(w, flag).snapshot = w.snapshot
      /\ CopyKept(w).row = w.row /\ CopyKept(w).snapshot = w.snapshot
  BY <1>1 DEF Capture, CopyKept, Fields
<1>5. /\ Fields(Prune(w, S, F)) /\ Fields(Park(w, S, F)) /\ Fields(WriteToken(w))
      /\ Fields(RestoreToken(w, F)) /\ Fields(Capture(w, flag)) /\ Fields(CopyKept(w))
  BY <1>1, PruneSame, ParkSame, WriteTokenSame, RestoreTokenSame, CaptureSame, CopyKeptSame
     DEF SameIdentity
<1>6. QED BY <1>2, <1>3, <1>4, <1>5, SameRowsKept

LEMMA FailKeeps == ASSUME NEW w, Rowed(w), NEW S, NEW how PROVE Kept(w, Fail(w, S, how))
<1> DEFINE rows == [c \in Certs |-> IF c \in S /\ Open(w, c)
                                    THEN [w.row[c] EXCEPT !.task = how, !.live = FALSE]
                                    ELSE w.row[c]]
<1>1. Fail(w, S, how).row = rows /\ Fail(w, S, how).snapshot = w.snapshot
  BY DEF Fail, Rowed, Fields
<1>2. Fields(Fail(w, S, how))
  BY FailSame DEF Rowed, SameIdentity
<1>3. DOMAIN rows = Certs
  OBVIOUS
<1>4. ASSUME NEW c \in Certs
      PROVE  /\ RowFields \subseteq DOMAIN rows[c]
             /\ rows[c].kind = w.row[c].kind /\ rows[c].bound = w.row[c].bound
             /\ rows[c].holds = w.row[c].holds
             /\ w.row[c].task = "none" => rows[c].task = "none"
  BY DEF Rowed, RowFields, Open
<1> HIDE DEF rows
<1>5. QED BY <1>1, <1>2, <1>3, <1>4 DEF Kept, Rowed

LEMMA FinishKeeps == ASSUME NEW w, Rowed(w), NEW c, NEW F PROVE Kept(w, Finish(w, c, F))
<1> DEFINE cleared == [w EXCEPT !.row[c].pem = None]
           bare == [cleared EXCEPT !.snapshot = {}]
<1>1. /\ cleared.row = [w.row EXCEPT ![c].pem = None] /\ cleared.snapshot = w.snapshot
      /\ bare.row = cleared.row /\ bare.snapshot = {}
      /\ Fields(cleared) /\ Fields(bare)
  BY DEF Rowed, Fields, DevFields
<1>2. /\ DOMAIN cleared.row = Certs
      /\ \A b \in Certs : /\ RowFields \subseteq DOMAIN cleared.row[b]
                          /\ cleared.row[b].kind = w.row[b].kind
                          /\ cleared.row[b].bound = w.row[b].bound
                          /\ cleared.row[b].holds = w.row[b].holds
                          /\ cleared.row[b].task = w.row[b].task
  BY <1>1 DEF Rowed, RowFields
<1> HIDE DEF cleared
<1>3. Kept(w, cleared) /\ Kept(w, bare)
  <2> HIDE DEF bare
  <2>1. QED BY <1>1, <1>2 DEF Kept, Rowed
<1>4. Kept(w, Prune(bare, {c}, F))
  <2> HIDE DEF bare
  <2>1. Kept(bare, Prune(bare, {c}, F))
    BY <1>3, WritesKeep DEF Kept
  <2>2. QED BY <1>3, <2>1, KeptTwice
<1>5. Finish(w, c, F) \in {cleared, Prune(bare, {c}, F)}
  BY DEF Finish, cleared
<1> HIDE DEF bare
<1>6. QED BY <1>3, <1>4, <1>5

LEMMA ItselfKept == ASSUME NEW w, Rowed(w) PROVE Kept(w, w)
BY DEF Kept, Rowed

LEMMA FinishOnTokenUpdateKeeps ==
  ASSUME NEW w, Rowed(w), NEW c, NEW F PROVE Kept(w, FinishOnTokenUpdate(w, c, F))
BY FinishKeeps, ItselfKept DEF FinishOnTokenUpdate

(* A change of the device row, of NanoMDM's or of the alert.                *)
LEMMA ReenrollKeeps ==
  ASSUME NEW w, Rowed(w), NEW c, NEW sameInstall PROVE Kept(w, Reenroll(w, c, sameInstall))
<1> DEFINE failed == Fail(w, IF w.row[c].kind = "renewal" THEN Certs \ {c} ELSE Certs, "failed")
<1>1. Kept(w, failed)
  BY FailKeeps
<1>2. \/ \E b : Reenroll(w, c, sameInstall) = [failed EXCEPT !.dev.escrowed = b]
      \/ Reenroll(w, c, sameInstall)
            = [failed EXCEPT !.dev.escrowed = FALSE, !.dev.sealed = None]
  BY DEF Reenroll
<1>3. Fields(Reenroll(w, c, sameInstall))
  BY ReenrollSame DEF Rowed, SameIdentity
<1> HIDE DEF failed
<1>4. /\ Reenroll(w, c, sameInstall).row = failed.row
      /\ Reenroll(w, c, sameInstall).snapshot = failed.snapshot
  BY <1>1, <1>2 DEF Kept, Rowed, Fields
<1>5. Rowed(failed)
  BY <1>1 DEF Kept
<1>6. Kept(failed, Reenroll(w, c, sameInstall))
  BY <1>3, <1>4, <1>5, SameRowsKept
<1>7. QED BY <1>1, <1>6, KeptTwice

LEMMA RefuseKeeps == ASSUME NEW w, Rowed(w), NEW c, NEW F PROVE Kept(w, Refuse(w, c, F))
<1> DEFINE parked == Park(w, ({c} \cup Assoc(w)) \ Allowed(w), F)
           live == Enrolled(w) /\ c \in Assoc(w)
           tokened == IF ~live \/ "token" \in F THEN parked
                      ELSE IF w.dev.sealed # None THEN WriteToken(parked)
                      ELSE [parked EXCEPT !.nano.token = None, !.nano.stamped = FALSE]
<1>1. Kept(w, parked)
  BY WritesKeep
<1>2. tokened.row = parked.row /\ tokened.snapshot = parked.snapshot /\ Fields(tokened)
  <2>1. Fields(parked)
    BY <1>1 DEF Kept, Rowed
  <2> HIDE DEF parked
  <2>2. QED BY <2>1 DEF WriteToken, Fields, DevFields
<1>3. Refuse(w, c, F).row = tokened.row /\ Refuse(w, c, F).snapshot = tokened.snapshot
  <2> HIDE DEF parked
  <2>1. QED BY <1>2 DEF Refuse, parked, Fields
<1>4. Fields(Refuse(w, c, F))
  BY RefuseSame DEF Rowed, SameIdentity
<1> HIDE DEF parked, tokened
<1>5. Kept(parked, Refuse(w, c, F))
  BY <1>1, <1>2, <1>3, <1>4, SameRowsKept DEF Kept
<1>6. QED BY <1>1, <1>5, KeptTwice

----------------------------------------------------------------------------
(* What binds and what unbinds.                                             *)
LEMMA WithRowIs ==
  ASSUME NEW w, Rowed(w), NEW c, NEW r, c \in Certs => RowFields \subseteq DOMAIN r
  PROVE  /\ Rowed(WithRow(w, c, r)) /\ WithRow(w, c, r).snapshot = w.snapshot
         /\ c \in Certs => WithRow(w, c, r).row[c] = r
         /\ \A b \in Certs \ {c} : WithRow(w, c, r).row[b] = w.row[b]
<1> DEFINE v == WithRow(w, c, r)
<1>1. /\ {"row", "dev", "snapshot", "nano", "alarm"} \subseteq DOMAIN v
      /\ v.row = [w.row EXCEPT ![c] = r] /\ v.snapshot = w.snapshot /\ v.dev = w.dev
  BY DEF Rowed, Fields, WithRow
<1> HIDE DEF v
<1>2. /\ DOMAIN v.row = Certs /\ (c \in Certs => v.row[c] = r)
      /\ \A b \in Certs \ {c} : v.row[b] = w.row[b]
  BY <1>1 DEF Rowed
<1>3. Rowed(v)
  BY <1>1, <1>2 DEF Rowed, Fields
<1>4. QED BY <1>1, <1>2, <1>3 DEF v

LEMMA BindRowSound == ASSUME NEW w, Sound(w), NEW c PROVE Sound(BindRow(w, c))
<1> SUFFICES ASSUME Fresh(w, c) PROVE Sound(BindRow(w, c))
  BY DEF BindRow
<1>1. Rowed(w)
  BY DEF Sound
<1> DEFINE rank == IF w.row[c].bound = 0 THEN BindRank(w) ELSE w.row[c].bound
           pem == IF w.row[c].kind = "renewal" /\ w.dev.pem # None THEN w.dev.pem
                  ELSE w.row[c].pem
           snap == IF w.row[c].kind = "renewal" THEN w.snapshot ELSE {}
           r1 == [w.row[c] EXCEPT !.bound = rank]
           r2 == [r1 EXCEPT !.holds = TRUE]
           r3 == [r2 EXCEPT !.pem = pem]
           w1 == WithRow(w, c, r1)
           w2 == WithRow(w1, c, r2)
           w3 == WithRow(w2, c, r3)
<1>2. snap \in {w.snapshot, {}}
  OBVIOUS
<1>3. c \in Certs => /\ RowFields \subseteq DOMAIN r1 /\ RowFields \subseteq DOMAIN r2
                     /\ RowFields \subseteq DOMAIN r3
                     /\ r3.bound = rank /\ r3.holds = TRUE
                     /\ r3.kind = w.row[c].kind /\ r3.task = w.row[c].task
  <2> HIDE DEF rank, pem
  <2>1. QED BY <1>1 DEF Rowed, RowFields
<1>4. c \in Certs => \E n \in Nat : rank \in 0..n /\ \A b \in Certs : w.row[b].bound \in 0..n
  <2>1. SUFFICES ASSUME c \in Certs
                 PROVE  \E n \in Nat : rank \in 0..n /\ \A b \in Certs : w.row[b].bound \in 0..n
    OBVIOUS
  <2>2. PICK n \in Nat : BindRank(w) \in 1..n /\ \A b \in Certs : w.row[b].bound \in 0..n
    BY <2>1, RankIs DEF Sound
  <2>3. rank \in 0..n
    BY <2>1, <2>2
  <2> HIDE DEF rank
  <2>4. QED BY <2>2, <2>3
<1>5. /\ Rowed(w3) /\ w3.snapshot = w.snapshot /\ (c \in Certs => w3.row[c] = r3)
      /\ \A b \in Certs \ {c} : w3.row[b] = w.row[b]
  <2> HIDE DEF r1, r2, r3
  <2>1. /\ Rowed(w1) /\ w1.snapshot = w.snapshot
        /\ \A b \in Certs \ {c} : w1.row[b] = w.row[b]
    BY <1>1, <1>3, WithRowIs
  <2> HIDE DEF w1
  <2>2. /\ Rowed(w2) /\ w2.snapshot = w.snapshot
        /\ \A b \in Certs \ {c} : w2.row[b] = w.row[b]
    BY <1>3, <2>1, WithRowIs
  <2> HIDE DEF w2
  <2>3. QED BY <1>3, <2>2, WithRowIs
<1>6. BindRow(w, c) = [w3 EXCEPT !.snapshot = snap]
  BY DEF BindRow, WithRow
<1> HIDE DEF w3, r3, snap, rank
<1>7. Rowed(BindRow(w, c)) /\ BindRow(w, c).row = w3.row /\ BindRow(w, c).snapshot = snap
  BY <1>5, <1>6 DEF Rowed, Fields
<1>8. Ranked(BindRow(w, c))
  <2>1. CASE c \in Certs
    <3>1. PICK n \in Nat : rank \in 0..n /\ \A b \in Certs : w.row[b].bound \in 0..n
      BY <1>4, <2>1
    <3>2. \A b \in Certs : BindRow(w, c).row[b].bound \in 0..n
      BY <1>3, <1>5, <1>7, <3>1
    <3>3. QED BY <3>2 DEF Ranked
  <2>2. CASE c \notin Certs
    BY <1>5, <1>7, <2>2 DEF Sound, Ranked
  <2>3. QED BY <2>1, <2>2
<1>9. \A b \in Certs : /\ BindRow(w, c).row[b].kind = w.row[b].kind
                       /\ BindRow(w, c).row[b].task = w.row[b].task
                       /\ RolledBack(BindRow(w, c), b) => RolledBack(w, b)
  BY <1>3, <1>5, <1>7 DEF RolledBack
<1>10. QED BY <1>2, <1>7, <1>8, <1>9 DEF Sound

LEMMA AcceptSound ==
  ASSUME NEW w, Sound(w), NEW c, NEW topic, NEW F
  PROVE  Sound(Accept(w, c, topic, F)) /\ Accept(w, c, topic, F).dev.id = c
<1> DEFINE written == [BindRow(w, c) EXCEPT !.dev = WriteDevice(w, c)]
           same == SameInstall(w, c, topic)
           renewal == w.row[c].kind = "renewal"
           restored == IF same THEN RestoreToken(written, F) ELSE written
           keep == (Allowed(restored) \cup {c} \cup (IF renewal THEN {w.dev.id} ELSE {})) \ {None}
           pruned == Prune(restored, keep, F)
<1>1. Sound(written) /\ written.dev.id = c
  <2>1. Sound(BindRow(w, c))
    BY BindRowSound
  <2>2. Fields(BindRow(w, c)) /\ Fields(w)
    BY <2>1 DEF Sound, Rowed
  <2>3. DevFields \subseteq DOMAIN WriteDevice(w, c) /\ WriteDevice(w, c).id = c
    BY <2>2 DEF WriteDevice, Fields, DevFields
  <2>4. /\ Fields(written) /\ written.row = BindRow(w, c).row /\ written.dev.id = c
        /\ written.snapshot = BindRow(w, c).snapshot
    BY <2>2, <2>3 DEF Fields
  <2>5. Kept(BindRow(w, c), written)
    <3> HIDE DEF written
    <3>1. QED BY <2>1, <2>4, SameRowsKept DEF Sound
  <2> HIDE DEF written
  <2>6. QED BY <2>1, <2>4, <2>5, KeptIsSound
<1>2. Sound(restored) /\ restored.dev.id = c
  <2> HIDE DEF written
  <2>1. Rowed(written) /\ Fields(written)
    BY <1>1 DEF Sound, Rowed
  <2>2. Sound(RestoreToken(written, F)) /\ RestoreToken(written, F).dev.id = c
    BY <1>1, <2>1, WritesKeep, KeptIsSound, RestoreTokenSame DEF SameIdentity
  <2>3. QED BY <1>1, <2>2
<1>3. Sound(pruned) /\ pruned.dev.id = c
  <2> HIDE DEF restored, keep
  <2>1. Rowed(restored) /\ Fields(restored)
    BY <1>2 DEF Sound, Rowed
  <2>2. QED BY <1>2, <2>1, WritesKeep, KeptIsSound, PruneSame DEF SameIdentity
<1>4. Sound(Capture(pruned, TRUE)) /\ Capture(pruned, TRUE).dev.id = c
  <2> HIDE DEF pruned
  <2>1. Rowed(pruned) /\ Fields(pruned)
    BY <1>3 DEF Sound, Rowed
  <2>2. QED BY <1>3, <2>1, WritesKeep, KeptIsSound, CaptureSame DEF SameIdentity
<1>5. Accept(w, c, topic, F) \in {pruned, Capture(pruned, TRUE)}
  BY DEF Accept
<1> HIDE DEF pruned
<1>6. QED BY <1>3, <1>4, <1>5

LEMMA BindSound ==
  ASSUME NEW w, Sound(w), NEW c, NEW topic, NEW F
  PROVE  Sound(Bind(w, c, topic, F)) /\ Bind(w, c, topic, F).dev.id = c
<1> DEFINE accepted == Accept(w, c, topic, F)
           anew == Fresh(w, c) \/ NewInstall(w, c)
           enrolled == IF anew THEN Reenroll(accepted, c, SameInstall(w, c, topic)) ELSE accepted
           rts == IF anew /\ w.row[c].kind = "rts" THEN Capture(enrolled, FALSE) ELSE enrolled
<1>1. Sound(accepted) /\ accepted.dev.id = c
  BY AcceptSound
<1>2. Sound(enrolled) /\ enrolled.dev.id = c
  <2> HIDE DEF accepted
  <2>1. Rowed(accepted) /\ Fields(accepted)
    BY <1>1 DEF Sound, Rowed
  <2>2. QED BY <1>1, <2>1, ReenrollKeeps, KeptIsSound, ReenrollSame DEF SameIdentity
<1>3. Sound(rts) /\ rts.dev.id = c
  <2> HIDE DEF enrolled
  <2>1. Rowed(enrolled) /\ Fields(enrolled)
    BY <1>2 DEF Sound, Rowed
  <2>2. QED BY <1>2, <2>1, WritesKeep, KeptIsSound, CaptureSame DEF SameIdentity
<1>4. Sound(FinishOnTokenUpdate(rts, c, F)) /\ FinishOnTokenUpdate(rts, c, F).dev.id = c
  <2> HIDE DEF rts
  <2>1. Rowed(rts) /\ Fields(rts)
    BY <1>3 DEF Sound, Rowed
  <2>2. QED BY <1>3, <2>1, FinishOnTokenUpdateKeeps, KeptIsSound, FinishOnTokenUpdateSame
            DEF SameIdentity
<1>5. Bind(w, c, topic, F) \in {rts, FinishOnTokenUpdate(rts, c, F)}
  BY DEF Bind
<1> HIDE DEF rts
<1>6. QED BY <1>3, <1>4, <1>5

LEMMA BoundBeforeIs ==
  ASSUME NEW w, Sound(w), NEW c
  PROVE  BoundBefore(w, c) = None \/ BoundBefore(w, c) \in Bound(w)
<1> DEFINE S == {b \in Bound(w) : w.row[b].bound < w.row[c].bound}
<1>1. S \in SUBSET Certs /\ S \subseteq Bound(w)
  BY DEF Bound
<1>2. BoundBefore(w, c) = Newest(w, S)
  BY DEF BoundBefore
<1> HIDE DEF S
<1>3. QED BY <1>1, <1>2, NewestIs DEF Sound

LEMMA RollBackSound ==
  ASSUME NEW w, Sound(w), NEW c \in Certs, NEW F, w.row[c].kind = "renewal"
  PROVE  /\ Sound(RollBack(w, c, F))
         /\ \/ RollBack(w, c, F).dev.id = w.dev.id
            \/ RollBack(w, c, F).dev.id = None
            \/ \E d \in Certs : RollBack(w, c, F).dev.id = d /\ ~RolledBack(w, d)
<1> DEFINE expired == [w EXCEPT !.row[c].live = FALSE]
           before == BoundBefore(w, c)
           previous == IF before = None /\ Cardinality(w.snapshot) = 1
                       THEN CHOOSE b \in w.snapshot : TRUE ELSE before
           pem == IF w.row[c].pem = previous THEN previous ELSE None
           mine == w.dev.id = c
           forgotten == [expired EXCEPT !.row[c].holds = FALSE, !.row[c].pem = None]
           restored == IF ~mine THEN forgotten
                       ELSE [forgotten EXCEPT
                               !.dev.id = previous, !.dev.pem = pem,
                               !.nano.id = IF pem # None /\ @ = w.dev.pem /\ "pem" \notin F
                                           THEN pem ELSE @]
           keep == {IF restored.dev.id \in {None, c, previous} THEN previous ELSE restored.dev.id}
                      \cup w.snapshot
<1>1. Rowed(w) /\ Fields(w)
  BY DEF Sound, Rowed
<1>2. Sound(expired) /\ expired.dev.id = w.dev.id /\ Fields(expired)
  <2>1. Kept(w, expired) /\ expired.dev.id = w.dev.id
    BY <1>1 DEF Kept, Rowed, Fields, RowFields
  <2> HIDE DEF expired
  <2>2. QED BY <2>1, KeptIsSound DEF Kept, Rowed
<1>3. Sound(forgotten) /\ forgotten.dev.id = w.dev.id /\ Fields(forgotten)
  <2>1. /\ Fields(forgotten) /\ forgotten.dev.id = w.dev.id /\ forgotten.snapshot = w.snapshot
        /\ DOMAIN forgotten.row = Certs
        /\ forgotten.row[c] = [w.row[c] EXCEPT !.live = FALSE, !.holds = FALSE, !.pem = None]
        /\ \A b \in Certs \ {c} : forgotten.row[b] = w.row[b]
    BY <1>1 DEF Rowed, Fields, RowFields
  <2>2. /\ RowFields \subseteq DOMAIN forgotten.row[c]
        /\ forgotten.row[c].bound = w.row[c].bound /\ forgotten.row[c].kind = "renewal"
    BY <1>1, <2>1 DEF Rowed, RowFields
  <2> HIDE DEF forgotten
  <2>3. Rowed(forgotten)
    BY <1>1, <2>1, <2>2 DEF Rowed
  <2>4. Ranked(forgotten)
    BY <2>1, <2>2 DEF Sound, Ranked
  <2>5. ASSUME NEW b \in Certs
        PROVE  /\ RolledBack(forgotten, b) => forgotten.row[b].kind = "renewal"
               /\ forgotten.row[b].task # "none" => forgotten.row[b].kind = "renewal"
    <3>1. CASE b = c
      BY <2>2, <3>1
    <3>2. CASE b # c
      BY <2>1, <3>2 DEF Sound, RolledBack
    <3>3. QED BY <3>1, <3>2
  <2>6. forgotten.snapshot \subseteq {b \in Certs : forgotten.row[b].kind = "legacy"}
    BY <2>1, <2>2 DEF Sound
  <2>7. QED BY <2>1, <2>3, <2>4, <2>5, <2>6 DEF Sound
<1>4. /\ Sound(restored)
      /\ restored.dev.id \in {w.dev.id, previous}
  <2> HIDE DEF forgotten, previous, pem
  <2>1. CASE ~mine
    BY <1>3, <2>1
  <2>2. CASE mine
    <3>1. /\ restored.row = forgotten.row /\ restored.snapshot = forgotten.snapshot
          /\ Fields(restored) /\ restored.dev.id = previous
      BY <1>3, <2>2 DEF Fields, DevFields
    <3> HIDE DEF restored
    <3>2. Kept(forgotten, restored)
      BY <1>3, <3>1, SameRowsKept DEF Sound
    <3>3. QED BY <1>3, <3>1, <3>2, KeptIsSound
  <2>3. QED BY <2>1, <2>2
<1>5. previous = None \/ \E d \in Certs : previous = d /\ ~RolledBack(w, d)
  <2>1. CASE previous = before
    <3>1. before = None \/ before \in Bound(w)
      BY BoundBeforeIs
    <3>2. QED BY <2>1, <3>1 DEF Bound, RolledBack
  <2>2. CASE Cardinality(w.snapshot) = 1 /\ previous = CHOOSE b \in w.snapshot : TRUE
    <3>1. w.snapshot # {}
      BY <2>2, FS_EmptySet
    <3>2. (CHOOSE b \in w.snapshot : TRUE) \in w.snapshot
      BY <3>1
    <3>3. previous \in w.snapshot
      BY <2>2, <3>2
    <3> HIDE DEF previous
    <3>4. QED BY <3>3 DEF Sound
  <2>3. QED BY <2>1, <2>2
<1>6. /\ Sound(Prune(restored, keep \ {c}, F))
      /\ Prune(restored, keep \ {c}, F).dev.id = restored.dev.id
  <2> HIDE DEF restored, keep
  <2>1. Rowed(restored) /\ Fields(restored)
    BY <1>4 DEF Sound, Rowed
  <2>2. QED BY <1>4, <2>1, WritesKeep, KeptIsSound, PruneSame DEF SameIdentity
<1>7. RollBack(w, c, F) \in {expired, Prune(restored, keep \ {c}, F)}
  BY DEF RollBack
<1> HIDE DEF expired, restored, keep, previous
<1>8. QED BY <1>2, <1>4, <1>5, <1>6, <1>7

----------------------------------------------------------------------------
(* The actions.                                                             *)
LEMMA BecomesSound ==
  ASSUME NEW w, Sound(w), Become(w) PROVE Sound(World)' /\ dev'.id = w.dev.id
<1>1. World' = [row |-> w.row, dev |-> w.dev, snapshot |-> w.snapshot, nano |-> w.nano,
                alarm |-> w.alarm]
  BY DEF Become, World
<1>2. /\ {"row", "dev", "snapshot", "nano", "alarm"} \subseteq DOMAIN World'
      /\ World'.row = w.row /\ World'.dev = w.dev /\ World'.snapshot = w.snapshot
  BY <1>1
<1>3. Rowed(World') /\ Fields(World')
  BY <1>2 DEF Sound, Rowed, Fields
<1>4. Kept(w, World')
  BY <1>2, <1>3, SameRowsKept DEF Sound
<1>5. Sound(World')
  BY <1>4, KeptIsSound
<1>6. QED BY <1>5 DEF Become

(* Nothing of the world but NanoMDM's rows and the alert changes.           *)
LEMMA RowsUntouched ==
  ASSUME Sound(World), row' = row, snapshot' = snapshot, dev'.id = dev.id,
         DevFields \subseteq DOMAIN dev'
  PROVE  Sound(World)' /\ Stays
<1>1. /\ Fields(World') /\ World'.row = World.row /\ World'.snapshot = World.snapshot
  BY DEF World, Fields
<1>2. Kept(World, World')
  BY <1>1, SameRowsKept DEF Sound
<1>3. Sound(World')
  BY <1>2, KeptIsSound
<1>4. QED BY <1>3 DEF Stays

(* A new challenge row is taken, or a free one changes hands.               *)
LEMMA NewRow ==
  ASSUME NEW w, Sound(w), NEW c \in Certs, NEW r, w.row[c].kind = "free",
         RowFields \subseteq DOMAIN r, r.task # "none" => r.kind = "renewal",
         r.bound = 0 \/ (r.bound = w.row[c].bound /\ r.holds = w.row[c].holds)
  PROVE  Sound(WithRow(w, c, r))
<1> DEFINE v == WithRow(w, c, r)
<1>1. /\ Rowed(v) /\ v.snapshot = w.snapshot /\ v.row[c] = r
      /\ \A b \in Certs \ {c} : v.row[b] = w.row[b]
  BY WithRowIs DEF Sound
<1>2. ~RolledBack(w, c) /\ c \notin w.snapshot
  BY DEF Sound
<1> HIDE DEF v
<1>3. Ranked(v)
  BY <1>1 DEF Sound, Ranked
<1>4. ASSUME NEW b \in Certs
      PROVE  /\ RolledBack(v, b) => v.row[b].kind = "renewal"
             /\ v.row[b].task # "none" => v.row[b].kind = "renewal"
  <2>1. CASE b = c
    BY <1>1, <1>2, <2>1 DEF RolledBack
  <2>2. CASE b # c
    BY <1>1, <2>2 DEF Sound, RolledBack
  <2>3. QED BY <2>1, <2>2
<1>5. v.snapshot \subseteq {b \in Certs : v.row[b].kind = "legacy"}
  BY <1>1, <1>2 DEF Sound
<1>6. Sound(v)
  BY <1>1, <1>3, <1>4, <1>5 DEF Sound
<1>7. QED BY <1>6 DEF v

LEMMA NewRowOfWorld ==
  ASSUME Sound(World), NEW c \in Certs, NEW r, row[c].kind = "free",
         RowFields \subseteq DOMAIN r, r.task # "none" => r.kind = "renewal",
         r.bound = 0 \/ (r.bound = row[c].bound /\ r.holds = row[c].holds),
         row' = [row EXCEPT ![c] = r], snapshot' = snapshot, dev'.id = dev.id,
         DevFields \subseteq DOMAIN dev'
  PROVE  Sound(World)' /\ Stays
<1>1. Sound(WithRow(World, c, r))
  BY NewRow DEF World
<1>2. /\ Fields(World') /\ World'.row = WithRow(World, c, r).row
      /\ World'.snapshot = WithRow(World, c, r).snapshot
  BY DEF World, Fields, WithRow
<1>3. Kept(WithRow(World, c, r), World')
  BY <1>1, <1>2, SameRowsKept DEF Sound
<1>4. Sound(World')
  BY <1>1, <1>3, KeptIsSound
<1>5. QED BY <1>4 DEF Stays

LEMMA BecomesSame ==
  ASSUME Sound(World), NEW w, Kept(World, w), SameIdentity(World, w), Become(w)
  PROVE  Sound(World)' /\ Stays
<1>1. Sound(w) /\ w.dev.id = dev.id
  BY KeptIsSound DEF SameIdentity, World
<1>2. QED BY <1>1, BecomesSound DEF Stays

(* What may be accepted was not rolled back.                                *)
LEMMA AcceptedStands ==
  ASSUME Sound(World), NEW c, Stands(World, c) PROVE c \in Certs => ~RolledBack(World, c)
BY DEF Stands, RolledBack, Sound

LEMMA HandleStays == ASSUME Sound(World), Handle PROVE Sound(World)' /\ Stays
<1>0. Fields(World) /\ Rowed(World) /\ DevFields \subseteq DOMAIN dev
  BY DEF Sound, Rowed, Fields, World
<1>1. CASE \E topic \in CheckIns : UpsertUnjudged(topic)
  BY <1>0, <1>1, RowsUntouched DEF UpsertUnjudged, server
<1>2. ASSUME NEW topic \in CheckIns, NEW F \in Faults, UpsertRefused(topic, F)
      PROVE  Sound(World)' /\ Stays
  BY <1>0, <1>2, RefuseKeeps, RefuseSame, BecomesSame DEF UpsertRefused
<1>3. ASSUME NEW topic \in CheckIns, NEW F \in Faults, UpsertBound(topic, F)
      PROVE  Sound(World)' /\ Stays
  <2>1. Stands(World, nano.id) /\ Become(Bind(World, nano.id, topic, F))
    BY <1>3 DEF UpsertBound, MayBind
  <2>2. Sound(World)' /\ dev'.id = nano.id
    BY <2>1, BindSound, BecomesSound
  <2>3. QED BY <2>1, <2>2, AcceptedStands DEF Stays
<1>4. CASE SaveUpsert
  <2> DEFINE saved == [World EXCEPT !.dev.state = "enrolled"]
  <2>1. SameIdentity(World, saved) /\ saved.row = World.row /\ saved.snapshot = World.snapshot
    BY <1>0 DEF SameIdentity, Fields, DevFields
  <2>2. Kept(World, saved)
    <3> HIDE DEF saved
    <3>1. QED BY <1>0, <2>1, SameRowsKept DEF SameIdentity
  <2>3. Kept(World, Capture(saved, FALSE)) /\ SameIdentity(World, Capture(saved, FALSE))
    <3> HIDE DEF saved
    <3>1. Rowed(saved) /\ Fields(saved)
      BY <2>2 DEF Kept, Rowed
    <3>2. QED BY <2>1, <2>2, <3>1, WritesKeep, CaptureSame, KeptTwice, SameTwice
  <2>4. UNCHANGED server \/ Become(saved) \/ Become(Capture(saved, FALSE))
    BY <1>4 DEF SaveUpsert
  <2> HIDE DEF saved
  <2>5. QED BY <1>0, <2>1, <2>2, <2>3, <2>4, BecomesSame, RowsUntouched DEF server
<1>5. ASSUME NEW t, HandleSetToken(t) PROVE Sound(World)' /\ Stays
  <2>1. dev' = dev \/ dev' = [dev EXCEPT !.sealed = t, !.escrowed = TRUE]
    BY <1>5 DEF HandleSetToken
  <2>2. dev'.id = dev.id /\ DevFields \subseteq DOMAIN dev'
    BY <1>0, <2>1 DEF DevFields
  <2>3. QED BY <1>5, <2>2, RowsUntouched DEF HandleSetToken
<1>6. CASE HandleCheckOut
  <2> DEFINE failed == Fail(World, Certs, "failed")
             out == [failed EXCEPT !.dev.state = "unenrolled", !.dev.sealed = None,
                                   !.dev.escrowed = FALSE]
  <2>1. Kept(World, failed) /\ SameIdentity(World, failed)
    BY <1>0, FailKeeps, FailSame
  <2>2. SameIdentity(failed, out) /\ out.row = failed.row /\ out.snapshot = failed.snapshot
    <3> HIDE DEF failed
    <3>1. QED BY <2>1 DEF SameIdentity, Fields, DevFields
  <2>3. Kept(World, out) /\ SameIdentity(World, out)
    <3> HIDE DEF out, failed
    <3>1. Kept(failed, out)
      BY <2>1, <2>2, SameRowsKept DEF Kept, SameIdentity
    <3>2. QED BY <2>1, <2>2, <3>1, KeptTwice, SameTwice
  <2>4. UNCHANGED server \/ Become(out)
    BY <1>6 DEF HandleCheckOut
  <2> HIDE DEF out
  <2>5. QED BY <1>0, <2>3, <2>4, BecomesSame, RowsUntouched DEF server
<1>7. ASSUME NEW c \in Certs, NEW F \in Faults, HandleAcknowledged(c, F)
      PROVE  Sound(World)' /\ Stays
  <2> DEFINE done == [World EXCEPT !.row[c].task = "done"]
             ends == Answerable(c)
  <2>1. CASE ends
    <3>1. row[c].task # "none"
      BY <2>1 DEF Answerable
    <3>2. SameIdentity(World, done) /\ Kept(World, done)
      <4>1. SameIdentity(World, done)
        BY <1>0 DEF SameIdentity, Fields, DevFields
      <4>2. done.row = [World.row EXCEPT ![c].task = "done"] /\ done.snapshot = World.snapshot
        BY <1>0 DEF Fields
      <4> HIDE DEF done
      <4>3. /\ DOMAIN done.row = Certs
            /\ \A b \in Certs : /\ RowFields \subseteq DOMAIN done.row[b]
                                /\ done.row[b].kind = World.row[b].kind
                                /\ done.row[b].bound = World.row[b].bound
                                /\ done.row[b].holds = World.row[b].holds
                                /\ b # c => done.row[b].task = World.row[b].task
        BY <1>0, <4>2 DEF Rowed, RowFields
      <4>4. QED BY <3>1, <4>1, <4>2, <4>3 DEF Kept, Rowed, SameIdentity, World
    <3>3. Kept(World, Finish(done, c, F)) /\ SameIdentity(World, Finish(done, c, F))
      <4> HIDE DEF done
      <4>1. Rowed(done) /\ Fields(done)
        BY <3>2 DEF Kept, Rowed
      <4>2. QED BY <3>2, <4>1, FinishKeeps, FinishSame, KeptTwice, SameTwice
    <3>4. Become(done) \/ Become(Finish(done, c, F))
      BY <1>7, <2>1 DEF HandleAcknowledged
    <3> HIDE DEF done
    <3>5. QED BY <3>2, <3>3, <3>4, BecomesSame
  <2>2. CASE ~ends
    <3>1. Become(World)
      BY <1>7, <2>2 DEF HandleAcknowledged
    <3>2. QED BY <1>0, <3>1, RowsUntouched DEF Become, World
  <2>3. QED BY <2>1, <2>2
<1>8. ASSUME NEW c \in Certs, NEW F \in Faults, HandleError(c, F)
      PROVE  Sound(World)' /\ Stays
  <2> DEFINE failed == [World EXCEPT !.row[c].task = "failed"]
  <2>1. CASE Answerable(c)
    <3>1. row[c].task # "none" /\ row[c].kind = "renewal"
      BY <2>1 DEF Answerable, Sound, World
    <3>2. /\ SameIdentity(World, failed) /\ Kept(World, failed)
      <4>1. SameIdentity(World, failed)
        BY <1>0 DEF SameIdentity, Fields, DevFields
      <4>2. failed.row = [World.row EXCEPT ![c].task = "failed"]
            /\ failed.snapshot = World.snapshot
        BY <1>0 DEF Fields
      <4> HIDE DEF failed
      <4>3. /\ DOMAIN failed.row = Certs
            /\ \A b \in Certs : /\ RowFields \subseteq DOMAIN failed.row[b]
                                /\ failed.row[b].kind = World.row[b].kind
                                /\ failed.row[b].bound = World.row[b].bound
                                /\ failed.row[b].holds = World.row[b].holds
                                /\ b # c => failed.row[b].task = World.row[b].task
        BY <1>0, <4>2 DEF Rowed, RowFields
      <4>4. QED BY <3>1, <4>1, <4>2, <4>3 DEF Kept, Rowed, SameIdentity, World
    <3>3. Become(RollBack(failed, c, F))
      BY <1>8, <2>1 DEF HandleError
    <3> HIDE DEF failed
    <3>4. /\ Sound(failed) /\ failed.row[c].kind = "renewal" /\ failed.dev.id = dev.id
          /\ \A b \in Certs : RolledBack(failed, b) <=> RolledBack(World, b)
      BY <3>1, <3>2, KeptIsSound DEF Kept, SameIdentity, RolledBack, World
    <3>5. /\ Sound(World)'
          /\ \/ dev'.id = dev.id \/ dev'.id = None
             \/ \E d \in Certs : dev'.id = d /\ ~RolledBack(World, d)
      BY <3>3, <3>4, RollBackSound, BecomesSound
    <3>6. QED BY <3>5, CertsAssumption DEF Stays, None
  <2>2. CASE ~Answerable(c)
    <3>1. Become(World)
      BY <1>8, <2>2 DEF HandleError
    <3>2. QED BY <1>0, <3>1, RowsUntouched DEF Become, World
  <2>3. QED BY <2>1, <2>2
<1>9. QED BY <1>1, <1>2, <1>3, <1>4, <1>5, <1>6, <1>7, <1>8 DEF Handle

LEMMA MinuteStays == ASSUME Sound(World), Minute PROVE Sound(World)' /\ Stays
<1>0. Fields(World) /\ Rowed(World) /\ DevFields \subseteq DOMAIN dev
  BY DEF Sound, Rowed, Fields, World
<1>1. ASSUME NEW F \in Faults, Reconcile(F) PROVE Sound(World)' /\ Stays
  <2>1. CASE Stands(World, nano.id) /\ Become(Accept(World, nano.id, "none", F))
    <3>1. Sound(World)' /\ dev'.id = nano.id
      BY <2>1, AcceptSound, BecomesSound
    <3>2. QED BY <2>1, <3>1, AcceptedStands DEF Stays
  <2>2. CASE Become(Refuse(World, nano.id, F))
    BY <1>0, <2>2, RefuseKeeps, RefuseSame, BecomesSame
  <2>3. QED BY <1>1, <2>1, <2>2 DEF Reconcile
<1>2. CASE RetryRefusalRestore
  BY <1>0, <1>2, RowsUntouched DEF RetryRefusalRestore
<1>3. CASE RetryBootstrapRestore
  BY <1>0, <1>3, WritesKeep, WriteTokenSame, BecomesSame DEF RetryBootstrapRestore
<1>4. CASE CaptureToken
  BY <1>0, <1>4, WritesKeep, CaptureSame, BecomesSame DEF CaptureToken
<1>5. QED BY <1>1, <1>2, <1>3, <1>4 DEF Minute

LEMMA IssueStays == ASSUME Sound(World), Issue PROVE Sound(World)' /\ Stays
<1>0. Fields(World) /\ Rowed(World) /\ DevFields \subseteq DOMAIN dev
  BY DEF Sound, Rowed, Fields, World
<1>1. ASSUME NEW c \in Certs, Renew(c) PROVE Sound(World)' /\ Stays
  <2> DEFINE w == CopyKept(World)
             r == [FreeRow EXCEPT !.kind = "renewal", !.live = TRUE, !.task = "open",
                                  !.pem = nano.id]
  <2>1. Kept(World, w) /\ SameIdentity(World, w) /\ Sound(w)
    BY <1>0, WritesKeep, CopyKeptSame, KeptIsSound
  <2>2. /\ RowFields \subseteq DOMAIN r /\ r.kind = "renewal" /\ r.bound = 0
        /\ w.row[c].kind = "free"
    BY <1>1, <2>1 DEF Renew, NextCert, FreeRow, RowFields, Kept, World
  <2>3. Become(WithRow(w, c, r))
    BY <1>1 DEF Renew, WithRow
  <2> HIDE DEF w, r
  <2>4. Sound(WithRow(w, c, r))
    BY <2>1, <2>2, NewRow
  <2>5. WithRow(w, c, r).dev.id = dev.id
    BY <2>1 DEF WithRow, SameIdentity, Fields, World
  <2>6. QED BY <2>3, <2>4, <2>5, BecomesSound DEF Stays
<1>2. ASSUME NEW c \in Certs, NEW how, EndTask(c, how) PROVE Sound(World)' /\ Stays
  BY <1>0, <1>2, FailKeeps, FailSame, BecomesSame DEF EndTask
<1>3. CASE Allow
  <2>1. dev'.id = dev.id /\ DevFields \subseteq DOMAIN dev'
    BY <1>0, <1>3 DEF Allow, DevFields
  <2>2. QED BY <1>3, <2>1, RowsUntouched DEF Allow
<1>4. CASE AgeAssociations \/ RefusalLapses
  BY <1>0, <1>4, RowsUntouched DEF AgeAssociations, RefusalLapses
<1>5. QED BY <1>1, <1>2, <1>3, <1>4 DEF Issue

LEMMA OutsideStays == ASSUME Sound(World), Outside PROVE Sound(World)' /\ Stays
<1>0. /\ Fields(World) /\ Rowed(World) /\ DevFields \subseteq DOMAIN dev
      /\ DOMAIN row = Certs /\ \A c \in Certs : RowFields \subseteq DOMAIN row[c]
  BY DEF Sound, Rowed, Fields, World
<1>1. ASSUME NEW c \in Certs, MacRenews(c) PROVE Sound(World)' /\ Stays
  <2>1. /\ row' = [row EXCEPT ![c].used = TRUE] /\ snapshot' = snapshot /\ dev' = dev
    BY <1>1 DEF MacRenews
  <2>2. /\ DOMAIN row' = Certs
        /\ \A b \in Certs : /\ RowFields \subseteq DOMAIN row'[b]
                            /\ row'[b].kind = row[b].kind /\ row'[b].bound = row[b].bound
                            /\ row'[b].holds = row[b].holds /\ row'[b].task = row[b].task
    BY <1>0, <2>1 DEF RowFields
  <2>3. Fields(World') /\ World'.row = row' /\ World'.snapshot = snapshot
    BY <1>0, <2>1 DEF World, Fields
  <2>4. Kept(World, World')
    BY <2>2, <2>3 DEF Kept, Rowed, World
  <2>5. Sound(World')
    BY <2>4, KeptIsSound
  <2>6. QED BY <2>1, <2>5 DEF Stays
<1>2. ASSUME NEW c \in Certs, NEW kind, NEW erased, MacEnrolls(c, kind, erased)
      PROVE  Sound(World)' /\ Stays
  <2> DEFINE r == [FreeRow EXCEPT !.kind = kind, !.used = TRUE]
  <2>1. RowFields \subseteq DOMAIN r /\ r.task = "none" /\ r.bound = 0
    BY DEF FreeRow, RowFields
  <2>2. row' = [row EXCEPT ![c] = r] /\ snapshot' = snapshot /\ row[c].kind = "free"
    BY <1>2 DEF MacEnrolls, NextCert
  <2>3. dev'.id = dev.id /\ DevFields \subseteq DOMAIN dev'
    BY <1>0, <1>2 DEF MacEnrolls, DevFields
  <2> HIDE DEF r
  <2>4. QED BY <2>1, <2>2, <2>3, NewRowOfWorld
<1>3. ASSUME NEW c \in Certs, OtherAuthenticates(c) PROVE Sound(World)' /\ Stays
  <2> DEFINE r == [row[c] EXCEPT !.kind = "stray"]
  <2>1. /\ row' = [row EXCEPT ![c] = r] /\ snapshot' = snapshot /\ row[c].kind = "free"
        /\ dev' = dev
    BY <1>3 DEF OtherAuthenticates, NextCert
  <2>2. /\ RowFields \subseteq DOMAIN r /\ r.task = row[c].task
        /\ r.bound = row[c].bound /\ r.holds = row[c].holds
    BY <1>0 DEF RowFields
  <2>3. row[c].task = "none"
    BY <2>1 DEF Sound, World
  <2> HIDE DEF r
  <2>4. QED BY <1>0, <2>1, <2>2, <2>3, NewRowOfWorld
<1>4. ASSUME \/ \E c \in Certs : MacFails(c) \/ MacAcknowledges(c) \/ OtherSetsToken(c)
             \/ MacAuthenticates \/ MacConfirms \/ MacTokenUpdate \/ MacSetsToken
             \/ MacChecksOut \/ LoseWebhook
      PROVE  row' = row /\ snapshot' = snapshot /\ dev' = dev
  BY <1>4 DEF MacFails, MacAcknowledges, OtherSetsToken, MacAuthenticates, MacConfirms,
              MacTokenUpdate, MacSetsToken, MacChecksOut, LoseWebhook, server
<1>5. QED BY <1>0, <1>1, <1>2, <1>3, <1>4, RowsUntouched DEF Outside

LEMMA InitSound == Init => Sound(World)
<1> SUFFICES ASSUME Init PROVE Sound(World)
  OBVIOUS
<1>1. PICK kind \in FirstKinds, known \in BOOLEAN, t \in {None, MaxTokens} :
         /\ row = [c \in Certs |-> IF c # 1 THEN FreeRow
                                   ELSE [FreeRow EXCEPT !.kind = kind, !.used = kind # "legacy",
                                           !.bound = IF kind = "legacy" THEN 0 ELSE 1,
                                           !.holds = kind # "legacy"]]
         /\ dev = [state |-> "enrolled", id |-> IF known THEN 1 ELSE None,
                   pem |-> IF known THEN 1 ELSE None, sealed |-> None,
                   escrowed |-> t # None, erased |-> FALSE, allowance |-> FALSE]
         /\ snapshot = IF kind = "legacy" THEN {1} ELSE {}
  BY DEF Init
<1>2. /\ DOMAIN row = Certs
      /\ \A c \in Certs : /\ RowFields \subseteq DOMAIN row[c] /\ row[c].bound \in 0..1
                          /\ row[c].bound > 0 => row[c].holds
                          /\ row[c].task = "none"
      /\ row[1].kind = kind
  <2> DEFINE first == [FreeRow EXCEPT !.kind = kind, !.used = kind # "legacy",
                                      !.bound = IF kind = "legacy" THEN 0 ELSE 1,
                                      !.holds = kind # "legacy"]
  <2>1. row = [c \in Certs |-> IF c # 1 THEN FreeRow ELSE first]
    BY <1>1
  <2>2. /\ RowFields \subseteq DOMAIN first /\ first.kind = kind /\ first.task = "none"
        /\ kind = "legacy" => first.bound = 0
        /\ kind # "legacy" => first.bound = 1 /\ first.holds
    BY DEF FreeRow, RowFields
  <2>3. RowFields \subseteq DOMAIN FreeRow /\ FreeRow.bound = 0 /\ FreeRow.task = "none"
    BY DEF FreeRow, RowFields
  <2> HIDE DEF first
  <2>4. first.bound \in 0..1 /\ (first.bound > 0 => first.holds)
    <3>1. CASE kind = "legacy"
      BY <2>2, <3>1
    <3>2. CASE kind # "legacy"
      BY <2>2, <3>2
    <3>3. QED BY <3>1, <3>2
  <2>5. ASSUME NEW c \in Certs
        PROVE  /\ RowFields \subseteq DOMAIN row[c] /\ row[c].bound \in 0..1
               /\ row[c].bound > 0 => row[c].holds
               /\ row[c].task = "none"
    <3>1. CASE c = 1
      BY <2>1, <2>2, <2>4, <3>1
    <3>2. CASE c # 1
      BY <2>1, <2>3, <3>2
    <3>3. QED BY <3>1, <3>2
  <2>6. DOMAIN row = Certs /\ row[1].kind = kind
    BY <2>1, <2>2, CertsAssumption
  <2>7. QED BY <2>5, <2>6
<1>3. Fields(World)
  BY <1>1 DEF World, Fields, DevFields
<1>4. World.row = row /\ World.snapshot = snapshot
  BY DEF World
<1>5. Rowed(World)
  BY <1>2, <1>3, <1>4 DEF Rowed
<1>6. Ranked(World)
  <2>1. 1 \in Nat /\ \A c \in Certs : World.row[c].bound \in 0..1
    BY <1>2, <1>4
  <2>2. QED BY <2>1 DEF Ranked
<1>7. \A c \in Certs : ~RolledBack(World, c) /\ World.row[c].task = "none"
  BY <1>2, <1>4 DEF RolledBack
<1>8. World.snapshot \subseteq {c \in Certs : World.row[c].kind = "legacy"}
  BY <1>1, <1>2, <1>4, CertsAssumption
<1>9. QED BY <1>5, <1>6, <1>7, <1>8 DEF Sound

LEMMA StepStays == ASSUME Sound(World), [Next]_vars PROVE Sound(World)' /\ Stays
<1>1. CASE Next
  BY <1>1, HandleStays, MinuteStays, IssueStays, OutsideStays DEF Next
<1>2. CASE UNCHANGED vars
  <2>1. World' = World /\ dev' = dev
    BY <1>2 DEF vars, World
  <2>2. Sound(World') /\ Stays
    BY <2>1 DEF Stays
  <2>3. QED BY <2>2
<1>3. QED BY <1>1, <1>2

(* A certificate whose renewal was rolled back never becomes the device's   *)
(* again, whatever NanoMDM still records, whichever webhook comes late and  *)
(* whatever is rolled back or accepted afterwards (identity.py judge,       *)
(* apply_acceptance; identity_renewal.py fail_renewal).                     *)
THEOREM RolledBackForGood == Spec => RolledBackStays
<1>1. Init => Sound(World)
  BY InitSound
<1>2. Sound(World) /\ [Next]_vars => Sound(World)'
  BY StepStays
<1>3. Sound(World) /\ [Next]_vars
      => [\A c \in Certs : row[c].bound > 0 /\ ~row[c].holds /\ dev.id # c => dev'.id # c]_vars
  BY StepStays DEF Stays, RolledBack, World
<1>4. QED BY <1>1, <1>2, <1>3, PTL DEF Spec, RolledBackStays

LEMMA AsideShaped == ASSUME NEW w, NEW v, Shaped(w), Aside(w, v) PROVE Shaped(v)
<1>1. Kept(w, v)
  BY SameRowsKept DEF Shaped, Sound, Aside
<1>2. QED BY <1>1, KeptIsSound DEF Shaped, Aside

LEMMA TokensAside ==
  ASSUME NEW w, Fields(w), Nanoed(w), NEW F, NEW flag
  PROVE  /\ Aside(w, w) /\ Aside(w, WriteToken(w)) /\ Aside(w, RestoreToken(w, F))
         /\ Aside(w, Capture(w, flag)) /\ Aside(w, CopyKept(w))
<1>1. Aside(w, w)
  BY DEF Aside
<1>2. Aside(w, WriteToken(w))
  BY DEF Aside, WriteToken, Fields, DevFields, Nanoed, NanoFields
<1>3. Aside(w, [w EXCEPT !.dev.escrowed = FALSE])
  BY DEF Aside, Fields, DevFields, Nanoed, NanoFields
<1>4. Aside(w, RestoreToken(w, F))
  BY <1>1, <1>2, <1>3 DEF RestoreToken
<1>5. Aside(w, [w EXCEPT !.dev.sealed = w.nano.token, !.dev.escrowed = TRUE])
  BY DEF Aside, Fields, DevFields, Nanoed, NanoFields
<1>6. Aside(w, Capture(w, flag))
  BY <1>1, <1>5 DEF Capture
<1>7. Aside(w, [w EXCEPT !.dev.sealed = w.nano.token])
  BY DEF Aside, Fields, DevFields, Nanoed, NanoFields
<1>8. QED BY <1>1, <1>2, <1>3, <1>4, <1>6, <1>7 DEF CopyKept

LEMMA PruneDoes ==
  ASSUME NEW w, Fields(w), Nanoed(w), NEW keep, NEW F
  PROVE  LET v == Prune(w, keep, F)
         IN  Fields(v) /\ Nanoed(v) /\ Rest(w, v) /\ Loses(w, v, keep)
<1> DEFINE assoc == [c \in Certs |-> IF c \in Assoc(w) \ keep THEN "no" ELSE w.nano.assoc[c]]
           v == [w EXCEPT !.nano.assoc = assoc]
<1>1. Prune(w, keep, F) \in {w, v}
  BY DEF Prune
<1>2. DOMAIN assoc = Certs
  OBVIOUS
<1>3. /\ v.nano = [w.nano EXCEPT !.assoc = assoc] /\ Fields(v)
      /\ v.row = w.row /\ v.snapshot = w.snapshot /\ v.dev = w.dev /\ v.alarm = w.alarm
  <2> HIDE DEF assoc
  <2>1. QED BY DEF Fields
<1>4. v.nano.assoc = assoc /\ Nanoed(v) /\ Rest(w, v)
  <2> HIDE DEF assoc, v
  <2>1. QED BY <1>2, <1>3 DEF Nanoed, NanoFields, Rest
<1>5. Loses(w, v, keep)
  <2> HIDE DEF v
  <2>1. QED BY <1>4 DEF Loses
<1>6. Loses(w, w, keep) /\ Rest(w, w)
  BY DEF Loses, Rest
<1> HIDE DEF v
<1>7. QED BY <1>1, <1>3, <1>4, <1>5, <1>6

LEMMA ParkDoes ==
  ASSUME NEW w, Fields(w), Nanoed(w), NEW S, NEW F
  PROVE  LET v == Park(w, S, F)
         IN  /\ Fields(v) /\ Nanoed(v) /\ Rest(w, v)
             /\ \A b \in Certs : \/ v.nano.assoc[b] = w.nano.assoc[b]
                                 \/ v.nano.assoc[b] = "parked" /\ b \in S
<1> DEFINE assoc == [c \in Certs |-> IF c \in S THEN "parked" ELSE w.nano.assoc[c]]
           v == [w EXCEPT !.nano.assoc = assoc]
<1>1. Park(w, S, F) \in {w, v}
  BY DEF Park
<1>2. DOMAIN assoc = Certs
  OBVIOUS
<1>3. /\ v.nano = [w.nano EXCEPT !.assoc = assoc] /\ Fields(v)
      /\ v.row = w.row /\ v.snapshot = w.snapshot /\ v.dev = w.dev /\ v.alarm = w.alarm
  <2> HIDE DEF assoc
  <2>1. QED BY DEF Fields
<1>4. v.nano.assoc = assoc /\ Nanoed(v) /\ Rest(w, v)
  <2> HIDE DEF assoc, v
  <2>1. QED BY <1>2, <1>3 DEF Nanoed, NanoFields, Rest
<1>5. Rest(w, w)
  BY DEF Rest
<1> HIDE DEF v
<1>6. QED BY <1>1, <1>3, <1>4, <1>5

LEMMA RankAbove ==
  ASSUME NEW w, Ranked(w)
  PROVE  /\ BindRank(w) \in Nat /\ BindRank(w) > 0
         /\ \A b \in Certs : w.row[b].bound \in Nat /\ w.row[b].bound < BindRank(w)
<1>1. PICK n \in Nat : \A b \in Certs : w.row[b].bound \in 0..n
  BY DEF Ranked
<1> DEFINE A == {w.row[b].bound : b \in Certs}
<1>2. A \in SUBSET (0..n) /\ (\A b \in Certs : w.row[b].bound \in A) /\ A # {}
  BY <1>1, CertsAssumption
<1>3. Max(A) \in A /\ \A b \in A : b <= Max(A)
  <2> HIDE DEF A
  <2>1. PICK m \in A : \A b \in A : b <= m
    BY <1>2, Largest
  <2>2. \A b \in A : m >= b
    BY <1>2, <2>1
  <2>3. Max(A) \in A /\ \A b \in A : Max(A) >= b
    BY <2>2 DEF Max
  <2>4. QED BY <1>2, <2>3
<1>4. BindRank(w) = 1 + Max(A)
  BY DEF BindRank
<1> HIDE DEF A
<1>5. PICK m \in A : m = Max(A)
  BY <1>3
<1>6. m \in Nat /\ BindRank(w) = 1 + m
  BY <1>2, <1>4, <1>5
<1>7. ASSUME NEW b \in Certs PROVE w.row[b].bound \in Nat /\ w.row[b].bound <= m
  <2>1. w.row[b].bound \in A /\ w.row[b].bound \in 0..n
    BY <1>1, <1>2
  <2>2. QED BY <1>3, <1>5, <2>1
<1>8. QED BY <1>6, <1>7

LEMMA BindRowDoes ==
  ASSUME NEW w, Shaped(w), NEW c \in Certs
  PROVE  LET v == BindRow(w, c)
         IN  /\ Shaped(v) /\ v.dev = w.dev /\ v.nano = w.nano
             /\ \A b \in Certs \ {c} : SameRow(w, v, b)
             /\ v.row[c].kind = w.row[c].kind /\ v.row[c].used = w.row[c].used
             /\ v.row[c].live = w.row[c].live /\ v.row[c].task = w.row[c].task
             /\ ~Fresh(w, c) => SameRow(w, v, c) /\ v.snapshot = w.snapshot
             /\ Fresh(w, c) =>
                  /\ v.row[c].holds
                  /\ v.row[c].bound = IF w.row[c].bound = 0 THEN BindRank(w) ELSE w.row[c].bound
                  /\ v.snapshot = IF w.row[c].kind = "renewal" THEN w.snapshot ELSE {}
<1>1. CASE ~Fresh(w, c)
  BY <1>1 DEF BindRow, SameRow
<1>2. CASE Fresh(w, c)
  <2> DEFINE rank == IF w.row[c].bound = 0 THEN BindRank(w) ELSE w.row[c].bound
             pem == IF w.row[c].kind = "renewal" /\ w.dev.pem # None THEN w.dev.pem
                    ELSE w.row[c].pem
             snap == IF w.row[c].kind = "renewal" THEN w.snapshot ELSE {}
             v == [w EXCEPT !.row[c].bound = rank, !.row[c].holds = TRUE,
                            !.row[c].pem = pem, !.snapshot = snap]
  <2>1. BindRow(w, c) = v
    BY <1>2 DEF BindRow
  <2>2. Shaped(w) /\ Rowed(w) /\ Fields(w)
    BY DEF Shaped, Sound, Rowed
  <2>3. /\ v.dev = w.dev /\ v.nano = w.nano /\ v.snapshot = snap
        /\ \A b \in Certs \ {c} : v.row[b] = w.row[b]
        /\ v.row[c] = [w.row[c] EXCEPT !.bound = rank, !.holds = TRUE, !.pem = pem]
    <3> HIDE DEF rank, pem, snap
    <3>1. QED BY <2>2 DEF Rowed, Fields, RowFields
  <2>4. /\ v.row[c].kind = w.row[c].kind /\ v.row[c].used = w.row[c].used
        /\ v.row[c].live = w.row[c].live /\ v.row[c].task = w.row[c].task
        /\ v.row[c].holds /\ v.row[c].bound = rank
    <3> HIDE DEF rank, pem, v
    <3>1. QED BY <2>2, <2>3 DEF Rowed, RowFields
  <2>5. \A b \in Certs \ {c} : SameRow(w, v, b)
    <3> HIDE DEF v
    <3>1. QED BY <2>3 DEF SameRow
  <2>6. Sound(v)
    BY <2>1, BindRowSound DEF Shaped
  <2>7. Shaped(v)
    <3> HIDE DEF v
    <3>1. QED BY <2>3, <2>6 DEF Shaped, Nanoed
  <2> HIDE DEF v
  <2>8. QED BY <1>2, <2>1, <2>3, <2>4, <2>5, <2>7
<1>3. QED BY <1>1, <1>2

LEMMA FailDoes ==
  ASSUME NEW w, Shaped(w), NEW S
  PROVE  LET v == Fail(w, S, "failed")
         IN  /\ Shaped(v) /\ v.dev = w.dev /\ v.nano = w.nano /\ v.snapshot = w.snapshot
             /\ Failed(w, v, S)
<1> DEFINE rows == [c \in Certs |-> IF c \in S /\ Open(w, c)
                                    THEN [w.row[c] EXCEPT !.task = "failed", !.live = FALSE]
                                    ELSE w.row[c]]
           v == Fail(w, S, "failed")
<1>0. Rowed(w) /\ Fields(w)
  BY DEF Shaped, Sound, Rowed
<1>1. v.row = rows /\ v.dev = w.dev /\ v.nano = w.nano /\ v.snapshot = w.snapshot
  BY <1>0 DEF Fail, Fields
<1>2. Shaped(v)
  <2>1. Kept(w, v)
    BY <1>0, FailKeeps
  <2>2. Sound(v)
    BY <2>1, KeptIsSound DEF Shaped
  <2> HIDE DEF v
  <2>3. QED BY <1>1, <2>2 DEF Shaped, Nanoed
<1>3. ASSUME NEW b \in Certs
      PROVE  /\ rows[b].kind = w.row[b].kind /\ rows[b].used = w.row[b].used
             /\ rows[b].bound = w.row[b].bound /\ rows[b].holds = w.row[b].holds
             /\ IF b \in S /\ Open(w, b) THEN rows[b].task = "failed" /\ rows[b].live = FALSE
                ELSE rows[b].task = w.row[b].task /\ rows[b].live = w.row[b].live
  BY <1>0 DEF Rowed, RowFields
<1>4. Failed(w, v, S)
  <2> HIDE DEF rows, v
  <2>1. QED BY <1>1, <1>3 DEF Failed
<1> HIDE DEF rows, v
<1>5. QED BY <1>1, <1>2, <1>4 DEF v

LEMMA SameAllowed ==
  ASSUME NEW w, NEW v, v.row = w.row, v.snapshot = w.snapshot, v.dev.id = w.dev.id
  PROVE  Allowed(v) = Allowed(w)
<1>1. \A S : Newest(v, S) = Newest(w, S)
  BY DEF Newest
<1>2. Bound(v) = Bound(w) /\ Unacknowledged(v) = Unacknowledged(w)
  BY DEF Bound, Unacknowledged, Renewals
<1>3. \A c : BoundBefore(v, c) = BoundBefore(w, c)
  BY <1>1, <1>2 DEF BoundBefore
<1>4. PreviousOfOpen(v) = PreviousOfOpen(w)
  BY <1>1, <1>2, <1>3 DEF PreviousOfOpen
<1>5. QED BY <1>4 DEF Allowed

----------------------------------------------------------------------------
(* The webhooks on their way.                                               *)
LEMMA MsgsDiffer ==
  /\ \A topic, n : Msg(topic, n).topic = topic /\ Msg(topic, n).n = n
  /\ \A topic \in Topics : \A n \in Nat : Msg(topic, n) \in Msgs
  /\ \A a, b : Answers(a) \cap Answers(b) # {} => a = b
  /\ \A topic, n, b : Msg(topic, n) \in Answers(b)
                      => topic \in {"Acknowledged", "Error"} /\ n = b
  /\ \A topic, n : Msg(topic, n) = Out => topic = "CheckOut"
  /\ \A a : Msg("Acknowledged", a) # Msg("Error", a)
<1>1. \A topic, n : Msg(topic, n).topic = topic /\ Msg(topic, n).n = n
  BY DEF Msg
<1>2. \A topic \in Topics : \A n \in Nat : Msg(topic, n) \in Msgs
  BY DEF Msg, Msgs
<1>3. \A topic, n, b : Msg(topic, n) \in Answers(b)
                        => topic \in {"Acknowledged", "Error"} /\ n = b
  BY <1>1 DEF Answers
<1>4. \A a, b : Answers(a) \cap Answers(b) # {} => a = b
  BY <1>1 DEF Answers
<1>5. QED BY <1>1, <1>2, <1>3, <1>4 DEF Out

(* The first webhook is taken.                                              *)
LEMMA TailIs ==
  ASSUME NEW q \in Seq(Msgs), Len(q) > 0
  PROVE  LET r == RemoveAt(q, 1)
         IN  /\ r \in Seq(Msgs) /\ Len(r) = Len(q) - 1
             /\ \A i \in 1 .. Len(r) : r[i] = q[i + 1]
<1>1. q # <<>>
  OBVIOUS
<1>2. SubSeq(q, 2, Len(q)) = Tail(q)
  BY <1>1, TailIsSubSeq
<1>3. RemoveAt(q, 1) = SubSeq(q, 1, 0) \o Tail(q)
  BY <1>2 DEF RemoveAt
<1>4. SubSeq(q, 1, 0) = <<>>
  BY SubSeqEmpty
<1>5. /\ Tail(q) \in Seq(Msgs) /\ Len(Tail(q)) = Len(q) - 1
      /\ \A i \in 1 .. Len(Tail(q)) : Tail(q)[i] = q[i + 1]
  BY <1>1
<1>6. RemoveAt(q, 1) = Tail(q)
  BY <1>3, <1>4, <1>5
<1>7. QED BY <1>5, <1>6

LEMMA TakenFirst ==
  ASSUME NEW q \in Seq(Msgs), Len(q) > 0
  PROVE  LET r == RemoveAt(q, 1)
         IN  /\ r \in Seq(Msgs) /\ \A x : OnTheWay(r, x) => OnTheWay(q, x)
             /\ OnTheWay(q, q[1])
             /\ \A c : Once(q, c) => Once(r, c)
             /\ \A c : Ahead(q, c) => q[1] \notin Answers(c) \cup {Out}
             /\ \A c : Ahead(q, c) /\ q[1].topic \notin CheckIns => Ahead(r, c)
             /\ \A c : Once(q, c) /\ q[1] \in Answers(c)
                       => \A x \in Answers(c) : ~OnTheWay(r, x)
<1> DEFINE r == RemoveAt(q, 1)
<1>1. r \in Seq(Msgs) /\ Len(r) = Len(q) - 1 /\ \A i \in 1 .. Len(r) : r[i] = q[i + 1]
  BY TailIs
<1> HIDE DEF r
<1>2. ASSUME NEW x, OnTheWay(r, x) PROVE OnTheWay(q, x)
  BY <1>1, <1>2 DEF OnTheWay
<1>3. OnTheWay(q, q[1])
  BY DEF OnTheWay
<1>4. ASSUME NEW c, Once(q, c) PROVE Once(r, c)
  <2> SUFFICES ASSUME NEW i \in 1 .. Len(r), NEW j \in 1 .. Len(r), r[i] \in Answers(c),
                      r[j] \in Answers(c)
               PROVE  i = j
    BY DEF Once
  <2>1. i + 1 \in 1 .. Len(q) /\ j + 1 \in 1 .. Len(q) /\ q[i + 1] = r[i] /\ q[j + 1] = r[j]
    BY <1>1
  <2>2. i + 1 = j + 1
    BY <1>4, <2>1 DEF Once
  <2>3. QED BY <2>2
<1>5. ASSUME NEW c, Ahead(q, c) PROVE q[1] \notin Answers(c) \cup {Out}
  <2>1. PICK i \in 1 .. Len(q) : \A j \in 1 .. i : q[j] \notin Answers(c) \cup {Out}
    BY <1>5 DEF Ahead
  <2>2. 1 \in 1 .. i
    OBVIOUS
  <2>3. QED BY <2>1, <2>2
<1>6. ASSUME NEW c, Ahead(q, c), q[1].topic \notin CheckIns PROVE Ahead(r, c)
  <2>1. PICK i \in 1 .. Len(q) : /\ q[i].topic \in CheckIns
                                 /\ \A j \in 1 .. i : q[j] \notin Answers(c) \cup {Out}
    BY <1>6 DEF Ahead
  <2>2. i # 1
    BY <1>6, <2>1
  <2>3. /\ i - 1 \in 1 .. Len(r) /\ r[i - 1] = q[i]
        /\ \A j \in 1 .. (i - 1) : j + 1 \in 1 .. i /\ r[j] = q[j + 1]
    BY <1>1, <2>2
  <2>4. QED BY <2>1, <2>3 DEF Ahead
<1>7. ASSUME NEW c, Once(q, c), q[1] \in Answers(c), NEW x \in Answers(c), OnTheWay(r, x)
      PROVE  FALSE
  <2>1. PICK i \in 1 .. Len(r) : r[i] = x
    BY <1>7 DEF OnTheWay
  <2>2. i + 1 \in 1 .. Len(q) /\ q[i + 1] = x /\ 1 \in 1 .. Len(q)
    BY <1>1, <2>1
  <2>3. i + 1 = 1
    BY <1>7, <2>2 DEF Once
  <2>4. QED BY <2>3
<1>8. QED BY <1>1, <1>2, <1>3, <1>4, <1>5, <1>6, <1>7 DEF r

(* One more is sent.                                                        *)
LEMMA Sent ==
  ASSUME NEW q \in Seq(Msgs), NEW x \in Msgs
  PROVE  LET r == Append(q, x)
         IN  /\ r \in Seq(Msgs) /\ \A y : OnTheWay(r, y) <=> OnTheWay(q, y) \/ y = x
             /\ \A c : Ahead(q, c) => Ahead(r, c)
             /\ \A c : /\ x.topic \in CheckIns /\ ~OnTheWay(q, Out)
                       /\ \A y \in Answers(c) : ~OnTheWay(q, y)
                       => Ahead(r, c)
             /\ \A c : /\ Once(q, c)
                       /\ x \in Answers(c) => \A y \in Answers(c) : ~OnTheWay(q, y)
                       => Once(r, c)
<1> DEFINE r == Append(q, x)
<1>1. /\ r \in Seq(Msgs) /\ Len(r) = Len(q) + 1 /\ r[Len(q) + 1] = x
      /\ \A i \in 1 .. Len(q) : r[i] = q[i]
      /\ Len(q) \in Nat
  OBVIOUS
<1> HIDE DEF r
<1>2. ASSUME NEW y PROVE OnTheWay(r, y) <=> OnTheWay(q, y) \/ y = x
  BY <1>1 DEF OnTheWay
<1>3. ASSUME NEW c, Ahead(q, c) PROVE Ahead(r, c)
  <2>1. PICK i \in 1 .. Len(q) : /\ q[i].topic \in CheckIns
                                 /\ \A j \in 1 .. i : q[j] \notin Answers(c) \cup {Out}
    BY <1>3 DEF Ahead
  <2>2. i \in 1 .. Len(r) /\ r[i] = q[i] /\ \A j \in 1 .. i : r[j] = q[j]
    BY <1>1
  <2>3. QED BY <2>1, <2>2 DEF Ahead
<1>4. ASSUME NEW c, x.topic \in CheckIns, ~OnTheWay(q, Out),
             \A y \in Answers(c) : ~OnTheWay(q, y)
      PROVE  Ahead(r, c)
  <2>1. x \notin Answers(c) \cup {Out}
    BY <1>4 DEF Answers, Out, Msg, CheckIns
  <2>2. \A j \in 1 .. Len(q) : q[j] \notin Answers(c) \cup {Out}
    BY <1>4 DEF OnTheWay
  <2>3. /\ Len(q) + 1 \in 1 .. Len(r)
        /\ \A j \in 1 .. (Len(q) + 1) : r[j] = x \/ (j \in 1 .. Len(q) /\ r[j] = q[j])
    BY <1>1
  <2>4. QED BY <1>1, <1>4, <2>1, <2>2, <2>3 DEF Ahead
<1>5. ASSUME NEW c, Once(q, c), x \in Answers(c) => \A y \in Answers(c) : ~OnTheWay(q, y)
      PROVE  Once(r, c)
  <2> SUFFICES ASSUME NEW i \in 1 .. Len(r), NEW j \in 1 .. Len(r), r[i] \in Answers(c),
                      r[j] \in Answers(c)
               PROVE  i = j
    BY DEF Once
  <2>1. CASE i \in 1 .. Len(q) /\ j \in 1 .. Len(q)
    BY <1>1, <1>5, <2>1 DEF Once
  <2>2. CASE i = Len(q) + 1 \/ j = Len(q) + 1
    BY <1>1, <1>5, <2>2 DEF OnTheWay
  <2>3. QED BY <1>1, <2>1, <2>2
<1>6. QED BY <1>1, <1>2, <1>3, <1>4, <1>5 DEF r

----------------------------------------------------------------------------
(* Ranks, tasks and who precedes whom.                                      *)
LEMMA BoundsAre == ASSUME NEW w, Sound(w) PROVE \A c \in Certs : w.row[c].bound \in Nat
BY DEF Sound, Ranked

(* The same rows, seen from the allowed set and the judge.                  *)
LEMMA SameView ==
  ASSUME NEW w, NEW v, \A b \in Certs : SameRow(w, v, b), v.snapshot = w.snapshot
  PROVE  /\ Bound(v) = Bound(w)
         /\ \A c \in Certs : /\ Open(v, c) <=> Open(w, c)
                             /\ Fresh(v, c) <=> Fresh(w, c)
                             /\ Stands(v, c) <=> Stands(w, c)
                             /\ Accepted(v, c) <=> Accepted(w, c)
                             /\ \A p : Precedes(v, p, c) <=> Precedes(w, p, c)
<1>1. Bound(v) = Bound(w)
  BY DEF Bound, SameRow
<1>2. \A c \in Certs : /\ Open(v, c) <=> Open(w, c)
                       /\ Fresh(v, c) <=> Fresh(w, c)
                       /\ Stands(v, c) <=> Stands(w, c)
                       /\ Accepted(v, c) <=> Accepted(w, c)
  BY <1>1 DEF SameRow, Open, Fresh, AlreadyBound, Stands, Accepted
<1>3. \A c \in Certs : \A p : Precedes(v, p, c) <=> Precedes(w, p, c)
  BY <1>1 DEF SameRow, Precedes, Bound
<1>4. QED BY <1>1, <1>2, <1>3

LEMMA AlikeKeeps ==
  ASSUME NEW w, NEW v, NEW m, NEW q, LInv(w, m, q), Alike(w, v) PROVE LInv(v, m, q)
<1>0. /\ Rows(w) /\ Identified(w) /\ Recorded(w)
      /\ Asked(w, m, q) /\ Awaits(w, m, q) /\ Keeps(w, m)
  BY DEF LInv
<1>1. /\ Bound(v) = Bound(w)
      /\ \A c \in Certs : /\ Open(v, c) <=> Open(w, c)
                          /\ Fresh(v, c) <=> Fresh(w, c)
                          /\ Stands(v, c) <=> Stands(w, c)
                          /\ Accepted(v, c) <=> Accepted(w, c)
                          /\ \A p : Precedes(v, p, c) <=> Precedes(w, p, c)
  BY SameView DEF Alike
<1>2. Assoc(v) = Assoc(w) /\ 1 \in Certs
  BY CertsAssumption DEF Alike, Assoc
<1>3. Rows(v)
  <2>1. Ranks(v)
    BY <1>0 DEF Rows, Ranks, Alike, SameRow
  <2>2. OneOpen(v) /\ (~Enrolled(v) => \A c \in Certs : ~Open(v, c))
    BY <1>0, <1>1 DEF Rows, OneOpen, Alike, Enrolled
  <2>3. Tasks(v)
    BY <1>0, <1>1 DEF Rows, Tasks, Alike, SameRow
  <2>4. QED BY <1>0, <2>1, <2>2, <2>3 DEF Rows, Alike
<1>4. Identified(v)
  <2>1. \A c \in Certs : Latest(v, c) <=> Latest(w, c)
    BY <1>1 DEF Latest, Alike, SameRow, Bound
  <2>2. QED BY <1>0, <1>1, <1>2, <2>1 DEF Identified, Alike
<1>5. Recorded(v) /\ (Renewed(v) <=> Renewed(w)) /\ (Pending(v) <=> Pending(w))
      /\ (v.nano.id \in Certs)
  BY <1>0, <1>1 DEF Recorded, Alike, SameRow, Renewed, Pending
<1>6. Asked(v, m, q)
  <2>1. Shape(m, q)
    BY <1>0 DEF Asked
  <2>2. Tries(v, m) /\ Uses(v, m)
    BY <1>0, <1>1 DEF Asked, Shape, Tries, Uses, Alike, SameRow
  <2>3. Answered(v, m, q)
    BY <1>0, <1>1 DEF Asked, Shape, Answered, Alike, SameRow
  <2>4. QED BY <2>1, <2>2, <2>3 DEF Asked
<1>7. Awaits(v, m, q)
  <2>1. \A c \in Certs : Expected(v, m, q, c) <=> Expected(w, m, q, c)
    BY <1>1 DEF Expected
  <2>2. QED BY <1>0, <1>1, <1>2, <1>5, <2>1 DEF Awaits, Alike, SameRow, Recorded
<1>8. Keeps(v, m)
  <2>1. Managed(v, m) <=> Managed(w, m)
    BY <1>0, <1>1 DEF Managed, Asked, Shape
  <2>2. Safe(v, m) <=> Safe(w, m)
    BY <1>0, <1>1 DEF Safe, Alike, Identified
  <2>3. QED BY <1>0, <1>2, <1>5, <2>1, <2>2 DEF Keeps, Managed, Asked, Shape, Alike, SameRow
<1>9. QED BY <1>3, <1>4, <1>5, <1>6, <1>7, <1>8 DEF LInv

(* A webhook is taken that no renewal waited for; a webhook is sent.        *)
LEMMA TakeKeeps ==
  ASSUME NEW w, NEW m, NEW q, LInv(w, m, q), Len(q) > 0,
         Renewed(w) => q[1].topic \notin CheckIns
  PROVE  LInv(w, m, RemoveAt(q, 1))
<1> DEFINE r == RemoveAt(q, 1)
<1>1. Shape(m, q) /\ Asked(w, m, q) /\ Awaits(w, m, q) /\ Recorded(w)
  BY DEF LInv, Asked
<1>2. /\ r \in Seq(Msgs) /\ \A x : OnTheWay(r, x) => OnTheWay(q, x)
      /\ \A c : Once(q, c) => Once(r, c)
      /\ \A c : Ahead(q, c) /\ q[1].topic \notin CheckIns => Ahead(r, c)
  BY <1>1, TakenFirst DEF Shape
<1> HIDE DEF r
<1>3. Asked(w, m, r)
  <2>1. Shape(m, r)
    BY <1>1, <1>2 DEF Shape
  <2>2. Answered(w, m, r)
    BY <1>1, <1>2 DEF Asked, Answered
  <2>3. QED BY <1>1, <2>1, <2>2 DEF Asked
<1>4. \A c \in Certs : Expected(w, m, r, c) => Expected(w, m, q, c)
  BY <1>2 DEF Expected
<1>5. Awaits(w, m, r)
  BY <1>1, <1>2, <1>4 DEF Awaits
<1>6. QED BY <1>3, <1>5 DEF LInv, r

LEMMA SendKeeps ==
  ASSUME NEW w, NEW m, NEW q, LInv(w, m, q), NEW x \in Msgs,
         x.topic \in CheckIns \cup {"SetToken"}
  PROVE  LInv(w, m, Append(q, x))
<1> DEFINE r == Append(q, x)
<1>1. Shape(m, q) /\ Asked(w, m, q) /\ Awaits(w, m, q) /\ Recorded(w)
  BY DEF LInv, Asked
<1>2. \A c : x \notin Answers(c) /\ x # Out
  BY DEF Answers, Out, Msg, CheckIns
<1>3. /\ r \in Seq(Msgs) /\ \A y : OnTheWay(r, y) <=> OnTheWay(q, y) \/ y = x
      /\ \A c : Once(q, c) => Once(r, c)
      /\ \A c : Ahead(q, c) => Ahead(r, c)
  BY <1>1, <1>2, Sent DEF Shape
<1>4. \A c : \A y \in Answers(c) \cup {Out} : OnTheWay(r, y) <=> OnTheWay(q, y)
  BY <1>2, <1>3
<1> HIDE DEF r
<1>5. Asked(w, m, r)
  <2>1. Shape(m, r)
    BY <1>1, <1>3 DEF Shape
  <2>2. Answered(w, m, r)
    BY <1>1, <1>3, <1>4 DEF Asked, Answered, Answers
  <2>3. QED BY <1>1, <2>1, <2>2 DEF Asked
<1>6. \A c \in Certs : Expected(w, m, r, c) <=> Expected(w, m, q, c)
  BY <1>4 DEF Expected
<1>7. Awaits(w, m, r)
  BY <1>1, <1>3, <1>6 DEF Awaits
<1>8. QED BY <1>5, <1>7 DEF LInv, r

(* The device's own certificate stands, bound, or of the cutover.           *)
LEMMA IdentityIs ==
  ASSUME NEW w, Rows(w), Identified(w), w.dev.id # None
  PROVE  /\ w.dev.id \in Certs /\ ~Fresh(w, w.dev.id) /\ w.row[w.dev.id].kind # "free"
         /\ w.row[w.dev.id].kind = "renewal"
            => w.row[w.dev.id].used /\ w.row[w.dev.id].bound > 0
         /\ Accepted(w, w.dev.id)
<1>1. w.dev.id \in Certs
      /\ (Latest(w, w.dev.id) \/ w.row[w.dev.id].kind = "legacy")
  BY DEF Identified, Rows, Shaped, Sound
<1>2. CASE w.row[w.dev.id].kind = "legacy"
  BY <1>1, <1>2 DEF Fresh, Accepted
<1>3. CASE Latest(w, w.dev.id)
  <2>1. w.dev.id \in Bound(w) /\ w.row[w.dev.id].bound > 0
    BY <1>3 DEF Latest, Bound
  <2>2. w.row[w.dev.id].kind # "free"
    BY <1>1, <2>1, BoundsAre DEF Rows, Tasks, Shaped
  <2>3. QED BY <1>1, <2>1, <2>2 DEF Fresh, AlreadyBound, Accepted, Rows, Tasks
<1>4. QED BY <1>1, <1>2, <1>3

(* NanoMDM is told the device's own certificate again.                      *)
LEMMA OwnKeeps ==
  ASSUME NEW w, NEW v, NEW m, NEW q, LInv(w, m, q), w.dev.id # None,
         Shaped(v), v.row = w.row, v.snapshot = w.snapshot, v.dev.id = w.dev.id,
         v.dev.pem = w.dev.pem, v.dev.state = w.dev.state,
         v.nano.assoc = w.nano.assoc, v.nano.id = w.dev.id
  PROVE  LInv(v, m, q)
<1>0. /\ Rows(w) /\ Identified(w) /\ Recorded(w)
      /\ Asked(w, m, q) /\ Awaits(w, m, q) /\ Keeps(w, m)
  BY DEF LInv
<1>1. /\ Bound(v) = Bound(w) /\ Assoc(v) = Assoc(w)
      /\ \A c \in Certs : /\ Open(v, c) <=> Open(w, c)
                          /\ Fresh(v, c) <=> Fresh(w, c)
                          /\ Stands(v, c) <=> Stands(w, c)
                          /\ Accepted(v, c) <=> Accepted(w, c)
                          /\ \A p : Precedes(v, p, c) <=> Precedes(w, p, c)
  BY SameView DEF SameRow, Assoc
<1>2. /\ w.dev.id \in Certs /\ ~Fresh(w, w.dev.id) /\ w.row[w.dev.id].kind # "free"
      /\ w.row[w.dev.id].kind = "renewal"
         => w.row[w.dev.id].used /\ w.row[w.dev.id].bound > 0
  BY <1>0, IdentityIs
<1>3. Rows(v) /\ Identified(v)
  BY <1>0, <1>1 DEF Rows, Ranks, OneOpen, Tasks, Enrolled, Identified, Latest, Open
<1>4. Recorded(v) /\ ~Renewed(v) /\ ~Pending(v)
  BY <1>1, <1>2 DEF Recorded, Renewed, Pending
<1>5. Asked(v, m, q)
  BY <1>0, <1>1 DEF Asked, Shape, Tries, Uses, Answered, Open
<1>6. Awaits(v, m, q)
  BY <1>0, <1>1, <1>4 DEF Awaits, Expected
<1>7. Keeps(v, m)
  <2>1. Safe(v, m) <=> Safe(w, m)
    BY <1>0, <1>1, <1>2 DEF Safe
  <2>2. QED BY <1>0, <1>1, <1>4, <2>1 DEF Keeps, Managed, Accepted
<1>8. QED BY <1>3, <1>4, <1>5, <1>6, <1>7 DEF LInv

(* Everything allowed: the identity, the snapshot, and what a renewal came  *)
(* after.                                                                   *)
LEMMA PrecedesIs ==
  ASSUME NEW w, Rows(w), NEW c \in Certs, NEW p, Precedes(w, p, c), p \in Certs
  PROVE  BoundBefore(w, c) = IF p \in Bound(w) /\ w.row[p].bound < w.row[c].bound
                             THEN p ELSE None
<1> DEFINE S == {b \in Bound(w) : w.row[b].bound < w.row[c].bound}
<1>1. BoundBefore(w, c) = Newest(w, S) /\ S \subseteq Certs
  BY DEF BoundBefore, Bound
<1>2. CASE p \in Bound(w) /\ w.row[p].bound < w.row[c].bound
  <2>1. p \in S /\ \A b \in S : w.row[b].bound <= w.row[p].bound
    BY <1>2 DEF Precedes
  <2>2. ASSUME NEW d \in S, \A b \in S : w.row[b].bound <= w.row[d].bound PROVE d = p
    <3>1. w.row[d].bound <= w.row[p].bound /\ w.row[p].bound <= w.row[d].bound
      BY <2>1, <2>2
    <3>2. w.row[d].bound \in Nat /\ w.row[p].bound \in Nat /\ w.row[p].bound > 0 /\ d \in Certs
      BY <1>1, <1>2, BoundsAre DEF Rows, Shaped, Bound
    <3>3. QED BY <3>1, <3>2 DEF Rows, Ranks
  <2> HIDE DEF S
  <2>3. Newest(w, S) = p
    BY <2>1, <2>2 DEF Newest
  <2>4. QED BY <1>1, <1>2, <2>3
<1>3. CASE ~(p \in Bound(w) /\ w.row[p].bound < w.row[c].bound)
  <2>1. S = {}
    BY <1>3 DEF Precedes
  <2>2. QED BY <1>1, <1>3, <2>1 DEF Newest
<1>4. QED BY <1>2, <1>3

LEMMA SafeAllowed ==
  ASSUME NEW w, NEW m, Rows(w), Identified(w), m.using \in Certs, Safe(w, m)
  PROVE  m.using \in Allowed(w)
<1>0. m.using # None
  BY CertsAssumption DEF None
<1>1. CASE m.using = w.dev.id \/ m.using \in w.snapshot
  BY <1>0, <1>1 DEF Allowed
<1>2. CASE /\ w.dev.id # None /\ Open(w, w.dev.id) /\ Precedes(w, m.using, w.dev.id)
           /\ m.using \notin w.snapshot
  <2> DEFINE c == w.dev.id
             U == Unacknowledged(w)
  <2>1. /\ c \in Certs /\ m.using \in Bound(w) /\ w.row[m.using].bound < w.row[c].bound
        /\ w.row[c].kind = "renewal" /\ w.row[c].live
    BY <1>2, IdentityIs DEF Precedes, Rows, Shaped, Sound, Open, Tasks
  <2>2. Bound(w) # {} /\ Latest(w, c)
    BY <1>2, <2>1 DEF Identified
  <2>3. c \in U
    BY <1>2, <2>1, <2>2 DEF Unacknowledged, Renewals, Latest, Open
  <2>4. ASSUME NEW d \in U, \A b \in U : w.row[b].bound <= w.row[d].bound PROVE d = c
    <3>1. w.row[d].bound <= w.row[c].bound /\ w.row[c].bound <= w.row[d].bound
      BY <2>2, <2>3, <2>4 DEF Latest, Unacknowledged
    <3>2. w.row[d].bound \in Nat /\ w.row[c].bound \in Nat /\ w.row[c].bound > 0 /\ d \in Certs
      BY <2>1, <2>2, BoundsAre DEF Rows, Shaped, Bound, Latest, Unacknowledged
    <3>3. QED BY <2>1, <3>1, <3>2 DEF Rows, Ranks
  <2>5. \A b \in U : w.row[b].bound <= w.row[c].bound
    BY <2>2 DEF Latest, Unacknowledged
  <2>6. Newest(w, U) = c
    <3> HIDE DEF U, c
    <3>1. QED BY <2>3, <2>4, <2>5 DEF Newest
  <2>7. BoundBefore(w, c) = m.using
    BY <1>2, <2>1, PrecedesIs
  <2>8. PreviousOfOpen(w) = m.using
    BY <1>2, <2>6, <2>7 DEF PreviousOfOpen
  <2>9. QED BY <1>0, <2>8 DEF Allowed
<1>3. QED BY <1>1, <1>2 DEF Safe

(* A refusal parks what is not allowed, when no renewal is on its way.      *)
LEMMA ParkKeeps ==
  ASSUME NEW w, NEW v, NEW m, NEW q, LInv(w, m, q), ~Renewed(w),
         Shaped(v), v.row = w.row, v.snapshot = w.snapshot, v.dev = w.dev,
         v.nano.id = w.nano.id,
         \A b \in Certs : \/ v.nano.assoc[b] = w.nano.assoc[b]
                          \/ v.nano.assoc[b] = "parked" /\ b \notin Allowed(w)
  PROVE  LInv(v, m, q)
<1>0. /\ Rows(w) /\ Identified(w) /\ Recorded(w)
      /\ Asked(w, m, q) /\ Awaits(w, m, q) /\ Keeps(w, m)
  BY DEF LInv
<1>1. /\ Bound(v) = Bound(w) /\ Assoc(v) \subseteq Assoc(w)
      /\ \A c \in Certs : /\ Open(v, c) <=> Open(w, c)
                          /\ Fresh(v, c) <=> Fresh(w, c)
                          /\ Stands(v, c) <=> Stands(w, c)
                          /\ Accepted(v, c) <=> Accepted(w, c)
                          /\ \A p : Precedes(v, p, c) <=> Precedes(w, p, c)
      /\ \A b \in Certs : v.nano.assoc[b] = "no" => w.nano.assoc[b] = "no"
  BY SameView DEF SameRow, Assoc, Held
<1>2. 1 \in w.snapshot /\ 1 \in Assoc(w) => 1 \in Assoc(v)
  <2>1. 1 \in w.snapshot => 1 \in Allowed(w) /\ 1 \in Certs
    BY CertsAssumption DEF Allowed, None
  <2>2. QED BY <2>1 DEF Assoc
<1>3. Rows(v) /\ Identified(v)
  BY <1>0, <1>1, <1>2 DEF Rows, Ranks, OneOpen, Tasks, Enrolled, Identified, Latest, Open
<1>4. Recorded(v) /\ ~Renewed(v) /\ (Pending(v) <=> Pending(w))
  BY <1>0, <1>1 DEF Recorded, Renewed, Pending
<1>5. Asked(v, m, q)
  BY <1>0, <1>1 DEF Asked, Shape, Tries, Uses, Answered, Open
<1>6. Awaits(v, m, q)
  BY <1>0, <1>1, <1>4 DEF Awaits, Expected, Recorded
<1>7. Keeps(v, m)
  <2>1. Safe(v, m) <=> Safe(w, m)
    BY <1>0, <1>1 DEF Safe, Identified
  <2>2. QED BY <1>0, <1>1, <1>4, <2>1 DEF Keeps, Managed, Accepted, Asked, Shape
<1>8. QED BY <1>3, <1>4, <1>5, <1>6, <1>7 DEF LInv

(* Tasks fail whose answer is not expected; or the Mac is gone.             *)
LEMMA FailedView ==
  ASSUME NEW w, NEW v, NEW S, Failed(w, v, S), v.snapshot = w.snapshot
  PROVE  /\ Bound(v) = Bound(w)
         /\ \A c \in Certs : /\ Open(v, c) <=> Open(w, c) /\ c \notin S
                             /\ Fresh(v, c) <=> Fresh(w, c)
                             /\ Stands(v, c) <=> Stands(w, c)
                             /\ Accepted(v, c) <=> Accepted(w, c)
                             /\ \A p : Precedes(v, p, c) <=> Precedes(w, p, c)
<1>1. Bound(v) = Bound(w)
  BY DEF Bound, Failed
<1>2. \A c \in Certs : /\ Open(v, c) <=> Open(w, c) /\ c \notin S
                       /\ Fresh(v, c) <=> Fresh(w, c)
                       /\ Stands(v, c) <=> Stands(w, c)
                       /\ Accepted(v, c) <=> Accepted(w, c)
  BY <1>1 DEF Failed, Open, Fresh, AlreadyBound, Stands, Accepted
<1>3. \A c \in Certs : \A p : Precedes(v, p, c) <=> Precedes(w, p, c)
  BY <1>1 DEF Failed, Precedes, Bound
<1>4. QED BY <1>1, <1>2, <1>3

LEMMA FailedKeeps ==
  ASSUME NEW w, NEW v, NEW m, NEW q, NEW S, LInv(w, m, q), ~Renewed(w),
         Shaped(v), Failed(w, v, S), v.snapshot = w.snapshot,
         v.dev.id = w.dev.id, v.dev.pem = w.dev.pem, v.nano = w.nano,
         v.dev.state = w.dev.state \/ S = Certs,
         \A b \in Certs \cap S : Expected(w, m, q, b) => m.using = None /\ m.trying = None,
         m.using # None /\ w.dev.id \in Certs \cap S => ~Open(w, w.dev.id)
  PROVE  LInv(v, m, q)
<1>0. /\ Rows(w) /\ Identified(w) /\ Recorded(w)
      /\ Asked(w, m, q) /\ Awaits(w, m, q) /\ Keeps(w, m)
  BY DEF LInv
<1>1. /\ Bound(v) = Bound(w) /\ Assoc(v) = Assoc(w)
      /\ \A c \in Certs : /\ Open(v, c) <=> Open(w, c) /\ c \notin S
                          /\ Fresh(v, c) <=> Fresh(w, c)
                          /\ Stands(v, c) <=> Stands(w, c)
                          /\ Accepted(v, c) <=> Accepted(w, c)
                          /\ \A p : Precedes(v, p, c) <=> Precedes(w, p, c)
  BY FailedView DEF Assoc
<1>3. Rows(v)
  <2>1. Ranks(v) /\ OneOpen(v) /\ (~Enrolled(v) => \A c \in Certs : ~Open(v, c))
    BY <1>0, <1>1 DEF Rows, Ranks, OneOpen, Failed, Enrolled
  <2>2. Tasks(v)
    BY <1>0, <1>1 DEF Rows, Tasks, Failed, Open
  <2>3. QED BY <1>0, <2>1, <2>2 DEF Rows
<1>4. Identified(v)
  <2>1. \A c \in Certs : Latest(v, c) <=> Latest(w, c)
    BY <1>1 DEF Latest, Failed, Bound
  <2>2. QED BY <1>0, <1>1, <2>1 DEF Identified
<1>5. Recorded(v) /\ ~Renewed(v) /\ (Pending(v) <=> Pending(w))
  BY <1>0, <1>1 DEF Recorded, Renewed, Pending, Failed
<1>6. \A c \in Certs : Expected(v, m, q, c) => Expected(w, m, q, c)
  BY <1>1 DEF Expected
<1>7. Asked(v, m, q)
  <2>1. Shape(m, q)
    BY <1>0 DEF Asked
  <2>2. ASSUME NEW c \in Certs, Open(w, c),
               c \notin m.answered \/ \E x \in Answers(c) : OnTheWay(q, x),
               m.using # None \/ m.trying # None
        PROVE  Open(v, c)
    BY <1>1, <2>2 DEF Expected
  <2>3. Tries(v, m)
    BY <1>0, <2>1, <2>2 DEF Asked, Shape, Tries, Failed
  <2>4. Uses(v, m)
    BY <1>0, <2>1, <2>2 DEF Asked, Shape, Uses, Failed
  <2>5. Answered(v, m, q)
    <3>1. \A c \in Certs : Msg("Acknowledged", c) \in Answers(c)
      BY DEF Answers
    <3>2. None \notin Certs
      BY CertsAssumption DEF None
    <3>3. QED BY <1>0, <2>1, <2>2, <3>1, <3>2 DEF Asked, Shape, Answered, Failed
  <2>6. QED BY <2>1, <2>3, <2>4, <2>5 DEF Asked
<1>8. Awaits(v, m, q)
  BY <1>0, <1>1, <1>5, <1>6 DEF Awaits, Failed, Recorded
<1>9. Keeps(v, m)
  <2>1. Managed(v, m) <=> Managed(w, m)
    BY <1>0, <1>1 DEF Managed, Asked, Shape
  <2>2. m.using # None /\ Safe(w, m) => Safe(v, m)
    BY <1>0, <1>1 DEF Safe, Identified
  <2>3. QED BY <1>0, <1>1, <1>5, <2>1, <2>2 DEF Keeps, Managed, Recorded, Failed
<1>10. QED BY <1>3, <1>4, <1>5, <1>7, <1>8, <1>9 DEF LInv

----------------------------------------------------------------------------
(* What was bound before is older.                                          *)
LEMMA FreshBinds ==
  ASSUME NEW w, NEW v, NEW c \in Certs, Rows(w), Stands(w, c), Fresh(w, c), Accepts(w, v, c)
  PROVE  /\ w.row[c].bound = 0 /\ v.row[c].bound = BindRank(w) /\ v.row[c].bound > 0
         /\ \A b \in Certs : w.row[b].bound \in Nat /\ w.row[b].bound < v.row[c].bound
         /\ v.row[c].bound \in Nat
         /\ Bound(v) = Bound(w) \cup {c} /\ c \notin Bound(w)
         /\ Latest(v, c)
<1>1. c \notin Bound(w) /\ w.row[c].kind # "legacy"
  BY DEF Fresh, AlreadyBound
<1>2. w.row[c].bound \in Nat
  BY BoundsAre DEF Rows, Shaped
<1>3. w.row[c].bound = 0
  <2>1. w.row[c].bound > 0 /\ ~w.row[c].holds => w.row[c].kind = "renewal"
    BY DEF Rows, Shaped, Sound, RolledBack
  <2>2. QED BY <1>1, <1>2, <2>1 DEF Stands, Bound
<1>4. /\ BindRank(w) \in Nat /\ BindRank(w) > 0
      /\ \A b \in Certs : w.row[b].bound \in Nat /\ w.row[b].bound < BindRank(w)
  BY RankAbove DEF Rows, Shaped, Sound
<1>5. v.row[c].bound = BindRank(w) /\ v.row[c].holds
  BY <1>3 DEF Accepts
<1>6. Bound(v) = Bound(w) \cup {c}
  BY <1>4, <1>5 DEF Bound, Accepts, SameRow
<1>7. \A b \in Certs \ {c} : v.row[b].bound = w.row[b].bound
  BY DEF Accepts, SameRow
<1>8. Latest(v, c)
  <2>1. ASSUME NEW b \in Bound(v) PROVE v.row[b].bound <= v.row[c].bound
    <3>1. b \in Certs
      BY <2>1 DEF Bound
    <3>2. CASE b = c
      BY <1>4, <1>5, <3>2
    <3>3. CASE b # c
      BY <1>4, <1>5, <1>7, <3>1, <3>3
    <3>4. QED BY <3>2, <3>3
  <2>2. QED BY <1>6, <2>1 DEF Latest
<1>9. QED BY <1>1, <1>3, <1>4, <1>5, <1>6, <1>8

(* An acceptance of what was accepted before.                               *)
LEMMA AcceptedAgain ==
  ASSUME NEW w, NEW v, NEW m, NEW q, LInv(w, m, q), Shaped(v), Stands(w, w.nano.id),
         ~Fresh(w, w.nano.id), Accepts(w, v, w.nano.id)
  PROVE  LInv(v, m, q)
<1> DEFINE c == w.nano.id
<1>0. /\ Rows(w) /\ Identified(w) /\ Recorded(w) /\ c \in Certs
      /\ Asked(w, m, q) /\ Awaits(w, m, q) /\ Keeps(w, m)
  BY DEF LInv, Recorded
<1>1. /\ v.snapshot = w.snapshot /\ v.dev.id = c /\ v.dev.pem = c
      /\ v.dev.state = w.dev.state /\ v.nano.id = c
      /\ \A b \in Certs : SameRow(w, v, b)
  BY DEF Accepts
<1>2. /\ Bound(v) = Bound(w)
      /\ \A d \in Certs : /\ Open(v, d) <=> Open(w, d)
                          /\ Fresh(v, d) <=> Fresh(w, d)
                          /\ Stands(v, d) <=> Stands(w, d)
                          /\ Accepted(v, d) <=> Accepted(w, d)
                          /\ \A p : Precedes(v, p, d) <=> Precedes(w, p, d)
  BY <1>1, SameView
<1>3. w.dev.id = c \/ (w.dev.id = None /\ c \in w.snapshot /\ w.snapshot = {1})
  <2>1. w.dev.id \in {None, c}
    BY <1>0 DEF Recorded
  <2>2. CASE w.dev.id = None
    <3>1. Bound(w) = {} /\ w.snapshot = {1}
      BY <1>0, <2>2, CertsAssumption DEF Identified, None
    <3>2. w.row[c].kind = "legacy"
      BY <3>1 DEF Fresh, AlreadyBound
    <3>3. QED BY <2>2, <3>1, <3>2 DEF Stands
  <2>3. QED BY <2>1, <2>2
<1>4. Rows(v)
  <2>1. Ranks(v) /\ OneOpen(v) /\ (~Enrolled(v) => \A d \in Certs : ~Open(v, d))
    BY <1>0, <1>1, <1>2 DEF Rows, Ranks, OneOpen, SameRow, Enrolled
  <2>2. Tasks(v)
    BY <1>0, <1>1, <1>2 DEF Rows, Tasks, SameRow
  <2>3. QED BY <1>0, <1>1, <2>1, <2>2 DEF Rows
<1>5. Identified(v)
  <2>1. \A d \in Certs : Latest(v, d) <=> Latest(w, d)
    BY <1>1, <1>2 DEF Latest, SameRow, Bound
  <2>2. None \notin Certs
    BY CertsAssumption DEF None
  <2>3. QED BY <1>0, <1>1, <1>2, <1>3, <2>1, <2>2 DEF Identified
<1>6. Recorded(v) /\ ~Pending(v) /\ ~Renewed(v)
  <2>1. ~Renewed(v)
    BY <1>0, <1>1 DEF Renewed, Fresh, AlreadyBound, Bound, SameRow
  <2>2. QED BY <1>0, <1>1, <1>2, <2>1 DEF Recorded, SameRow, Pending
<1>7. Asked(v, m, q)
  <2>1. Shape(m, q)
    BY <1>0 DEF Asked
  <2>2. Tries(v, m) /\ Uses(v, m)
    BY <1>0, <1>1, <1>2 DEF Asked, Shape, Tries, Uses, SameRow
  <2>3. Answered(v, m, q)
    BY <1>0, <1>1, <1>2 DEF Asked, Shape, Answered, SameRow
  <2>4. QED BY <2>1, <2>2, <2>3 DEF Asked
<1>8. Awaits(v, m, q)
  <2>1. \A d \in Certs : Expected(v, m, q, d) <=> Expected(w, m, q, d)
    BY <1>2 DEF Expected
  <2>2. \A d \in Certs : w.row[d].bound > 0 /\ Open(w, d) => w.dev.id # None
    <3>1. \A d \in Certs : w.row[d].bound > 0 /\ Open(w, d) => d \in Bound(w)
      BY <1>0 DEF Rows, Tasks, Bound
    <3>2. QED BY <1>0, <3>1, CertsAssumption DEF Identified, None
  <2>3. QED BY <1>0, <1>1, <1>3, <1>6, <2>1, <2>2 DEF Awaits, SameRow, Expected
<1>9. Keeps(v, m)
  <2>1. Managed(v, m) <=> Managed(w, m)
    BY <1>0, <1>2 DEF Managed, Asked, Shape
  <2>2. Assoc(v) \subseteq Assoc(w)
    BY DEF Accepts, Loses, Assoc, Held
  <2>3. Managed(w, m) /\ Safe(w, m) => Safe(v, m)
    <3>1. c # None
      BY <1>0, CertsAssumption DEF None
    <3>2. CASE w.dev.id = c
      BY <1>0, <1>1, <1>2, <3>1, <3>2 DEF Safe
    <3>3. CASE w.dev.id = None /\ c \in w.snapshot /\ w.snapshot = {1}
      BY <1>1, <3>3 DEF Safe, Managed
    <3>4. QED BY <1>3, <3>2, <3>3
  <2>4. Managed(w, m) /\ Safe(w, m) => m.using \in Allowed(v) \ {None}
    <3>1. m.using \in Certs \/ m.using = None
      BY <1>0 DEF Asked, Shape
    <3>2. QED BY <1>4, <1>5, <2>3, <3>1, SafeAllowed DEF Managed
  <2>5. Managed(w, m) => v.nano.assoc[m.using] # "no"
    <3>1. Managed(w, m) => m.using \in Certs
      BY <1>0 DEF Asked, Shape, Managed
    <3>2. QED BY <1>0, <2>4, <3>1 DEF Keeps, Accepts, Loses
  <2>6. QED BY <1>0, <1>6, <2>1, <2>2, <2>3, <2>5 DEF Keeps
<1>10. QED BY <1>4, <1>5, <1>6, <1>7, <1>8, <1>9 DEF LInv

(* An acceptance of what was not accepted before: a renewal the Mac was     *)
(* asked for, next to the certificate it still uses; or a new enrollment.   *)
LEMMA AcceptedFresh ==
  ASSUME NEW w, NEW v, NEW m, NEW q, LInv(w, m, q), Shaped(v), Pending(w),
         Accepts(w, v, w.nano.id)
  PROVE  LInv(v, m, q)
<1> DEFINE c == w.nano.id
<1>0. /\ Rows(w) /\ Identified(w) /\ Recorded(w) /\ c \in Certs /\ c # None
      /\ Asked(w, m, q) /\ Awaits(w, m, q) /\ Keeps(w, m) /\ Stands(w, c) /\ Fresh(w, c)
  BY CertsAssumption DEF LInv, Recorded, Pending, None
<1>1. /\ v.dev.id = c /\ v.dev.pem = c /\ v.dev.state = w.dev.state /\ v.nano.id = c
      /\ v.row[c].holds /\ v.snapshot \in {w.snapshot, {}}
      /\ \A b \in Certs : /\ v.row[b].kind = w.row[b].kind /\ v.row[b].used = w.row[b].used
                          /\ v.row[b].live = w.row[b].live /\ v.row[b].task = w.row[b].task
      /\ \A b \in Certs \ {c} : /\ v.row[b].bound = w.row[b].bound
                                /\ v.row[b].holds = w.row[b].holds
  BY <1>0 DEF Accepts, SameRow
<1>2. /\ w.row[c].bound = 0 /\ v.row[c].bound > 0
      /\ \A b \in Certs : w.row[b].bound \in Nat /\ w.row[b].bound < v.row[c].bound
      /\ v.row[c].bound \in Nat
      /\ Bound(v) = Bound(w) \cup {c} /\ c \notin Bound(w)
      /\ Latest(v, c)
  BY <1>0, FreshBinds
<1>3. /\ \A b \in Certs : Open(v, b) <=> Open(w, b)
      /\ \A d \in Certs : Expected(v, m, q, d) <=> Expected(w, m, q, d)
      /\ \A d \in Certs : Expected(w, m, q, d) => d = c
  BY <1>0, <1>1 DEF Open, Expected, Awaits, Pending
<1>4. Rows(v)
  <2>1. ASSUME NEW b \in Certs, NEW d \in Certs, v.row[b].bound > 0,
               v.row[b].bound = v.row[d].bound
        PROVE  b = d
    BY <1>0, <1>1, <1>2, <2>1 DEF Rows, Ranks
  <2>2. OneOpen(v) /\ (~Enrolled(v) => \A d \in Certs : ~Open(v, d))
    BY <1>0, <1>1, <1>3 DEF Rows, OneOpen, Enrolled
  <2>3. ASSUME NEW d \in Certs
        PROVE  /\ Open(v, d) => v.row[d].live /\ (v.row[d].bound > 0 => v.row[d].holds)
               /\ v.row[d].live => v.row[d].task \in {"open", "done"}
               /\ v.row[d].task = "done" => v.row[d].used
               /\ v.row[d].task # "late"
               /\ v.row[d].kind = "renewal" /\ v.row[d].bound > 0 => v.row[d].used
               /\ v.row[d].kind = "free" => ~v.row[d].used /\ v.row[d].bound = 0
    <3>1. CASE d = c
      BY <1>0, <1>1, <1>3, <3>1 DEF Rows, Tasks, Recorded
    <3>2. CASE d # c
      BY <1>0, <1>1, <1>3, <3>2 DEF Rows, Tasks
    <3>3. QED BY <3>1, <3>2
  <2>4. QED BY <1>0, <1>1, <2>1, <2>2, <2>3 DEF Rows, Ranks, Tasks
<1>5. Identified(v)
  BY <1>0, <1>1, <1>2 DEF Identified
<1>6. ~Fresh(v, c) /\ ~Pending(v) /\ ~Renewed(v) /\ Recorded(v)
  BY <1>0, <1>1, <1>2 DEF Fresh, AlreadyBound, Pending, Renewed, Recorded
<1>7. Asked(v, m, q)
  <2>1. Shape(m, q)
    BY <1>0 DEF Asked
  <2>2. Tries(v, m) /\ Uses(v, m) /\ Answered(v, m, q)
    BY <1>0, <1>1, <1>3 DEF Asked, Shape, Tries, Uses, Answered
  <2>3. QED BY <2>1, <2>2 DEF Asked
<1>8. Awaits(v, m, q)
  BY <1>1, <1>3, <1>6 DEF Awaits
<1>9. Keeps(v, m)
  <2> SUFFICES ASSUME Managed(v, m)
               PROVE  /\ v.nano.assoc[m.using] # "no"
                      /\ m.using \in Assoc(v) => Safe(v, m)
    BY <1>6 DEF Keeps
  <2> DEFINE keep == (Allowed(v) \cup {c} \cup (IF w.row[c].kind = "renewal" THEN {w.dev.id}
                                                ELSE {})) \ {None}
  <2>1. m.using \in Certs /\ m.using # None
    BY <1>0 DEF Managed, Asked, Shape
  <2>2. \A b \in Certs : \/ v.nano.assoc[b] = w.nano.assoc[b]
                         \/ v.nano.assoc[b] = "no" /\ b \in Assoc(w) /\ b \notin keep
    BY DEF Accepts, Loses
  <2>3. CASE m.using = c
    <3>1. w.nano.assoc[c] # "no" /\ c \in keep
      BY <1>0 DEF Awaits, Pending
    <3>2. QED BY <1>0, <1>1, <2>2, <2>3, <3>1 DEF Safe
  <2>4. CASE m.using # c
    <3>1. Managed(w, m)
      BY <1>1, <2>1, <2>4 DEF Managed, Accepted
    <3>2. w.row[c].kind = "renewal" /\ w.nano.assoc[m.using] # "no"
      BY <1>0, <3>1 DEF Keeps, Pending
    <3>3. Renewed(w) /\ Open(w, c) /\ v.snapshot = w.snapshot
      BY <1>0, <1>2, <3>2 DEF Renewed, Awaits, Accepts
    <3>4. ASSUME m.using \in Assoc(w)
          PROVE  Precedes(v, m.using, c) /\ m.using \in {w.dev.id} \cup w.snapshot
      <4>1. Safe(w, m)
        BY <1>0, <3>1, <3>4 DEF Keeps
      <4>2. ~(w.dev.id # None /\ Open(w, w.dev.id))
        <5>1. w.dev.id # None => w.dev.id \in Certs /\ ~Fresh(w, w.dev.id)
          BY <1>0, IdentityIs
        <5>2. QED BY <1>0, <3>3, <5>1 DEF Rows, OneOpen
      <4>3. CASE m.using = w.dev.id /\ Latest(w, w.dev.id)
        <5>1. m.using \in Bound(v) /\ v.row[m.using].bound < v.row[c].bound
          BY <1>1, <1>2, <2>1, <2>4, <4>3 DEF Latest
        <5>2. ASSUME NEW b \in Bound(v), v.row[b].bound < v.row[c].bound
              PROVE  v.row[b].bound <= v.row[m.using].bound
          <6>1. b \in Bound(w) /\ b # c /\ b \in Certs
            BY <1>2, <5>2 DEF Bound
          <6>2. QED BY <1>1, <2>1, <2>4, <4>3, <6>1 DEF Latest
        <5>3. QED BY <4>3, <5>1, <5>2 DEF Precedes
      <4>4. CASE Bound(w) = {} /\ m.using \in w.snapshot
        <5>1. \A b \in Bound(v) : ~(v.row[b].bound < v.row[c].bound)
          BY <1>2, <4>4
        <5>2. QED BY <3>3, <4>4, <5>1 DEF Precedes
      <4>5. m.using = w.dev.id \/ (w.dev.id = None /\ m.using \in w.snapshot)
        BY <4>1, <4>2 DEF Safe
      <4>6. \/ m.using = w.dev.id /\ Latest(w, w.dev.id)
            \/ Bound(w) = {} /\ m.using \in w.snapshot
        BY <1>0, <2>1, <4>5, CertsAssumption DEF Identified, None
      <4>7. QED BY <4>3, <4>4, <4>5, <4>6
    <3>5. m.using \in Assoc(w) => m.using \in keep
      <4>1. w.snapshot \subseteq Allowed(v) \cup {None}
        BY <3>3 DEF Allowed
      <4>2. QED BY <2>1, <3>2, <3>4, <4>1
    <3>6. m.using \in Assoc(v) => m.using \in Assoc(w)
      BY <2>1, <2>2 DEF Assoc, Held
    <3>7. m.using \in Assoc(v) => Safe(v, m)
      BY <1>0, <1>1, <1>3, <3>3, <3>4, <3>6 DEF Safe
    <3>8. QED BY <2>1, <2>2, <3>2, <3>5, <3>7
  <2>5. QED BY <2>3, <2>4
<1>10. QED BY <1>4, <1>5, <1>6, <1>7, <1>8, <1>9 DEF LInv

LEMMA AcceptedKeeps ==
  ASSUME NEW w, NEW v, NEW m, NEW q, LInv(w, m, q), Shaped(v), Stands(w, w.nano.id),
         Accepts(w, v, w.nano.id)
  PROVE  LInv(v, m, q)
BY AcceptedAgain, AcceptedFresh DEF Pending

(* The renewal is done: only its certificate is left.                       *)
LEMMA FinishedKeeps ==
  ASSUME NEW w, NEW v, NEW m, NEW q, LInv(w, m, q), Shaped(v), ~Pending(w),
         w.dev.id \in Bound(w), ~Open(w, w.dev.id),
         \A b \in Certs : SameRow(w, v, b), v.snapshot = {},
         v.dev = w.dev, v.nano.id = w.nano.id, Loses(w, v, {w.dev.id})
  PROVE  LInv(v, m, q)
<1>0. /\ Rows(w) /\ Identified(w) /\ Recorded(w)
      /\ Asked(w, m, q) /\ Awaits(w, m, q) /\ Keeps(w, m)
      /\ w.dev.id \in Certs /\ w.dev.id # None /\ Latest(w, w.dev.id)
  BY CertsAssumption DEF LInv, Identified, Bound, None
<1>1. /\ Bound(v) = Bound(w)
      /\ \A c \in Certs : /\ Open(v, c) <=> Open(w, c)
                          /\ Fresh(v, c) <=> Fresh(w, c)
                          /\ Stands(v, c) => Stands(w, c)
                          /\ Accepted(v, c) <=> Accepted(w, c)
      /\ Assoc(v) \subseteq Assoc(w)
  BY DEF Bound, Open, Fresh, AlreadyBound, Stands, Accepted, SameRow, Loses, Assoc, Held
<1>2. Rows(v)
  <2>1. Ranks(v) /\ OneOpen(v) /\ (~Enrolled(v) => \A c \in Certs : ~Open(v, c))
    BY <1>0, <1>1 DEF Rows, Ranks, OneOpen, SameRow, Enrolled
  <2>2. Tasks(v)
    BY <1>0, <1>1 DEF Rows, Tasks, SameRow
  <2>3. QED BY <1>0, <2>1, <2>2 DEF Rows
<1>3. Identified(v)
  <2>1. Latest(v, w.dev.id)
    BY <1>0, <1>1 DEF Latest, SameRow, Bound
  <2>2. QED BY <1>0, <2>1 DEF Identified
<1>4. ~Pending(v) /\ ~Renewed(v) /\ Recorded(v)
  <2>1. ~Pending(v)
    BY <1>0, <1>1 DEF Pending, Recorded
  <2>2. ~Renewed(w)
    <3>1. Renewed(w) => Stands(w, w.nano.id) /\ Fresh(w, w.nano.id)
      BY <1>0 DEF Renewed, Recorded, Stands, Fresh, AlreadyBound, Bound
    <3>2. QED BY <3>1 DEF Pending
  <2>3. QED BY <1>0, <1>1, <2>1, <2>2 DEF Renewed, Recorded, SameRow
<1>5. Asked(v, m, q)
  BY <1>0, <1>1 DEF Asked, Shape, Tries, Uses, Answered, SameRow
<1>6. Awaits(v, m, q)
  <2>1. \A d \in Certs : Expected(v, m, q, d) <=> Expected(w, m, q, d)
    BY <1>1 DEF Expected
  <2>2. QED BY <1>0, <1>4, <2>1 DEF Awaits, SameRow
<1>7. Keeps(v, m)
  <2>1. Managed(v, m) => Managed(w, m) /\ m.using \in Certs
    BY <1>0, <1>1 DEF Managed, Asked, Shape
  <2>2. Managed(w, m) /\ m.using \in Assoc(w) => m.using = w.dev.id
    BY <1>0 DEF Keeps, Safe
  <2>3. Managed(w, m) => v.nano.assoc[m.using] # "no"
    BY <1>0, <2>1, <2>2 DEF Keeps, Loses, Asked, Shape, Managed
  <2>4. QED BY <1>1, <1>4, <2>1, <2>2, <2>3 DEF Keeps, Safe
<1>8. QED BY <1>2, <1>3, <1>4, <1>5, <1>6, <1>7 DEF LInv

(* The answer to a renewal is taken, and its task ends.                     *)
LEMMA EndedAsked ==
  ASSUME NEW w, NEW v, NEW m, NEW q, LInv(w, m, q), Len(q) > 0, NEW d \in Certs,
         q[1] \in Answers(d), Open(w, d), ~Open(v, d),
         \A b \in Certs : /\ v.row[b].kind = w.row[b].kind /\ v.row[b].used = w.row[b].used
                          /\ b # d => (Open(v, b) <=> Open(w, b))
  PROVE  LET r == RemoveAt(q, 1)
         IN  /\ Asked(v, m, r) /\ d \in m.answered /\ Expected(w, m, q, d)
             /\ \A c \in Certs : Expected(v, m, r, c) => Expected(w, m, q, c) /\ c # d
             /\ Renewed(w) => w.nano.id # d /\ Ahead(r, w.nano.id)
<1> DEFINE r == RemoveAt(q, 1)
<1>1. Shape(m, q) /\ Asked(w, m, q) /\ Awaits(w, m, q) /\ Answered(w, m, q) /\ Once(q, d)
  BY DEF LInv, Asked, Answered
<1>2. /\ r \in Seq(Msgs) /\ \A x : OnTheWay(r, x) => OnTheWay(q, x)
      /\ OnTheWay(q, q[1])
      /\ \A c : Once(q, c) => Once(r, c)
      /\ \A c : Ahead(q, c) => q[1] \notin Answers(c) \cup {Out}
      /\ \A c : Ahead(q, c) /\ q[1].topic \notin CheckIns => Ahead(r, c)
      /\ \A x \in Answers(d) : ~OnTheWay(r, x)
  BY <1>1, TakenFirst DEF Shape
<1> HIDE DEF r
<1>3. q[1] \in {Msg("Acknowledged", d), Msg("Error", d)} /\ q[1].topic \notin CheckIns
  BY DEF Answers, CheckIns, Msg
<1>4. d \in m.answered
  BY <1>1, <1>2, <1>3 DEF Answered
<1>5. Expected(w, m, q, d)
  BY <1>2 DEF Expected
<1>6. \A c \in Certs : Expected(v, m, r, c) => Expected(w, m, q, c) /\ c # d
  BY <1>2 DEF Expected
<1>7. Renewed(w) => w.nano.id # d /\ Ahead(r, w.nano.id)
  BY <1>1, <1>2, <1>3 DEF Awaits
<1>8. Asked(v, m, r)
  <2>1. Shape(m, r)
    BY <1>1, <1>2 DEF Shape
  <2>2. Tries(v, m) /\ Uses(v, m)
    BY <1>1, <1>4 DEF Asked, Shape, Tries, Uses
  <2>3. Answered(v, m, r)
    BY <1>1, <1>2 DEF Shape, Answered, Answers
  <2>4. QED BY <2>1, <2>2, <2>3 DEF Asked
<1>9. QED BY <1>4, <1>5, <1>6, <1>7, <1>8 DEF r

LEMMA EndedKeeps ==
  ASSUME NEW w, NEW v, NEW m, NEW q, LInv(w, m, q), Len(q) > 0, NEW d \in Certs,
         q[1] \in Answers(d), Open(w, d), Shaped(v), NEW how \in {"done", "failed"},
         how = "done" => w.row[d].used, Ended(w, v, d, how),
         Managed(w, m) /\ m.using \in Assoc(w) /\ w.dev.id = d
         => m.using = d \/ ~Precedes(w, m.using, d)
  PROVE  LInv(v, m, RemoveAt(q, 1))
<1> DEFINE r == RemoveAt(q, 1)
<1>0. /\ Rows(w) /\ Identified(w) /\ Recorded(w)
      /\ Asked(w, m, q) /\ Awaits(w, m, q) /\ Keeps(w, m)
  BY DEF LInv
<1>1. /\ Bound(v) = Bound(w) /\ Assoc(v) = Assoc(w) /\ ~Open(v, d)
      /\ \A c \in Certs : /\ c # d => (Open(v, c) <=> Open(w, c))
                          /\ v.row[c].kind = w.row[c].kind /\ v.row[c].used = w.row[c].used
                          /\ v.row[c].bound = w.row[c].bound
                          /\ Fresh(v, c) <=> Fresh(w, c)
                          /\ Stands(v, c) <=> Stands(w, c)
                          /\ Accepted(v, c) <=> Accepted(w, c)
                          /\ \A p : Precedes(v, p, c) <=> Precedes(w, p, c)
  <2>1. \A c \in Certs : /\ v.row[c].kind = w.row[c].kind /\ v.row[c].used = w.row[c].used
                         /\ v.row[c].bound = w.row[c].bound /\ v.row[c].holds = w.row[c].holds
                         /\ c # d => v.row[c].task = w.row[c].task
    BY DEF Ended, SameRow
  <2>2. Bound(v) = Bound(w) /\ v.snapshot = w.snapshot /\ v.nano = w.nano
    BY <2>1 DEF Bound, Ended
  <2>3. v.row[d].task # "open"
    BY DEF Ended
  <2>4. QED BY <2>1, <2>2, <2>3 DEF Open, Fresh, AlreadyBound, Stands, Accepted, Precedes,
                                     Bound, Assoc
<1>2. /\ Asked(v, m, r) /\ \A c \in Certs : Expected(v, m, r, c) => Expected(w, m, q, c)
      /\ Renewed(w) => w.nano.id # d /\ Ahead(r, w.nano.id)
  BY <1>1, EndedAsked
<1> HIDE DEF r
<1>3. Rows(v)
  <2>1. Ranks(v) /\ OneOpen(v) /\ (~Enrolled(v) => \A c \in Certs : ~Open(v, c))
    BY <1>0, <1>1 DEF Rows, Ranks, OneOpen, Enrolled, Ended
  <2>2. Tasks(v)
    <3>1. w.row[d].kind # "free"
      BY <1>0 DEF Rows, Shaped, Sound, Open
    <3>2. ASSUME NEW c \in Certs
          PROVE  /\ Open(v, c) => v.row[c].live /\ (v.row[c].bound > 0 => v.row[c].holds)
                 /\ v.row[c].live => v.row[c].task \in {"open", "done"}
                 /\ v.row[c].task = "done" => v.row[c].used
                 /\ v.row[c].task # "late"
                 /\ v.row[c].kind = "renewal" /\ v.row[c].bound > 0 => v.row[c].used
                 /\ v.row[c].kind = "free" => ~v.row[c].used /\ v.row[c].bound = 0
      <4>1. CASE c = d
        BY <1>0, <1>1, <3>1, <4>1 DEF Rows, Tasks, Ended
      <4>2. CASE c # d
        BY <1>0, <1>1, <4>2 DEF Rows, Tasks, Ended, SameRow
      <4>3. QED BY <4>1, <4>2
    <3>3. QED BY <3>2 DEF Tasks
  <2>3. QED BY <1>0, <2>1, <2>2 DEF Rows, Ended
<1>4. Identified(v)
  <2>1. \A c \in Certs : Latest(v, c) <=> Latest(w, c)
    BY <1>1 DEF Latest, Bound
  <2>2. QED BY <1>0, <1>1, <2>1 DEF Identified, Ended
<1>5. /\ Recorded(v) /\ (Pending(v) <=> Pending(w)) /\ (Renewed(v) <=> Renewed(w))
      /\ v.nano = w.nano /\ v.dev = w.dev /\ v.snapshot = w.snapshot
  BY <1>0, <1>1 DEF Recorded, Renewed, Pending, Ended
<1>6. Awaits(v, m, r)
  BY <1>0, <1>1, <1>2, <1>5 DEF Awaits, Recorded
<1>7. Keeps(v, m)
  <2>1. Managed(v, m) <=> Managed(w, m)
    BY <1>0, <1>1 DEF Managed, Asked, Shape
  <2>2. Managed(w, m) /\ m.using \in Assoc(w) => Safe(v, m)
    BY <1>0, <1>1, <1>5 DEF Safe, Keeps, Identified
  <2>3. QED BY <1>0, <1>1, <1>5, <2>1, <2>2 DEF Keeps, Recorded
<1>8. QED BY <1>2, <1>3, <1>4, <1>5, <1>6, <1>7 DEF LInv, r

(* What was bound before a certificate: the newest of it, or the cutover's. *)
LEMMA BeforePrecedes ==
  ASSUME NEW w, Rows(w), NEW c \in Certs
  PROVE  IF BoundBefore(w, c) = None
         THEN \A b \in Bound(w) : ~(w.row[b].bound < w.row[c].bound)
         ELSE BoundBefore(w, c) \in Bound(w) /\ Precedes(w, BoundBefore(w, c), c)
<1> DEFINE S == {b \in Bound(w) : w.row[b].bound < w.row[c].bound}
           A == {w.row[b].bound : b \in S}
<1>1. BoundBefore(w, c) = Newest(w, S) /\ S \subseteq Certs
  BY DEF BoundBefore, Bound
<1>2. ASSUME S # {} PROVE Newest(w, S) \in S
                          /\ \A b \in S : w.row[b].bound <= w.row[Newest(w, S)].bound
  <2>1. PICK n \in Nat : \A b \in Certs : w.row[b].bound \in 0..n
    BY DEF Rows, Shaped, Sound, Ranked
  <2>2. A \in SUBSET (0..n) /\ A # {}
    BY <1>1, <1>2, <2>1
  <2>3. PICK x \in A : \A y \in A : y <= x
    <3> HIDE DEF A
    <3>1. QED BY <2>2, Largest
  <2>4. \E b \in S : \A y \in S : w.row[y].bound <= w.row[b].bound
    BY <2>3
  <2> HIDE DEF S
  <2>5. QED BY <1>2, <2>4 DEF Newest
<1>3. None \notin Certs
  BY CertsAssumption DEF None
<1>4. CASE S = {}
  <2>1. Newest(w, S) = None
    <3> HIDE DEF S
    <3>1. QED BY <1>4 DEF Newest
  <2>2. QED BY <1>1, <1>4, <2>1
<1>5. CASE S # {}
  <2> DEFINE p == Newest(w, S)
  <2>1. p \in S /\ \A b \in S : w.row[b].bound <= w.row[p].bound
    BY <1>2, <1>5
  <2> HIDE DEF p
  <2>2. p \in Bound(w) /\ Precedes(w, p, c) /\ p # None
    BY <1>1, <1>3, <2>1 DEF Precedes
  <2>3. QED BY <1>1, <2>2 DEF p
<1>6. QED BY <1>4, <1>5

LEMMA ReturnsKeeps ==
  ASSUME NEW w, NEW v, NEW m, NEW q, LInv(w, m, q), Len(q) > 0, NEW d \in Certs,
         q[1] = Msg("Error", d), Open(w, d), w.dev.id = d, Shaped(v),
         NEW p \in Certs, Precedes(w, p, d), Returns(w, v, d, p)
  PROVE  LInv(v, m, RemoveAt(q, 1))
<1> DEFINE r == RemoveAt(q, 1)
<1>0. /\ Rows(w) /\ Identified(w) /\ Recorded(w) /\ d # None /\ p # None
      /\ Asked(w, m, q) /\ Awaits(w, m, q) /\ Keeps(w, m)
  BY CertsAssumption DEF LInv, None
<1>1. /\ w.row[d].kind = "renewal" /\ d \notin w.snapshot /\ Latest(w, d)
      /\ w.row[d].bound > 0 /\ w.row[d].used
  <2>1. w.row[d].kind = "renewal" /\ d \notin w.snapshot
    BY <1>0 DEF Rows, Shaped, Sound, Open
  <2>2. Latest(w, d)
    BY <1>0, <2>1 DEF Identified
  <2>3. QED BY <1>0, <2>1, <2>2 DEF Latest, Bound, Rows, Tasks
<1>2. /\ \A c \in Certs : /\ v.row[c].kind = w.row[c].kind /\ v.row[c].used = w.row[c].used
                          /\ v.row[c].bound = w.row[c].bound
                          /\ w.row[c].bound \in Nat
      /\ ~Open(v, d) /\ \A c \in Certs : c # d => (Open(v, c) <=> Open(w, c))
      /\ Bound(v) = Bound(w) \ {d} /\ Assoc(v) \subseteq Assoc(w)
      /\ v.snapshot = w.snapshot
  <2>1. \A c \in Certs : /\ v.row[c].kind = w.row[c].kind /\ v.row[c].used = w.row[c].used
                         /\ v.row[c].bound = w.row[c].bound
    BY DEF Returns, SameRow
  <2>2. \A c \in Certs : w.row[c].bound \in Nat
    BY <1>0, BoundsAre DEF Rows, Shaped
  <2>3. ~Open(v, d) /\ \A c \in Certs : c # d => (Open(v, c) <=> Open(w, c))
    BY DEF Returns, SameRow, Open
  <2>4. Bound(v) = Bound(w) \ {d}
    BY DEF Returns, SameRow, Bound
  <2>5. Assoc(v) \subseteq Assoc(w) /\ v.snapshot = w.snapshot
    BY DEF Returns, Loses, Assoc, Held
  <2>6. QED BY <2>1, <2>2, <2>3, <2>4, <2>5
<1>3. \A c \in Certs : ~Open(v, c)
  BY <1>0, <1>2 DEF Rows, OneOpen
<1>4. /\ Asked(v, m, r) /\ Expected(w, m, q, d)
      /\ \A c \in Certs : ~Expected(v, m, r, c)
  <2>1. q[1] \in Answers(d)
    BY DEF Answers
  <2>2. QED BY <1>2, <1>3, <2>1, EndedAsked DEF Expected
<1>5. ~Stands(v, d) /\ \A c \in Certs : /\ c # d => /\ Stands(v, c) <=> Stands(w, c)
                                                    /\ Fresh(v, c) <=> Fresh(w, c)
                                        /\ Accepted(v, c) <=> Accepted(w, c)
  <2>1. ~Stands(v, d)
    BY <1>1, <1>2 DEF Stands, Returns
  <2>2. ASSUME NEW c \in Certs, c # d
        PROVE  (Stands(v, c) <=> Stands(w, c)) /\ (Fresh(v, c) <=> Fresh(w, c))
    BY <1>2, <2>2 DEF Stands, Fresh, AlreadyBound, Returns, SameRow
  <2>3. QED BY <1>2, <2>1, <2>2 DEF Accepted
<1>6. Rows(v)
  <2>1. Ranks(v) /\ OneOpen(v)
    BY <1>0, <1>2, <1>3 DEF Rows, Ranks, OneOpen
  <2>2. ASSUME NEW c \in Certs
        PROVE  /\ v.row[c].live => v.row[c].task \in {"open", "done"}
               /\ v.row[c].task = "done" => v.row[c].used
               /\ v.row[c].task # "late"
               /\ v.row[c].kind = "renewal" /\ v.row[c].bound > 0 => v.row[c].used
               /\ v.row[c].kind = "free" => ~v.row[c].used /\ v.row[c].bound = 0
    <3>1. CASE c = d
      BY <1>1, <1>2, <3>1 DEF Returns
    <3>2. CASE c # d
      BY <1>0, <1>2, <3>2 DEF Rows, Tasks, Returns, SameRow
    <3>3. QED BY <3>1, <3>2
  <2>3. Tasks(v)
    BY <1>3, <2>2 DEF Tasks
  <2>4. QED BY <1>0, <1>2, <1>3, <2>1, <2>3 DEF Rows
<1>7. (Latest(v, p) \/ (Bound(v) = {} /\ p \in v.snapshot)) /\ p # d
  <2>1. CASE /\ p \in Bound(w) /\ w.row[p].bound < w.row[d].bound
             /\ \A b \in Bound(w) : w.row[b].bound < w.row[d].bound
                                    => w.row[b].bound <= w.row[p].bound
    <3>1. p # d
      BY <1>2, <2>1
    <3>2. ASSUME NEW b \in Bound(v) PROVE v.row[b].bound <= v.row[p].bound
      <4>1. b \in Bound(w) /\ b # d /\ b \in Certs /\ w.row[b].bound > 0
        BY <1>2, <3>2 DEF Bound
      <4>2. w.row[b].bound <= w.row[d].bound /\ w.row[b].bound # w.row[d].bound
        BY <1>0, <1>1, <4>1 DEF Latest, Rows, Ranks
      <4>3. w.row[b].bound \in Nat /\ w.row[d].bound \in Nat
        BY <1>2, <4>1
      <4>4. w.row[b].bound < w.row[d].bound
        BY <4>2, <4>3
      <4>5. QED BY <1>2, <2>1, <4>1, <4>4
    <3>3. QED BY <1>2, <2>1, <3>1, <3>2 DEF Latest
  <2>2. CASE p \in w.snapshot /\ \A b \in Bound(w) : ~(w.row[b].bound < w.row[d].bound)
    <3>1. ASSUME NEW b \in Bound(v) PROVE FALSE
      <4>1. b \in Bound(w) /\ b # d /\ b \in Certs /\ w.row[b].bound > 0
        BY <1>2, <3>1 DEF Bound
      <4>2. w.row[b].bound <= w.row[d].bound /\ w.row[b].bound # w.row[d].bound
        BY <1>0, <1>1, <4>1 DEF Latest, Rows, Ranks
      <4>3. w.row[b].bound \in Nat /\ w.row[d].bound \in Nat
        BY <1>2, <4>1
      <4>4. QED BY <2>2, <4>1, <4>2, <4>3
    <3>2. QED BY <1>1, <1>2, <2>2, <3>1
  <2>3. QED BY <2>1, <2>2 DEF Precedes
<1>8. Identified(v) /\ v.dev.id = p
  BY <1>7 DEF Identified, Returns
<1>9. ~Fresh(v, p) /\ v.row[p].kind # "free"
      /\ (v.row[p].kind = "renewal" => v.row[p].used /\ v.row[p].bound > 0)
  BY <1>0, <1>6, <1>8, IdentityIs
<1>10. ASSUME v.nano.id # p
       PROVE  /\ v.nano.id = w.nano.id
              /\ v.nano.id = d \/ ~Stands(w, w.nano.id)
  <2>1. v.nano.id = w.nano.id
    BY <1>10 DEF Returns
  <2>2. CASE Stands(w, w.nano.id) /\ Fresh(w, w.nano.id)
    <3>1. Pending(w)
      BY <2>2 DEF Pending
    <3>2. QED BY <1>0, <1>4, <2>1, <3>1 DEF Awaits
  <2>3. CASE Stands(w, w.nano.id) /\ ~Fresh(w, w.nano.id)
    BY <1>0, <2>1, <2>3 DEF Recorded
  <2>4. QED BY <2>1, <2>2, <2>3
<1>11. Recorded(v) /\ ~Pending(v) /\ ~Renewed(v)
  <2>1. CASE v.nano.id = p
    BY <1>8, <1>9, <2>1 DEF Recorded, Pending, Renewed
  <2>2. CASE v.nano.id = d /\ v.nano.id # p
    BY <1>1, <1>2, <1>5, <2>2 DEF Recorded, Pending, Renewed
  <2>3. CASE v.nano.id # p /\ v.nano.id # d
    <3>1. v.nano.id = w.nano.id /\ ~Stands(w, w.nano.id) /\ w.nano.id \in Certs
      BY <1>0, <1>10, <2>3 DEF Recorded
    <3>2. ~Stands(v, v.nano.id)
      BY <1>5, <2>3, <3>1
    <3>3. w.row[w.nano.id].kind = "renewal" => w.row[w.nano.id].bound # 0
      BY <1>0, <3>1 DEF Stands, Recorded
    <3>4. QED BY <1>0, <1>2, <3>1, <3>2, <3>3 DEF Recorded, Pending, Renewed
  <2>4. QED BY <2>1, <2>2, <2>3
<1>12. Awaits(v, m, r)
  BY <1>4, <1>11 DEF Awaits
<1>13. Keeps(v, m)
  <2> SUFFICES ASSUME Managed(v, m)
               PROVE  v.nano.assoc[m.using] # "no" /\ (m.using \in Assoc(v) => Safe(v, m))
    BY <1>11 DEF Keeps
  <2>1. m.using \in Certs /\ m.using # None /\ Managed(w, m)
    BY <1>0, <1>5 DEF Managed, Asked, Shape
  <2>2. m.using # d
    <3>1. OnTheWay(q, Msg("Error", d))
      <4>1. 1 \in 1 .. Len(q)
        BY <1>0 DEF Asked, Shape
      <4>2. QED BY <4>1 DEF OnTheWay
    <3>2. QED BY <1>0, <3>1 DEF Asked, Answered
  <2>3. m.using \in Assoc(w) => m.using = p
    <3>1. m.using \in Assoc(w) => Precedes(w, m.using, d)
      BY <1>0, <2>1, <2>2 DEF Keeps, Safe
    <3>2. Precedes(w, m.using, d) => m.using = p
      <4>1. ASSUME Precedes(w, m.using, d)
            PROVE  m.using = p \/ (m.using \in w.snapshot /\ p \in w.snapshot)
        <5>1. BoundBefore(w, d) = (IF p \in Bound(w) /\ w.row[p].bound < w.row[d].bound
                                   THEN p ELSE None)
              /\ BoundBefore(w, d) = (IF /\ m.using \in Bound(w)
                                         /\ w.row[m.using].bound < w.row[d].bound
                                      THEN m.using ELSE None)
          BY <1>0, <2>1, <4>1, PrecedesIs
        <5>2. QED BY <1>0, <2>1, <4>1, <5>1 DEF Precedes
      <4>2. QED BY <1>0, <4>1 DEF Rows
    <3>3. QED BY <3>1, <3>2
  <2>4. \A b \in Certs : \/ v.nano.assoc[b] = w.nano.assoc[b]
                         \/ b \in Assoc(w) /\ b \notin ({p} \cup w.snapshot) \ {d}
    BY DEF Returns, Loses
  <2>5. QED BY <1>0, <1>2, <1>8, <2>1, <2>2, <2>3, <2>4 DEF Keeps, Safe
<1> HIDE DEF r
<1>14. QED BY <1>4, <1>6, <1>8, <1>11, <1>12, <1>13 DEF LInv, r

(* The handlers keep the invariant.                                         *)
LEMMA AsideAlike ==
  ASSUME NEW w, NEW v, Shaped(w), Aside(w, v) PROVE Alike(w, v)
BY AsideShaped DEF Aside, Alike, SameRow

LEMMA AcceptDoes ==
  ASSUME NEW w, Shaped(w), NEW c \in Certs, NEW topic, NEW F
  PROVE  Shaped(Accept(w, c, topic, F)) /\ Accepts(w, Accept(w, c, topic, F), c)
<1> DEFINE written == [BindRow(w, c) EXCEPT !.dev = WriteDevice(w, c)]
           same == SameInstall(w, c, topic)
           renewal == w.row[c].kind = "renewal"
           restored == IF same THEN RestoreToken(written, F) ELSE written
           more == {c} \cup (IF renewal THEN {w.dev.id} ELSE {})
           keep == (Allowed(restored) \cup more) \ {None}
           pruned == Prune(restored, keep, F)
           b1 == BindRow(w, c)
<1>1. /\ Shaped(b1) /\ b1.dev = w.dev /\ b1.nano = w.nano
      /\ \A b \in Certs \ {c} : SameRow(w, b1, b)
      /\ b1.row[c].kind = w.row[c].kind /\ b1.row[c].used = w.row[c].used
      /\ b1.row[c].live = w.row[c].live /\ b1.row[c].task = w.row[c].task
      /\ ~Fresh(w, c) => SameRow(w, b1, c) /\ b1.snapshot = w.snapshot
      /\ Fresh(w, c) =>
           /\ b1.row[c].holds
           /\ b1.row[c].bound = IF w.row[c].bound = 0 THEN BindRank(w) ELSE w.row[c].bound
           /\ b1.snapshot = IF w.row[c].kind = "renewal" THEN w.snapshot ELSE {}
  BY BindRowDoes
<1>2. /\ Fields(written) /\ Nanoed(written) /\ written.row = b1.row
      /\ written.snapshot = b1.snapshot /\ written.nano = w.nano
      /\ written.dev.id = c /\ written.dev.pem = c /\ written.dev.state = w.dev.state
  <2>1. Fields(b1) /\ Fields(w) /\ Nanoed(b1)
    BY <1>1 DEF Shaped, Sound, Rowed
  <2>2. /\ DevFields \subseteq DOMAIN WriteDevice(w, c) /\ WriteDevice(w, c).id = c
        /\ WriteDevice(w, c).pem = c /\ WriteDevice(w, c).state = w.dev.state
    BY <2>1 DEF WriteDevice, Fields, DevFields
  <2> HIDE DEF b1
  <2>3. written = [b1 EXCEPT !.dev = WriteDevice(w, c)]
    BY DEF b1
  <2> HIDE DEF written
  <2>4. /\ {"row", "dev", "snapshot", "nano", "alarm"} \subseteq DOMAIN written
        /\ written.row = b1.row /\ written.snapshot = b1.snapshot /\ written.nano = b1.nano
        /\ written.dev = WriteDevice(w, c)
    BY <2>1, <2>3 DEF Fields
  <2>5. QED BY <1>1, <2>1, <2>2, <2>4 DEF Fields, Nanoed
<1>3. Aside(written, restored)
  <2> HIDE DEF written
  <2>1. QED BY <1>2, TokensAside
<1>4. /\ Fields(pruned) /\ Nanoed(pruned) /\ Rest(restored, pruned)
      /\ Loses(restored, pruned, keep)
  <2> HIDE DEF restored, keep
  <2>1. QED BY <1>3, PruneDoes DEF Aside
<1>5. ASSUME NEW v, Aside(pruned, v)
      PROVE  Shaped(v) /\ Accepts(w, v, c)
  <2>1. /\ v.row = b1.row /\ v.snapshot = b1.snapshot
        /\ v.dev.id = c /\ v.dev.pem = c /\ v.dev.state = w.dev.state
        /\ v.nano.id = w.nano.id /\ Fields(v) /\ Nanoed(v)
    <3> HIDE DEF written, restored, pruned, b1
    <3>1. QED BY <1>2, <1>3, <1>4, <1>5 DEF Aside, Rest
  <2>2. Shaped(v)
    <3>1. Kept(b1, v)
      <4> HIDE DEF b1
      <4>1. QED BY <1>1, <2>1, SameRowsKept DEF Shaped, Sound
    <3> HIDE DEF b1
    <3>2. QED BY <1>1, <2>1, <3>1, KeptIsSound DEF Shaped
  <2>3. Allowed(v) = Allowed(restored)
    <3> HIDE DEF written, restored, pruned
    <3>1. v.row = restored.row /\ v.snapshot = restored.snapshot /\ v.dev.id = restored.dev.id
      BY <1>4, <1>5 DEF Aside, Rest
    <3>2. QED BY <3>1, SameAllowed
  <2>4. Loses(w, v, keep)
    <3> HIDE DEF written, restored, pruned, keep
    <3>1. w.nano.assoc = restored.nano.assoc /\ v.nano.assoc = pruned.nano.assoc
      BY <1>2, <1>3, <1>5 DEF Aside
    <3>2. QED BY <1>4, <3>1 DEF Loses, Assoc
  <2>5. Loses(w, v, (Allowed(v) \cup {c} \cup (IF w.row[c].kind = "renewal" THEN {w.dev.id}
                                                ELSE {})) \ {None})
    <3>1. keep = (Allowed(v) \cup {c} \cup (IF w.row[c].kind = "renewal" THEN {w.dev.id}
                                            ELSE {})) \ {None}
      BY <2>3
    <3> HIDE DEF keep
    <3>2. QED BY <2>4, <3>1
  <2>6. \A b \in Certs : SameRow(w, b1, b) => SameRow(w, v, b)
    <3> HIDE DEF b1
    <3>1. QED BY <2>1 DEF SameRow
  <2> HIDE DEF b1
  <2>7. QED BY <1>1, <2>1, <2>2, <2>5, <2>6 DEF Accepts
<1>6. Aside(pruned, pruned) /\ Aside(pruned, Capture(pruned, TRUE))
  <2> HIDE DEF pruned
  <2>1. QED BY <1>4, TokensAside
<1>7. Accept(w, c, topic, F) \in {pruned, Capture(pruned, TRUE)}
  BY DEF Accept
<1> HIDE DEF pruned
<1>8. QED BY <1>5, <1>6, <1>7

LEMMA FinishKeepsAll ==
  ASSUME NEW w, NEW m, NEW q, LInv(w, m, q), NEW c \in Certs, NEW F, ~Open(w, c),
         w.dev.id = c /\ c \in Bound(w) => ~Pending(w)
  PROVE  LInv(Finish(w, c, F), m, q) /\ Finish(w, c, F).nano.id = w.nano.id
<1> DEFINE cleared == [w EXCEPT !.row[c].pem = None]
           bare == [cleared EXCEPT !.snapshot = {}]
           v == Prune(bare, {c}, F)
<1>0. Shaped(w) /\ Rowed(w) /\ Fields(w) /\ Nanoed(w)
  BY DEF LInv, Rows, Shaped, Sound, Rowed
<1>1. /\ Fields(cleared) /\ Fields(bare) /\ Nanoed(cleared) /\ Nanoed(bare)
      /\ cleared.dev = w.dev /\ bare.dev = w.dev /\ cleared.nano = w.nano /\ bare.nano = w.nano
      /\ cleared.snapshot = w.snapshot /\ bare.snapshot = {}
      /\ cleared.row = [w.row EXCEPT ![c].pem = None] /\ bare.row = cleared.row
  BY <1>0 DEF Fields, DevFields, Nanoed
<1> HIDE DEF cleared, bare
<1>2. \A b \in Certs : SameRow(w, cleared, b) /\ SameRow(w, bare, b)
  BY <1>0, <1>1 DEF Rowed, RowFields, SameRow
<1>3. DOMAIN cleared.row = Certs /\ \A b \in Certs : RowFields \subseteq DOMAIN cleared.row[b]
  BY <1>0, <1>1 DEF Rowed, RowFields
<1>4. Shaped(cleared) /\ Shaped(bare)
  <2>1. Kept(w, cleared) /\ Kept(w, bare)
    BY <1>1, <1>2, <1>3 DEF Kept, Rowed, SameRow
  <2>2. QED BY <1>0, <1>1, <2>1, KeptIsSound DEF Shaped
<1>5. LInv(cleared, m, q)
  <2>1. Alike(w, cleared)
    BY <1>1, <1>2, <1>4 DEF Alike
  <2>2. QED BY <2>1, AlikeKeeps
<1>6. ASSUME w.dev.id = c, c \in Bound(w) PROVE LInv(v, m, q) /\ v.nano.id = w.nano.id
  <2>1. Fields(v) /\ Nanoed(v) /\ Rest(bare, v) /\ Loses(bare, v, {c})
    BY <1>1, PruneDoes
  <2> HIDE DEF v
  <2>2. Shaped(v)
    <3>1. Kept(bare, v)
      BY <1>4, <2>1, SameRowsKept DEF Rest, Shaped, Sound
    <3>2. QED BY <1>4, <2>1, <3>1, KeptIsSound DEF Shaped
  <2>3. /\ \A b \in Certs : SameRow(w, v, b)
        /\ v.snapshot = {} /\ v.dev = w.dev /\ v.nano.id = w.nano.id /\ Loses(w, v, {c})
    BY <1>1, <1>2, <2>1 DEF Rest, SameRow, Loses, Assoc
  <2>4. QED BY <1>6, <2>2, <2>3, FinishedKeeps
<1>7. Finish(w, c, F) = IF w.dev.id # c \/ c \notin Bound(w) THEN cleared ELSE v
  BY DEF Finish, cleared, bare
<1> HIDE DEF v
<1>8. QED BY <1>1, <1>5, <1>6, <1>7

(* NanoMDM recorded the device's own certificate.                           *)
LEMMA OwnIsKnown ==
  ASSUME NEW w, NEW m, NEW q, LInv(w, m, q), w.dev.id = w.nano.id
  PROVE  ~Pending(w) /\ ~Renewed(w)
<1>1. w.dev.id # None /\ Rows(w) /\ Identified(w)
  BY CertsAssumption DEF LInv, Recorded, None
<1>2. QED BY <1>1, IdentityIs DEF Pending, Renewed

LEMMA AsideKeeps ==
  ASSUME NEW w, NEW v, NEW m, NEW q, LInv(w, m, q), Aside(w, v)
  PROVE  LInv(v, m, q) /\ v.dev.id = w.dev.id /\ v.nano.id = w.nano.id
BY AsideAlike, AlikeKeeps DEF LInv, Rows, Aside

LEMMA ShapedFields == ASSUME NEW w, Shaped(w) PROVE Fields(w) /\ Nanoed(w) /\ Rowed(w)
BY DEF Shaped, Sound, Rowed

LEMMA BindKeeps ==
  ASSUME NEW w, NEW m, NEW q, LInv(w, m, q), Stands(w, w.nano.id), NEW topic, NEW F
  PROVE  LET v == Bind(w, w.nano.id, topic, F)
         IN  LInv(v, m, q) /\ v.dev.id = v.nano.id
<1> DEFINE c == w.nano.id
           accepted == Accept(w, c, topic, F)
           anew == Fresh(w, c) \/ NewInstall(w, c)
           S == IF accepted.row[c].kind = "renewal" THEN Certs \ {c} ELSE Certs
           failed == Fail(accepted, S, "failed")
           enrolled == IF anew THEN Reenroll(accepted, c, SameInstall(w, c, topic)) ELSE accepted
           rts == IF anew /\ w.row[c].kind = "rts" THEN Capture(enrolled, FALSE) ELSE enrolled
<1>0. /\ c \in Certs /\ c # None /\ Shaped(w) /\ Rows(w) /\ Awaits(w, m, q)
  BY CertsAssumption DEF LInv, Recorded, Rows, None
<1>1. Accepts(w, accepted, c) /\ LInv(accepted, m, q) /\ accepted.dev.id = c
      /\ accepted.nano.id = c /\ Shaped(accepted)
  <2>1. Shaped(accepted) /\ Accepts(w, accepted, c)
    BY <1>0, AcceptDoes
  <2> HIDE DEF accepted
  <2>2. QED BY <2>1, AcceptedKeeps DEF Accepts
<1>2. ASSUME anew
      PROVE  LInv(enrolled, m, q) /\ enrolled.dev.id = c /\ enrolled.nano.id = c
  <2> HIDE DEF accepted
  <2>1. /\ Shaped(failed) /\ failed.dev = accepted.dev /\ failed.nano = accepted.nano
        /\ failed.snapshot = accepted.snapshot
        /\ Failed(accepted, failed, S)
    <3>1. Shaped(accepted)
      BY <1>1
    <3> HIDE DEF S
    <3>2. QED BY <3>1, FailDoes
  <2>2. /\ \A b \in Certs : /\ Open(accepted, b) <=> Open(w, b)
                            /\ Open(w, b) => w.row[b].kind = "renewal"
        /\ accepted.row[c].kind = w.row[c].kind
    BY <1>0, <1>1 DEF Accepts, SameRow, Open, Rows, Shaped, Sound
  <2>3. ASSUME NEW b \in Certs, b \in S, Expected(accepted, m, q, b) PROVE FALSE
    <3>1. Expected(w, m, q, b) /\ Open(w, b)
      BY <2>2, <2>3 DEF Expected
    <3>2. CASE Fresh(w, c)
      <4>1. b = c
        BY <1>0, <3>1, <3>2 DEF Awaits, Pending
      <4>2. QED BY <2>2, <2>3, <3>1, <4>1
    <3>3. CASE ~Enrolled(w)
      BY <1>0, <3>1, <3>3 DEF Rows
    <3>4. QED BY <1>2, <3>2, <3>3 DEF NewInstall
  <2>4. c \in S => ~Open(accepted, c)
    BY <1>0, <2>2
  <2>5. ~Renewed(accepted)
    BY <1>1, OwnIsKnown
  <2>6. LInv(failed, m, q)
    <3> HIDE DEF failed, S
    <3>1. QED BY <1>1, <2>1, <2>3, <2>4, <2>5, FailedKeeps
  <2>7. Reenroll(accepted, c, SameInstall(w, c, topic))
        = IF accepted.row[c].kind = "renewal"
          THEN [failed EXCEPT !.dev.escrowed = @ /\ SameInstall(w, c, topic)
                                               /\ accepted.dev.sealed # None]
          ELSE [failed EXCEPT !.dev.escrowed = FALSE, !.dev.sealed = None]
    BY DEF Reenroll
  <2> HIDE DEF failed, S
  <2>8. PICK e1, e2 : enrolled \in {[failed EXCEPT !.dev.escrowed = e1],
                                    [failed EXCEPT !.dev.escrowed = e1, !.dev.sealed = e2]}
    BY <1>2, <2>7
  <2>9. Aside(failed, enrolled)
    <3>1. Fields(failed) /\ Nanoed(failed)
      BY <2>1, ShapedFields
    <3>2. QED BY <2>8, <3>1 DEF Aside, Fields, DevFields, Nanoed
  <2> HIDE DEF enrolled
  <2>10. QED BY <1>1, <2>1, <2>6, <2>9, AsideKeeps
<1>3. LInv(enrolled, m, q) /\ enrolled.dev.id = c /\ enrolled.nano.id = c
  BY <1>1, <1>2
<1>4. LInv(rts, m, q) /\ rts.dev.id = c /\ rts.nano.id = c
  <2> HIDE DEF enrolled
  <2>1. Shaped(enrolled)
    BY <1>3 DEF LInv, Rows
  <2>2. Aside(enrolled, Capture(enrolled, FALSE))
    BY <2>1, ShapedFields, TokensAside
  <2>3. QED BY <1>3, <2>2, AsideKeeps
<1>5. /\ LInv(FinishOnTokenUpdate(rts, c, F), m, q)
      /\ FinishOnTokenUpdate(rts, c, F).dev.id = c /\ FinishOnTokenUpdate(rts, c, F).nano.id = c
  <2> HIDE DEF rts
  <2>1. CASE FinishOnTokenUpdate(rts, c, F) = rts
    BY <1>4, <2>1
  <2>2. CASE FinishOnTokenUpdate(rts, c, F) = Finish(rts, c, F) /\ ~Open(rts, c)
    <3>1. ~Pending(rts)
      BY <1>4, OwnIsKnown
    <3>2. Shaped(rts)
      BY <1>4 DEF LInv, Rows
    <3>3. Finish(rts, c, F).dev.id = c
      BY <1>4, <3>2, ShapedFields, FinishSame DEF SameIdentity
    <3>4. QED BY <1>0, <1>4, <2>2, <3>1, <3>3, FinishKeepsAll
  <2>3. QED BY <2>1, <2>2 DEF FinishOnTokenUpdate, Open
<1>6. Bind(w, c, topic, F) \in {rts, FinishOnTokenUpdate(rts, c, F)}
  BY DEF Bind
<1> HIDE DEF rts
<1>7. QED BY <1>4, <1>5, <1>6

LEMMA RefuseKeepsAll ==
  ASSUME NEW w, NEW m, NEW q, LInv(w, m, q), ~Renewed(w), NEW c \in Certs, NEW F
  PROVE  LET v == Refuse(w, c, F) IN LInv(v, m, q) /\ ~Renewed(v)
<1> DEFINE S == ({c} \cup Assoc(w)) \ Allowed(w)
           parked == Park(w, S, F)
           live == Enrolled(w) /\ c \in Assoc(w)
           bare == [parked EXCEPT !.nano.token = None, !.nano.stamped = FALSE]
           tokened == IF ~live \/ "token" \in F THEN parked
                      ELSE IF w.dev.sealed # None THEN WriteToken(parked) ELSE bare
           owed == w.dev.pem # None /\ c # w.dev.id
           v == Refuse(w, c, F)
<1>0. Shaped(w) /\ Fields(w) /\ Nanoed(w)
  BY ShapedFields DEF LInv, Rows
<1>1. LInv(parked, m, q) /\ ~Renewed(parked) /\ Shaped(parked) /\ Rest(w, parked)
  <2>1. /\ Fields(parked) /\ Nanoed(parked) /\ Rest(w, parked)
        /\ \A b \in Certs : \/ parked.nano.assoc[b] = w.nano.assoc[b]
                            \/ parked.nano.assoc[b] = "parked" /\ b \in S
    BY <1>0, ParkDoes
  <2> HIDE DEF parked
  <2>2. Shaped(parked)
    <3>1. Kept(w, parked)
      BY <1>0, <2>1, SameRowsKept DEF Shaped, Sound, Rest
    <3>2. QED BY <1>0, <2>1, <3>1, KeptIsSound DEF Shaped
  <2>3. \A b \in S : b \notin Allowed(w)
    OBVIOUS
  <2> HIDE DEF S
  <2>4. LInv(parked, m, q)
    BY <2>1, <2>2, <2>3, ParkKeeps DEF Rest
  <2>5. QED BY <2>1, <2>2, <2>4 DEF Renewed, Rest
<1>2. Aside(parked, tokened)
  <2> HIDE DEF parked
  <2>1. Fields(parked) /\ Nanoed(parked)
    BY <1>1, ShapedFields
  <2>2. Aside(parked, bare)
    BY <2>1 DEF Aside, Fields, DevFields, Nanoed, NanoFields
  <2> HIDE DEF bare
  <2>3. QED BY <2>1, <2>2, TokensAside
<1>3. /\ LInv(tokened, m, q) /\ tokened.dev.id = w.dev.id /\ tokened.nano.id = w.nano.id
      /\ Shaped(tokened) /\ tokened.dev.pem = w.dev.pem
  <2> HIDE DEF parked, tokened
  <2>1. QED BY <1>1, <1>2, AsideKeeps DEF Rest, LInv, Rows, Aside
<1> DEFINE e == IF c \in Assoc(w) /\ (w.dev.sealed = None \/ ~live \/ "token" \in F)
                THEN FALSE ELSE tokened.dev.escrowed
           n == IF owed /\ "pem" \notin F THEN w.dev.pem ELSE tokened.nano.id
           a == [recent |-> TRUE, redo |-> IF owed /\ "pem" \in F THEN c ELSE None]
<1>4. v = [tokened EXCEPT !.dev.escrowed = e, !.nano.id = n, !.alarm = a]
  <2> HIDE DEF parked
  <2>1. QED BY DEF Refuse, parked
<1>5. n \in {w.nano.id} \/ (w.dev.id # None /\ n = w.dev.id)
  <2>1. w.dev.pem \in {None, w.dev.id}
    BY DEF LInv, Identified
  <2> HIDE DEF tokened
  <2>2. QED BY <1>3, <2>1
<1> HIDE DEF tokened, e, n, a, v
<1>6. /\ Fields(v) /\ Nanoed(v) /\ v.row = tokened.row /\ v.snapshot = tokened.snapshot
      /\ v.dev.id = tokened.dev.id /\ v.dev.pem = tokened.dev.pem
      /\ v.dev.state = tokened.dev.state
      /\ v.nano.assoc = tokened.nano.assoc /\ v.nano.id = n
  <2>1. Fields(tokened) /\ Nanoed(tokened)
    BY <1>3, ShapedFields
  <2>2. QED BY <1>4, <2>1 DEF Fields, DevFields, Nanoed, NanoFields
<1>7. Shaped(v)
  <2>1. Kept(tokened, v)
    BY <1>3, <1>6, SameRowsKept DEF Shaped, Sound
  <2>2. QED BY <1>3, <1>6, <2>1, KeptIsSound DEF Shaped
<1>8. CASE n = w.nano.id
  <2>1. Aside(tokened, v)
    BY <1>3, <1>6, <1>8 DEF Aside
  <2>2. LInv(v, m, q)
    BY <1>3, <2>1, AsideKeeps
  <2>3. v.row = w.row /\ v.nano.id = w.nano.id
    <3>1. tokened.row = parked.row /\ parked.row = w.row
      BY <1>1, <1>2 DEF Aside, Rest
    <3>2. QED BY <1>6, <1>8, <3>1
  <2>4. QED BY <2>2, <2>3 DEF Renewed, v
<1>9. CASE w.dev.id # None /\ n = w.dev.id
  <2>1. LInv(v, m, q)
    BY <1>3, <1>6, <1>7, <1>9, OwnKeeps
  <2>2. QED BY <1>3, <1>6, <1>9, <2>1, OwnIsKnown DEF v
<1>10. QED BY <1>5, <1>8, <1>9

(* The end of a task is written on its row.                                 *)
LEMMA TaskOf ==
  ASSUME NEW w, Shaped(w), NEW c \in Certs, Open(w, c), NEW how
  PROVE  LET v == [w EXCEPT !.row[c].task = how]
         IN  /\ Shaped(v) /\ v.row[c] = [w.row[c] EXCEPT !.task = how]
             /\ \A b \in Certs \ {c} : v.row[b] = w.row[b]
             /\ v.dev = w.dev /\ v.nano = w.nano /\ v.snapshot = w.snapshot
<1> DEFINE v == [w EXCEPT !.row[c].task = how]
<1>0. Rowed(w) /\ Fields(w) /\ Nanoed(w) /\ Sound(w)
  BY ShapedFields DEF Shaped
<1>1. /\ v.row = [w.row EXCEPT ![c].task = how] /\ v.dev = w.dev /\ v.nano = w.nano
      /\ v.snapshot = w.snapshot /\ Fields(v)
  BY <1>0 DEF Fields
<1> HIDE DEF v
<1>2. /\ DOMAIN v.row = Certs /\ v.row[c] = [w.row[c] EXCEPT !.task = how]
      /\ \A b \in Certs \ {c} : v.row[b] = w.row[b]
  BY <1>0, <1>1 DEF Rowed
<1>3. \A b \in Certs : /\ RowFields \subseteq DOMAIN v.row[b]
                       /\ v.row[b].kind = w.row[b].kind /\ v.row[b].bound = w.row[b].bound
                       /\ v.row[b].holds = w.row[b].holds
                       /\ b # c => v.row[b].task = w.row[b].task
  BY <1>0, <1>2 DEF Rowed, RowFields
<1>4. Kept(w, v)
  BY <1>1, <1>2, <1>3 DEF Kept, Rowed, Open
<1>5. Shaped(v)
  BY <1>0, <1>1, <1>4, KeptIsSound DEF Shaped, Nanoed
<1>6. QED BY <1>1, <1>2, <1>5 DEF v

LEMMA AckKeeps ==
  ASSUME NEW w, NEW m, NEW q, LInv(w, m, q), Len(q) > 0, NEW c \in Certs,
         q[1] = Msg("Acknowledged", c), Open(w, c), NEW F
  PROVE  LET done == [w EXCEPT !.row[c].task = "done"]
         IN  LInv(IF w.row[c].bound = 0 THEN done ELSE Finish(done, c, F),
                  m, RemoveAt(q, 1))
<1> DEFINE done == [w EXCEPT !.row[c].task = "done"]
           r == RemoveAt(q, 1)
<1>0. Shaped(w) /\ Rowed(w) /\ Answered(w, m, q) /\ OnTheWay(q, q[1]) /\ Awaits(w, m, q)
      /\ Recorded(w)
  BY ShapedFields, TakenFirst DEF LInv, Rows, Asked, Shape
<1>1. w.row[c].used /\ m.using \in {c, None} /\ q[1] \in Answers(c)
  BY <1>0 DEF Answered, Answers
<1>2. /\ Shaped(done) /\ done.row[c] = [w.row[c] EXCEPT !.task = "done"]
      /\ \A b \in Certs \ {c} : done.row[b] = w.row[b]
      /\ done.dev = w.dev /\ done.nano = w.nano /\ done.snapshot = w.snapshot
  BY <1>0, TaskOf
<1> HIDE DEF done, r
<1>3. Ended(w, done, c, "done")
  <2>1. \A b \in Certs \ {c} : SameRow(w, done, b)
    BY <1>2 DEF SameRow
  <2>2. QED BY <1>0, <1>2, <2>1 DEF Ended, Rowed, RowFields
<1>4. Managed(w, m) => m.using = c
  BY <1>1 DEF Managed
<1>5. LInv(done, m, r)
  BY <1>1, <1>2, <1>3, <1>4, EndedKeeps DEF r
<1>6. ~Open(done, c)
  BY <1>3 DEF Ended, Open
<1>7. ASSUME done.dev.id = c, c \in Bound(done) PROVE ~Pending(done)
  <2>1. Expected(w, m, q, c)
    BY <1>0, <1>1 DEF Expected
  <2>2. c \in Bound(w) /\ \A d \in Certs : Stands(done, d) /\ Fresh(done, d)
                                           => Stands(w, d) /\ Fresh(w, d)
    <3>1. \A d \in Certs : /\ done.row[d].kind = w.row[d].kind
                           /\ done.row[d].used = w.row[d].used
                           /\ done.row[d].bound = w.row[d].bound
                           /\ done.row[d].holds = w.row[d].holds
      BY <1>3 DEF Ended, SameRow
    <3>2. Bound(done) = Bound(w)
      BY <3>1 DEF Bound
    <3>3. QED BY <1>2, <1>7, <3>1, <3>2 DEF Stands, Fresh, AlreadyBound
  <2>3. ASSUME Pending(done) PROVE FALSE
    <3>1. Pending(w)
      BY <1>0, <1>2, <2>2, <2>3 DEF Pending, Recorded
    <3>2. c = w.nano.id
      BY <1>0, <2>1, <3>1 DEF Awaits
    <3>3. QED BY <2>2, <3>1, <3>2 DEF Pending, Fresh, AlreadyBound
  <2>4. QED BY <2>3
<1>8. LInv(Finish(done, c, F), m, r)
  BY <1>5, <1>6, <1>7, FinishKeepsAll
<1>9. QED BY <1>5, <1>8 DEF done, r

LEMMA BackToIs ==
  ASSUME NEW w, Rows(w), NEW c \in Certs
  PROVE  /\ BackTo(w, c) # None => BackTo(w, c) \in Certs /\ Precedes(w, BackTo(w, c), c)
         /\ \A p \in Certs : Precedes(w, p, c) => BackTo(w, c) = p
<1> DEFINE before == BoundBefore(w, c)
<1>1. IF before = None THEN \A b \in Bound(w) : ~(w.row[b].bound < w.row[c].bound)
      ELSE before \in Bound(w) /\ Precedes(w, before, c)
  BY BeforePrecedes
<1>2. \A p \in Certs : Precedes(w, p, c)
        => before = IF p \in Bound(w) /\ w.row[p].bound < w.row[c].bound THEN p ELSE None
  BY PrecedesIs
<1>3. w.snapshot \in {{}, {1}} /\ 1 \in Certs
  BY CertsAssumption DEF Rows
<1>4. Cardinality({}) = 0 /\ Cardinality({1}) = 1
  BY FS_EmptySet, FS_Singleton
<1>5. (CHOOSE b \in {1} : TRUE) = 1
  OBVIOUS
<1>6. BackTo(w, c) = IF before = None /\ w.snapshot = {1} THEN 1 ELSE before
  BY <1>3, <1>4, <1>5 DEF BackTo
<1>7. \A b \in Bound(w) : b \in Certs /\ b # None
  BY CertsAssumption DEF Bound, None
<1> HIDE DEF before
<1>8. ASSUME BackTo(w, c) # None PROVE BackTo(w, c) \in Certs /\ Precedes(w, BackTo(w, c), c)
  <2>1. CASE before = None
    <3>1. w.snapshot = {1} /\ BackTo(w, c) = 1
      BY <1>6, <1>8, <2>1
    <3>2. Precedes(w, 1, c)
      BY <1>1, <2>1, <3>1 DEF Precedes
    <3>3. QED BY <1>3, <3>1, <3>2
  <2>2. CASE before # None
    BY <1>1, <1>6, <1>7, <2>2
  <2>3. QED BY <2>1, <2>2
<1>9. ASSUME NEW p \in Certs, Precedes(w, p, c) PROVE BackTo(w, c) = p
  <2>1. CASE p \in Bound(w) /\ w.row[p].bound < w.row[c].bound
    BY <1>2, <1>6, <1>7, <1>9, <2>1
  <2>2. CASE ~(p \in Bound(w) /\ w.row[p].bound < w.row[c].bound)
    <3>1. p \in w.snapshot /\ before = None
      BY <1>2, <1>9, <2>2 DEF Precedes
    <3>2. w.snapshot = {1} /\ p = 1
      BY <1>3, <3>1
    <3>3. QED BY <1>6, <3>1, <3>2
  <2>3. QED BY <2>1, <2>2
<1>10. QED BY <1>8, <1>9

LEMMA NewestSame ==
  ASSUME NEW w, NEW u, NEW S, \A b \in S : u.row[b].bound = w.row[b].bound
  PROVE  Newest(u, S) = Newest(w, S)
<1>1. CASE S = {}
  BY <1>1 DEF Newest
<1>2. CASE S # {}
  <2>1. Newest(u, S) = CHOOSE c \in S : \A b \in S : u.row[b].bound <= u.row[c].bound
    BY <1>2 DEF Newest
  <2>2. Newest(w, S) = CHOOSE c \in S : \A b \in S : w.row[b].bound <= w.row[c].bound
    BY <1>2 DEF Newest
  <2>3. QED BY <2>1, <2>2
<1>3. QED BY <1>1, <1>2

(* A rollback after the Mac's answer, by cases.                             *)
LEMMA RollBackDoes ==
  ASSUME NEW w, Shaped(w), NEW c \in Certs, Open(w, c), w.row[c].kind = "renewal",
         w.dev.id = c \/ c \notin Bound(w), NEW F
  PROVE  LET v == RollBack([w EXCEPT !.row[c].task = "failed"], c, F)
             p == BackTo(w, c)
         IN  /\ Shaped(v)
             /\ IF c \notin Bound(w) \/ p = None \/ p \notin Assoc(w)
                THEN Ended(w, v, c, "failed") ELSE Returns(w, v, c, p)
<1> DEFINE u == [w EXCEPT !.row[c].task = "failed"]
           p == BackTo(u, c)
           expired == [u EXCEPT !.row[c].live = FALSE]
           pem == IF u.row[c].pem = p THEN p ELSE None
           forgotten == [expired EXCEPT !.row[c].holds = FALSE, !.row[c].pem = None]
           id == IF pem # None /\ forgotten.nano.id = u.dev.pem /\ "pem" \notin F
                 THEN pem ELSE forgotten.nano.id
           own == [forgotten EXCEPT
                     !.dev.id = p, !.dev.pem = pem,
                     !.nano.id = IF pem # None /\ @ = u.dev.pem /\ "pem" \notin F
                                 THEN pem ELSE @]
           restored == IF ~(u.dev.id = c) THEN forgotten ELSE own
           keep == ({IF restored.dev.id \in {None, c, p} THEN p ELSE restored.dev.id}
                      \cup u.snapshot) \ {c}
           v == Prune(restored, keep, F)
<1>1. /\ Shaped(u) /\ u.row[c] = [w.row[c] EXCEPT !.task = "failed"]
      /\ \A b \in Certs \ {c} : u.row[b] = w.row[b]
      /\ u.dev = w.dev /\ u.nano = w.nano /\ u.snapshot = w.snapshot
  BY TaskOf
<1> HIDE DEF u
<1>2. Rowed(w) /\ Rowed(u) /\ Fields(u) /\ Nanoed(u) /\ Sound(u)
  BY <1>1, ShapedFields DEF Shaped
<1>3. /\ u.row[c].kind = "renewal" /\ u.row[c].used = w.row[c].used
      /\ u.row[c].bound = w.row[c].bound /\ u.row[c].holds = w.row[c].holds
      /\ u.row[c].task = "failed" /\ RowFields \subseteq DOMAIN u.row[c]
  BY <1>1, <1>2 DEF Rowed, RowFields
<1>4. Bound(u) = Bound(w) /\ Assoc(u) = Assoc(w) /\ BoundBefore(u, c) = BoundBefore(w, c)
  <2>1. \A b \in Certs : u.row[b].bound = w.row[b].bound /\ u.row[b].holds = w.row[b].holds
    BY <1>1, <1>3
  <2>2. Bound(u) = Bound(w) /\ Assoc(u) = Assoc(w)
    BY <1>1, <2>1 DEF Bound, Assoc
  <2> DEFINE S == {b \in Bound(w) : w.row[b].bound < w.row[c].bound}
             T == {b \in Bound(u) : u.row[b].bound < u.row[c].bound}
  <2>3. T = S /\ \A b \in S : u.row[b].bound = w.row[b].bound
    BY <2>1, <2>2 DEF Bound
  <2>4. BoundBefore(u, c) = Newest(u, T) /\ BoundBefore(w, c) = Newest(w, S)
    BY DEF BoundBefore
  <2> HIDE DEF S, T
  <2>5. Newest(u, S) = Newest(w, S)
    BY <2>3, NewestSame
  <2>6. QED BY <2>2, <2>3, <2>4, <2>5
<1>5. p = BackTo(w, c)
  BY <1>1, <1>4 DEF BackTo
<1>6. /\ Shaped(expired) /\ expired.row[c] = [u.row[c] EXCEPT !.live = FALSE]
      /\ \A b \in Certs \ {c} : expired.row[b] = u.row[b]
      /\ expired.dev = u.dev /\ expired.nano = u.nano /\ expired.snapshot = u.snapshot
  <2>1. /\ expired.row = [u.row EXCEPT ![c].live = FALSE] /\ expired.dev = u.dev
        /\ expired.nano = u.nano /\ expired.snapshot = u.snapshot /\ Fields(expired)
    BY <1>2 DEF Fields
  <2> HIDE DEF expired
  <2>2. /\ DOMAIN expired.row = Certs /\ expired.row[c] = [u.row[c] EXCEPT !.live = FALSE]
        /\ \A b \in Certs \ {c} : expired.row[b] = u.row[b]
    BY <1>2, <2>1 DEF Rowed
  <2>3. Kept(u, expired)
    BY <1>2, <2>1, <2>2 DEF Kept, Rowed, RowFields
  <2>4. QED BY <1>2, <2>1, <2>2, <2>3, KeptIsSound DEF Shaped, Nanoed
<1>7. Ended(w, expired, c, "failed")
  <2> HIDE DEF expired
  <2>1. \A b \in Certs \ {c} : SameRow(w, expired, b)
    BY <1>1, <1>6 DEF SameRow
  <2>2. QED BY <1>1, <1>2, <1>3, <1>6, <2>1 DEF Ended, RowFields
<1>8. /\ Shaped(forgotten) /\ forgotten.row[c].holds = FALSE /\ forgotten.row[c].live = FALSE
      /\ forgotten.row[c].kind = u.row[c].kind /\ forgotten.row[c].used = u.row[c].used
      /\ forgotten.row[c].bound = u.row[c].bound /\ forgotten.row[c].task = "failed"
      /\ \A b \in Certs \ {c} : forgotten.row[b] = u.row[b]
      /\ forgotten.dev = u.dev /\ forgotten.nano = u.nano /\ forgotten.snapshot = u.snapshot
  <2> HIDE DEF expired
  <2>0. Rowed(expired) /\ Fields(expired) /\ Nanoed(expired) /\ Sound(expired)
    BY <1>6, ShapedFields DEF Shaped
  <2>1. /\ forgotten.row = [expired.row EXCEPT ![c].holds = FALSE, ![c].pem = None]
        /\ forgotten.dev = u.dev /\ forgotten.nano = u.nano
        /\ forgotten.snapshot = u.snapshot /\ Fields(forgotten)
    BY <1>6, <2>0 DEF Fields
  <2> HIDE DEF forgotten
  <2>2. /\ DOMAIN forgotten.row = Certs
        /\ forgotten.row[c] = [expired.row[c] EXCEPT !.holds = FALSE, !.pem = None]
        /\ \A b \in Certs \ {c} : forgotten.row[b] = expired.row[b]
    BY <2>0, <2>1 DEF Rowed
  <2>3. /\ forgotten.row[c].holds = FALSE /\ forgotten.row[c].live = FALSE
        /\ forgotten.row[c].kind = u.row[c].kind /\ forgotten.row[c].used = u.row[c].used
        /\ forgotten.row[c].bound = u.row[c].bound /\ forgotten.row[c].task = "failed"
        /\ RowFields \subseteq DOMAIN forgotten.row[c]
    BY <1>3, <1>6, <2>2 DEF RowFields
  <2>4. /\ \A b \in Certs \ {c} : forgotten.row[b] = u.row[b]
        /\ \A b \in Certs : RowFields \subseteq DOMAIN forgotten.row[b]
    BY <1>2, <1>6, <2>2, <2>3 DEF Rowed
  <2>5. Sound(forgotten)
    <3>1. Rowed(forgotten) /\ Ranked(forgotten)
      BY <1>2, <2>1, <2>2, <2>3, <2>4 DEF Rowed, Sound, Ranked
    <3>2. \A b \in Certs : /\ forgotten.row[b].kind = u.row[b].kind
                           /\ RolledBack(forgotten, b) => forgotten.row[b].kind = "renewal"
                           /\ forgotten.row[b].task # "none" => forgotten.row[b].kind = "renewal"
      <4> TAKE b \in Certs
      <4>1. CASE b = c
        BY <1>3, <2>3, <4>1
      <4>2. CASE b # c
        BY <1>2, <2>4, <4>2 DEF Sound, RolledBack
      <4>3. QED BY <4>1, <4>2
    <3>3. QED BY <1>2, <2>1, <3>1, <3>2 DEF Sound
  <2>6. QED BY <1>2, <2>1, <2>3, <2>4, <2>5 DEF Shaped, Nanoed
<1>9. ASSUME u.dev.id = c
      PROVE  /\ Fields(restored) /\ Nanoed(restored) /\ restored.row = forgotten.row
             /\ restored.snapshot = forgotten.snapshot /\ restored.dev.state = u.dev.state
             /\ restored.dev.id = p /\ restored.dev.pem = pem /\ restored.nano.id = id
             /\ restored.nano.assoc = u.nano.assoc
             /\ keep = ({p} \cup u.snapshot) \ {c}
  <2>1. restored = own
    BY <1>9
  <2>2. /\ Fields(own) /\ Nanoed(own) /\ own.row = forgotten.row
        /\ own.snapshot = forgotten.snapshot /\ own.dev.state = u.dev.state
        /\ own.dev.id = p /\ own.dev.pem = pem /\ own.nano.id = id
        /\ own.nano.assoc = u.nano.assoc
    <3> HIDE DEF forgotten, pem, p
    <3>0. Fields(forgotten) /\ Nanoed(forgotten)
      BY <1>8, ShapedFields
    <3>1. QED BY <1>8, <3>0 DEF Fields, DevFields, Nanoed, NanoFields
  <2> HIDE DEF own, p
  <2>3. QED BY <2>1, <2>2
<1>10. u.dev.id = c => Shaped(restored)
  <2> HIDE DEF restored, forgotten
  <2>1. u.dev.id = c => Kept(forgotten, restored)
    BY <1>8, <1>9, ShapedFields, SameRowsKept
  <2>2. QED BY <1>8, <1>9, <2>1, KeptIsSound DEF Shaped
<1>11. u.dev.id = c => Shaped(v) /\ Rest(restored, v) /\ Loses(restored, v, keep)
  <2> HIDE DEF restored, keep
  <2>1. u.dev.id = c => /\ Fields(v) /\ Nanoed(v) /\ Rest(restored, v)
                        /\ Loses(restored, v, keep)
    BY <1>9, PruneDoes
  <2> HIDE DEF v
  <2>2. u.dev.id = c => Kept(restored, v)
    BY <1>10, <2>1, ShapedFields, SameRowsKept DEF Rest
  <2>3. QED BY <1>10, <2>1, <2>2, KeptIsSound DEF Shaped
<1>12. ASSUME u.dev.id = c PROVE Returns(w, v, c, p)
  <2>1. pem \in {None, p} /\ id \in {u.nano.id, p}
    <3> HIDE DEF forgotten
    <3>1. QED BY <1>8
  <2> HIDE DEF v, restored, forgotten, keep, pem, id, p
  <2>2. \A b \in Certs \ {c} : SameRow(w, v, b)
    BY <1>1, <1>8, <1>9, <1>11, <1>12 DEF Rest, SameRow
  <2>3. Loses(w, v, ({p} \cup w.snapshot) \ {c})
    BY <1>1, <1>9, <1>11, <1>12 DEF Loses, Assoc
  <2>4. QED BY <1>1, <1>3, <1>8, <1>9, <1>11, <1>12, <2>1, <2>2, <2>3 DEF Rest, Returns
<1>13. RollBack(u, c, F) = IF c \notin Bound(u) \/ p = None \/ p \notin Assoc(u)
                           THEN expired ELSE v
  BY DEF RollBack, BackTo
<1>14. QED
  <2> HIDE DEF v, expired, p
  <2>1. QED BY <1>1, <1>4, <1>5, <1>6, <1>7, <1>11, <1>12, <1>13 DEF u

LEMMA ErrorKeeps ==
  ASSUME NEW w, NEW m, NEW q, LInv(w, m, q), Len(q) > 0, NEW c \in Certs,
         q[1] = Msg("Error", c), Open(w, c), NEW F
  PROVE  LInv(RollBack([w EXCEPT !.row[c].task = "failed"], c, F), m, RemoveAt(q, 1))
<1> DEFINE v == RollBack([w EXCEPT !.row[c].task = "failed"], c, F)
           p == BackTo(w, c)
<1>0. /\ Shaped(w) /\ Rows(w) /\ Identified(w) /\ Asked(w, m, q) /\ Awaits(w, m, q)
      /\ OnTheWay(q, q[1]) /\ w.row[c].kind = "renewal"
  BY TakenFirst DEF LInv, Rows, Asked, Shape, Shaped, Sound, Open
<1>1. m.using # c /\ q[1] \in Answers(c) /\ c # None
  BY <1>0, CertsAssumption DEF Asked, Answered, Answers, None
<1>2. w.dev.id = c \/ c \notin Bound(w)
  <2>1. Expected(w, m, q, c)
    BY <1>0, <1>1 DEF Expected
  <2>2. QED BY <1>0, <2>1 DEF Awaits, Bound
<1>3. /\ Shaped(v)
      /\ IF c \notin Bound(w) \/ p = None \/ p \notin Assoc(w)
         THEN Ended(w, v, c, "failed") ELSE Returns(w, v, c, p)
  BY <1>0, <1>2, RollBackDoes
<1>4. /\ p # None => p \in Certs /\ Precedes(w, p, c)
      /\ \A b \in Certs : Precedes(w, b, c) => p = b
  BY <1>0, BackToIs
<1> HIDE DEF v, p
<1>5. CASE c \notin Bound(w) \/ p = None \/ p \notin Assoc(w)
  <2>1. ASSUME Managed(w, m), m.using \in Assoc(w), w.dev.id = c, Precedes(w, m.using, c)
        PROVE  FALSE
    <3>1. m.using \in Certs /\ m.using # None
      BY <2>1 DEF Assoc, Managed
    <3>2. p = m.using
      BY <1>4, <2>1, <3>1
    <3>3. c \notin Bound(w)
      BY <1>5, <2>1, <3>1, <3>2
    <3>4. c \in w.snapshot
      BY <1>0, <1>1, <2>1, <3>3 DEF Identified, Latest
    <3>5. QED BY <1>0, <3>4 DEF Shaped, Sound
  <2>2. QED BY <1>1, <1>3, <1>5, <2>1, EndedKeeps DEF v
<1>6. CASE c \in Bound(w) /\ p # None /\ p \in Assoc(w)
  BY <1>2, <1>3, <1>4, <1>6, ReturnsKeeps DEF v
<1>7. QED BY <1>5, <1>6

(* A check-out that is taken was not followed by an enrollment.             *)
LEMMA CheckOutKeeps ==
  ASSUME NEW w, NEW m, NEW q, LInv(w, m, q), Len(q) > 0, q[1] = Out
  PROVE  LET r == RemoveAt(q, 1)
         IN  /\ LInv(w, m, r)
             /\ LInv([Fail(w, Certs, "failed") EXCEPT
                        !.dev.state = "unenrolled", !.dev.sealed = None,
                        !.dev.escrowed = FALSE], m, r)
<1> DEFINE r == RemoveAt(q, 1)
           u == Fail(w, Certs, "failed")
           v == [u EXCEPT !.dev.state = "unenrolled", !.dev.sealed = None,
                          !.dev.escrowed = FALSE]
<1>0. Shaped(w) /\ Asked(w, m, q) /\ Awaits(w, m, q) /\ OnTheWay(q, q[1])
      /\ \A c : Ahead(q, c) => q[1] # Out
  BY TakenFirst DEF LInv, Rows, Asked, Shape
<1>1. m.using = None /\ m.trying = None /\ ~Renewed(w)
  BY <1>0 DEF Asked, Answered, Awaits
<1>2. LInv(w, m, r)
  BY <1>1, TakeKeeps
<1>3. /\ Shaped(u) /\ u.dev = w.dev /\ u.nano = w.nano /\ u.snapshot = w.snapshot
      /\ Failed(w, u, Certs)
  BY <1>0, FailDoes
<1> HIDE DEF u, r
<1>4. /\ Fields(v) /\ v.row = u.row /\ v.nano = u.nano /\ v.snapshot = u.snapshot
      /\ v.dev.id = u.dev.id /\ v.dev.pem = u.dev.pem
  BY <1>3, ShapedFields DEF Fields, DevFields
<1> HIDE DEF v
<1>5. Shaped(v)
  <2>1. Kept(u, v)
    BY <1>3, <1>4, ShapedFields, SameRowsKept
  <2>2. QED BY <1>3, <1>4, <2>1, KeptIsSound DEF Shaped, Nanoed
<1>6. Failed(w, v, Certs)
  BY <1>3, <1>4 DEF Failed
<1>7. LInv(v, m, r)
  BY <1>1, <1>2, <1>3, <1>4, <1>5, <1>6, FailedKeeps
<1>8. QED BY <1>2, <1>7 DEF r, v, u

(* The Mac asks for the certificate of the renewal it was sent.             *)
LEMMA RenewsKeeps ==
  ASSUME NEW w, NEW v, NEW m, NEW n, NEW q, LInv(w, m, q), NEW c \in Certs, Shaped(v),
         w.row[c].kind = "renewal", ~w.row[c].used, w.row[c].live,
         m.using # None, m.trying = None, c \notin m.answered,
         v.row = [w.row EXCEPT ![c].used = TRUE], v.dev = w.dev, v.nano = w.nano,
         v.snapshot = w.snapshot, n = [m EXCEPT !.trying = c]
  PROVE  LInv(v, n, q)
<1>0. /\ Rows(w) /\ Identified(w) /\ Recorded(w) /\ Rowed(w) /\ c # None /\ Sound(w)
      /\ Asked(w, m, q) /\ Awaits(w, m, q) /\ Keeps(w, m) /\ Tasks(w)
  BY ShapedFields, CertsAssumption DEF LInv, Rows, None, Shaped
<1>1. /\ v.row[c].used = TRUE /\ v.row[c].kind = w.row[c].kind
      /\ v.row[c].bound = w.row[c].bound /\ v.row[c].holds = w.row[c].holds
      /\ v.row[c].live = w.row[c].live /\ v.row[c].task = w.row[c].task
      /\ \A b \in Certs \ {c} : v.row[b] = w.row[b]
  <2>1. RowFields \subseteq DOMAIN w.row[c] /\ DOMAIN w.row = Certs
    BY <1>0 DEF Rowed
  <2>2. /\ v.row[c] = [w.row[c] EXCEPT !.used = TRUE]
        /\ \A b \in Certs \ {c} : v.row[b] = w.row[b]
    BY <2>1
  <2>3. QED BY <2>1, <2>2 DEF RowFields
<1>2. /\ n.using = m.using /\ n.trying = c /\ n.answered = m.answered /\ n.tokens = m.tokens
      /\ MacFields \subseteq DOMAIN n
  BY <1>0 DEF Asked, Shape, MacFields
<1>3. Open(w, c) /\ m.using # c /\ w.nano.id # c
  BY <1>0 DEF Tasks, Open, Asked, Uses, Recorded
<1>4. /\ Bound(v) = Bound(w) /\ Assoc(v) = Assoc(w)
      /\ \A b \in Certs : /\ Open(v, b) <=> Open(w, b)
                          /\ v.row[b].kind = w.row[b].kind /\ v.row[b].bound = w.row[b].bound
                          /\ v.row[b].holds = w.row[b].holds
                          /\ w.row[b].used => v.row[b].used
                          /\ Fresh(v, b) <=> Fresh(w, b)
                          /\ b # c => (Stands(v, b) <=> Stands(w, b))
                          /\ Accepted(v, b) <=> Accepted(w, b)
                          /\ \A p : Precedes(v, p, b) <=> Precedes(w, p, b)
  <2>1. \A b \in Certs : /\ v.row[b].kind = w.row[b].kind /\ v.row[b].bound = w.row[b].bound
                         /\ v.row[b].holds = w.row[b].holds /\ v.row[b].task = w.row[b].task
                         /\ w.row[b].used => v.row[b].used
                         /\ b # c => v.row[b].used = w.row[b].used
    BY <1>1
  <2>2. Bound(v) = Bound(w) /\ Assoc(v) = Assoc(w)
    BY <2>1 DEF Bound, Assoc
  <2>3. \A b \in Certs : \A p : Precedes(v, p, b) <=> Precedes(w, p, b)
    BY <2>1, <2>2 DEF Precedes, Bound
  <2>4. QED BY <2>1, <2>2, <2>3 DEF Open, Fresh, AlreadyBound, Stands, Accepted
<1>5. Rows(v)
  <2>1. Ranks(v) /\ OneOpen(v) /\ (~Enrolled(v) => \A b \in Certs : ~Open(v, b))
    BY <1>0, <1>4 DEF Rows, Ranks, OneOpen, Enrolled
  <2>2. Tasks(v)
    BY <1>0, <1>1, <1>4 DEF Tasks
  <2>3. QED BY <1>0, <2>1, <2>2 DEF Rows
<1>6. Identified(v)
  <2>1. \A b \in Certs : Latest(v, b) <=> Latest(w, b)
    BY <1>4 DEF Latest, Bound
  <2>2. QED BY <1>0, <1>4, <2>1 DEF Identified
<1>7. /\ Recorded(v) /\ (Pending(v) <=> Pending(w)) /\ (Renewed(v) <=> Renewed(w))
  BY <1>0, <1>3, <1>4 DEF Recorded, Renewed, Pending
<1>8. Asked(v, n, q)
  <2>1. Shape(n, q)
    BY <1>0, <1>2 DEF Asked, Shape
  <2>2. Tries(v, n) /\ Uses(v, n)
    BY <1>0, <1>1, <1>2, <1>3, <1>4 DEF Asked, Shape, Tries, Uses
  <2>3. Answered(v, n, q)
    BY <1>0, <1>2, <1>4 DEF Asked, Shape, Answered
  <2>4. QED BY <2>1, <2>2, <2>3 DEF Asked
<1>9. Awaits(v, n, q)
  <2>1. \A b \in Certs : Expected(v, n, q, b) <=> Expected(w, m, q, b)
    BY <1>2, <1>4 DEF Expected
  <2>2. QED BY <1>0, <1>4, <1>7, <2>1 DEF Awaits, Recorded
<1>10. Keeps(v, n)
  <2>1. Managed(v, n) <=> Managed(w, m)
    BY <1>0, <1>2, <1>4 DEF Managed, Asked, Shape
  <2>2. Safe(v, n) <=> Safe(w, m)
    BY <1>0, <1>2, <1>4 DEF Safe, Identified
  <2>3. QED BY <1>0, <1>2, <1>4, <1>7, <2>1, <2>2 DEF Keeps, Recorded
<1>11. QED BY <1>5, <1>6, <1>7, <1>8, <1>9, <1>10 DEF LInv

(* It presents that certificate to NanoMDM.                                 *)
LEMMA AuthenticatesKeeps ==
  ASSUME NEW w, NEW v, NEW m, NEW q, LInv(w, m, q), m.trying # None,
         w.nano.assoc[m.trying] = "no", Shaped(v), v.row = w.row, v.dev = w.dev,
         v.snapshot = w.snapshot, v.nano.id = m.trying,
         \A b \in Certs \ {m.trying} : v.nano.assoc[b] = w.nano.assoc[b],
         v.nano.assoc[m.trying] = "young"
  PROVE  LInv(v, m, Append(q, Msg("Authenticate", 0)))
<1> DEFINE t == m.trying
           x == Msg("Authenticate", 0)
           r == Append(q, x)
<1>0. /\ Rows(w) /\ Identified(w) /\ Recorded(w) /\ t \in Certs
      /\ Asked(w, m, q) /\ Awaits(w, m, q) /\ Keeps(w, m) /\ OneOpen(w)
  BY DEF LInv, Rows, Asked, Shape
<1>1. /\ x \in Msgs /\ x.topic = "Authenticate" /\ \A b : x \notin Answers(b) /\ x # Out
  BY MsgsDiffer DEF Topics, CheckIns, Msg, Out, Answers
<1> HIDE DEF x
<1>2. LInv(w, m, r)
  BY <1>1, SendKeeps DEF CheckIns
<1>3. /\ w.row[t].kind = "renewal" /\ w.row[t].used /\ Open(w, t) /\ t \notin m.answered
      /\ m.using # None /\ m.using # t
  BY <1>0 DEF Asked, Tries
<1>4. Ahead(r, t)
  <2>1. ~OnTheWay(q, Out) /\ \A y \in Answers(t) : ~OnTheWay(q, y)
    BY <1>0, <1>3 DEF Asked, Answered, Answers
  <2>2. QED BY <1>0, <1>1, <2>1, Sent DEF Asked, Shape, CheckIns
<1>5. Asked(w, m, r) /\ Awaits(w, m, r)
  BY <1>2 DEF LInv
<1> HIDE DEF r
<1>6. Expected(w, m, r, t) /\ \A b \in Certs : Expected(w, m, r, b) => b = t
  BY <1>0, <1>3 DEF Expected, OneOpen
<1>7. /\ Bound(v) = Bound(w)
      /\ Assoc(v) = Assoc(w) \cup {t}
      /\ \A c \in Certs : /\ Open(v, c) <=> Open(w, c)
                          /\ Fresh(v, c) <=> Fresh(w, c)
                          /\ Stands(v, c) <=> Stands(w, c)
                          /\ Accepted(v, c) <=> Accepted(w, c)
                          /\ \A p : Precedes(v, p, c) <=> Precedes(w, p, c)
  <2>1. Assoc(v) = Assoc(w) \cup {t}
    BY <1>0 DEF Assoc, Held
  <2>2. QED BY <2>1, SameView DEF SameRow
<1>8. Rows(v) /\ Identified(v)
  BY <1>0, <1>7 DEF Rows, Ranks, OneOpen, Tasks, Enrolled, Identified, Latest, Open
<1>9. Recorded(v)
  <2>1. ASSUME ~Fresh(w, t) PROVE w.dev.id = t
    <3>1. t \in Bound(w)
      BY <1>3, <2>1 DEF Fresh, AlreadyBound
    <3>2. QED BY <1>5, <1>6, <3>1 DEF Awaits, Bound
  <2>2. QED BY <1>0, <1>3, <1>7, <2>1 DEF Recorded
<1>10. Asked(v, m, r)
  BY <1>5, <1>7 DEF Asked, Shape, Tries, Uses, Answered, Open
<1>11. Awaits(v, m, r)
  <2>1. \A b \in Certs : Expected(v, m, r, b) <=> Expected(w, m, r, b)
    BY <1>7 DEF Expected
  <2>2. QED BY <1>0, <1>3, <1>4, <1>5, <1>6, <1>7, <2>1 DEF Awaits
<1>12. Keeps(v, m)
  <2>1. Safe(v, m) <=> Safe(w, m)
    BY <1>0, <1>7 DEF Safe, Identified
  <2>2. m.using \in Certs
    BY <1>0, <1>3 DEF Asked, Shape
  <2>3. QED BY <1>0, <1>3, <1>7, <2>1, <2>2 DEF Keeps, Managed, Accepted
<1>13. QED BY <1>8, <1>9, <1>10, <1>11, <1>12 DEF LInv, r, x

(* Its TokenUpdate commits it to the new certificate.                       *)
LEMMA ConfirmsKeeps ==
  ASSUME NEW w, NEW m, NEW n, NEW q, LInv(w, m, q), m.trying # None,
         m.trying \in Assoc(w), n = [m EXCEPT !.using = m.trying, !.trying = None]
  PROVE  LInv(w, n, Append(q, Msg("TokenUpdate", 0)))
<1> DEFINE t == m.trying
           x == Msg("TokenUpdate", 0)
           r == Append(q, x)
<1>1. x \in Msgs /\ x.topic \in CheckIns
  BY MsgsDiffer DEF Topics, CheckIns
<1> HIDE DEF x
<1>2. LInv(w, m, r)
  BY <1>1, SendKeeps
<1> HIDE DEF r
<1>0. /\ Rows(w) /\ Identified(w) /\ Recorded(w) /\ t \in Certs /\ Shape(m, r)
      /\ Asked(w, m, r) /\ Awaits(w, m, r) /\ Keeps(w, m) /\ OneOpen(w) /\ None \notin Certs
  BY <1>2, CertsAssumption DEF LInv, Rows, Asked, Shape, None
<1>3. /\ w.row[t].kind = "renewal" /\ w.row[t].used /\ Open(w, t) /\ t \notin m.answered
      /\ m.using # None /\ m.using # t
  BY <1>0 DEF Asked, Tries
<1>4. /\ n.using = t /\ n.trying = None /\ n.answered = m.answered /\ n.tokens = m.tokens
      /\ MacFields \subseteq DOMAIN n
  BY <1>0 DEF Shape, MacFields
<1>5. Asked(w, n, r)
  <2>1. Shape(n, r) /\ Tries(w, n) /\ Uses(w, n)
    BY <1>0, <1>3, <1>4 DEF Shape, Tries, Uses
  <2>2. ASSUME NEW c \in Certs, OnTheWay(r, Msg("Acknowledged", c)) PROVE FALSE
    <3>1. c \in m.answered /\ m.using \in {c, None} /\ (m.using = c => Open(w, c))
      BY <1>0, <2>2 DEF Asked, Answered
    <3>2. QED BY <1>0, <1>3, <3>1 DEF OneOpen
  <2>3. Answered(w, n, r)
    BY <1>0, <1>3, <1>4, <2>2 DEF Asked, Answered
  <2>4. QED BY <2>1, <2>3 DEF Asked
<1>6. \A c \in Certs : Expected(w, n, r, c) <=> Expected(w, m, r, c)
  BY <1>4 DEF Expected
<1>7. Awaits(w, n, r)
  BY <1>0, <1>6 DEF Awaits
<1>8. Keeps(w, n)
  <2>1. Expected(w, m, r, t)
    BY <1>3 DEF Expected
  <2>2. Managed(w, n) => w.dev.id = t
    BY <1>0, <1>3, <1>4, <2>1, BoundsAre DEF Managed, Accepted, Awaits, Rows, Shaped
  <2>3. Pending(w) => w.row[w.nano.id].kind = "renewal"
    BY <1>0, <1>3, <2>1 DEF Awaits
  <2>4. w.nano.assoc[t] # "no"
    BY DEF Assoc, Held
  <2>5. QED BY <1>4, <2>2, <2>3, <2>4 DEF Keeps, Safe
<1>9. QED BY <1>0, <1>2, <1>5, <1>7, <1>8 DEF LInv, r, x

(* It answers the profile, with the new certificate or with the old one.    *)
LEMMA AnswersKeeps ==
  ASSUME NEW w, NEW m, NEW n, NEW q, LInv(w, m, q), NEW c \in Certs,
         w.row[c].kind = "renewal", c \notin m.answered, m.using # None,
         MacFields \subseteq DOMAIN n, n.using = m.using, n.trying \in {m.trying, None},
         n.answered = m.answered \cup {c}, n.tokens = m.tokens, n.trying # c,
         NEW x, \/ x = Msg("Acknowledged", c) /\ m.using = c
                \/ x = Msg("Error", c) /\ m.using # c
  PROVE  LInv(w, n, Append(q, x))
<1> DEFINE r == Append(q, x)
<1>0. /\ Rows(w) /\ Identified(w) /\ Recorded(w) /\ Shape(m, q) /\ None \notin Certs
      /\ Asked(w, m, q) /\ Awaits(w, m, q) /\ Keeps(w, m)
      /\ Tries(w, m) /\ Uses(w, m) /\ Answered(w, m, q)
  BY CertsAssumption DEF LInv, Asked, None
<1>1. /\ x \in Msgs /\ x \in Answers(c) /\ x # Out
      /\ \A b \in Certs \ {c} : x \notin Answers(b)
  <2>1. c \in Nat /\ x \in Answers(c)
    BY CertsAssumption DEF Answers
  <2>2. x \in Msgs
    BY <2>1, MsgsDiffer DEF Topics
  <2>3. x # Out
    BY DEF Out, Msg
  <2>4. QED BY <2>1, <2>2, <2>3, MsgsDiffer
<1>2. \A y \in Answers(c) : ~OnTheWay(q, y)
  BY <1>0 DEF Answered, Answers
<1>3. /\ r \in Seq(Msgs) /\ \A y : OnTheWay(r, y) <=> OnTheWay(q, y) \/ y = x
      /\ \A b : Ahead(q, b) => Ahead(r, b)
      /\ \A b \in Certs : Once(r, b)
  <2>1. /\ r \in Seq(Msgs) /\ \A y : OnTheWay(r, y) <=> OnTheWay(q, y) \/ y = x
        /\ \A b : Ahead(q, b) => Ahead(r, b)
        /\ \A b : /\ Once(q, b)
                  /\ x \in Answers(b) => \A y \in Answers(b) : ~OnTheWay(q, y)
                  => Once(r, b)
    BY <1>0, <1>1, Sent DEF Shape
  <2> HIDE DEF r
  <2>2. \A b \in Certs : Once(q, b)
    BY <1>0 DEF Answered
  <2>3. QED BY <1>1, <1>2, <2>1, <2>2
<1> HIDE DEF r
<1>4. Asked(w, n, r)
  <2>1. Shape(n, r) /\ Tries(w, n) /\ Uses(w, n)
    BY <1>0, <1>3 DEF Shape, Tries, Uses
  <2>2. \A b \in n.answered : w.row[b].kind # "free"
    BY <1>0 DEF Answered
  <2>3. ASSUME NEW b \in Certs, OnTheWay(r, Msg("Acknowledged", b))
        PROVE  /\ b \in n.answered /\ w.row[b].used /\ n.using \in {b, None}
               /\ n.using = b => Open(w, b)
    <3>1. CASE OnTheWay(q, Msg("Acknowledged", b))
      BY <1>0, <3>1 DEF Answered
    <3>2. CASE Msg("Acknowledged", b) = x
      <4>1. b = c /\ m.using = c
        BY <3>2 DEF Msg
      <4>2. QED BY <1>0, <4>1 DEF Uses
    <3>3. QED BY <1>3, <2>3, <3>1, <3>2
  <2>4. ASSUME NEW b \in Certs, OnTheWay(r, Msg("Error", b))
        PROVE  b \in n.answered /\ n.using # b /\ n.trying # b
    <3>1. CASE OnTheWay(q, Msg("Error", b))
      BY <1>0, <3>1 DEF Answered
    <3>2. CASE Msg("Error", b) = x
      <4>1. b = c /\ m.using # c
        BY <3>2 DEF Msg
      <4>2. QED BY <4>1
    <3>3. QED BY <1>3, <2>4, <3>1, <3>2
  <2>5. ~OnTheWay(r, Out)
    BY <1>0, <1>1, <1>3 DEF Answered
  <2>6. Answered(w, n, r)
    BY <1>3, <2>2, <2>3, <2>4, <2>5 DEF Answered
  <2>7. QED BY <2>1, <2>6 DEF Asked
<1>5. \A b \in Certs : Expected(w, n, r, b) <=> Expected(w, m, q, b)
  BY <1>1, <1>3 DEF Expected
<1>6. Awaits(w, n, r)
  BY <1>0, <1>3, <1>5 DEF Awaits
<1>7. Keeps(w, n)
  BY <1>0 DEF Keeps, Managed, Safe
<1>8. QED BY <1>0, <1>4, <1>6, <1>7 DEF LInv, r

(* What the Mac holds besides its identity does not matter.                 *)
LEMMA MacAlike ==
  ASSUME NEW w, NEW m, NEW n, NEW q, LInv(w, m, q), MacFields \subseteq DOMAIN n,
         n.using = m.using, n.trying = m.trying, n.answered = m.answered, n.tokens \in Nat
  PROVE  LInv(w, n, q)
BY DEF LInv, Asked, Shape, Tries, Uses, Answered, Awaits, Expected, Keeps, Managed, Safe

(* It checks out: whatever it was sent is not answered any more.            *)
LEMMA ChecksOutKeeps ==
  ASSUME NEW w, NEW m, NEW n, NEW q, LInv(w, m, q), MacFields \subseteq DOMAIN n,
         n.using = None, n.trying = None, n.tokens = m.tokens,
         n.answered = {c \in Certs : w.row[c].kind # "free"}
  PROVE  LInv(w, n, Append(q, Out))
<1> DEFINE r == Append(q, Out)
<1>0. /\ Rows(w) /\ Identified(w) /\ Recorded(w) /\ Shape(m, q) /\ None \notin Certs
      /\ Asked(w, m, q) /\ Awaits(w, m, q) /\ Answered(w, m, q) /\ Sound(w)
  BY CertsAssumption DEF LInv, Asked, None, Rows, Shaped
<1>1. Out \in Msgs /\ \A b : Out \notin Answers(b)
  BY MsgsDiffer DEF Topics, Answers, Out
<1>2. /\ r \in Seq(Msgs) /\ \A y : OnTheWay(r, y) <=> OnTheWay(q, y) \/ y = Out
      /\ \A b : Ahead(q, b) => Ahead(r, b)
      /\ \A b : Once(q, b) => Once(r, b)
  BY <1>0, <1>1, Sent DEF Shape
<1> HIDE DEF r
<1>3. \A b : \A y \in Answers(b) : OnTheWay(r, y) <=> OnTheWay(q, y)
  BY <1>1, <1>2
<1>4. Asked(w, n, r)
  <2>1. Shape(n, r) /\ Tries(w, n) /\ Uses(w, n)
    BY <1>0, <1>2 DEF Shape, Tries, Uses
  <2>2. \A b \in m.answered : b \in n.answered
    BY <1>0 DEF Answered, Shape
  <2>3. Answered(w, n, r)
    BY <1>0, <1>2, <1>3, <2>2 DEF Answered, Answers
  <2>4. QED BY <2>1, <2>3 DEF Asked
<1>5. \A b \in Certs : Expected(w, n, r, b) => Expected(w, m, q, b)
  BY <1>0, <1>3 DEF Expected, Open, Sound
<1>6. Awaits(w, n, r)
  BY <1>0, <1>2, <1>5 DEF Awaits
<1>7. Keeps(w, n)
  BY DEF Keeps, Managed
<1>8. QED BY <1>0, <1>4, <1>6, <1>7 DEF LInv, r

LEMMA TakenView ==
  ASSUME NEW w, NEW v, NEW c \in Certs, Rows(w), Identified(w), Taken(w, v, c)
  PROVE  /\ Bound(v) = Bound(w) /\ Ranks(v) /\ ~Open(w, c) /\ c \notin w.snapshot
         /\ w.dev.id # c /\ ~w.row[c].used /\ c \notin Bound(w)
         /\ \A b \in Certs \ {c} : /\ Open(v, b) <=> Open(w, b)
                                   /\ v.row[b].kind = w.row[b].kind
                                   /\ v.row[b].used = w.row[b].used
                                   /\ v.row[b].bound = w.row[b].bound
                                   /\ Fresh(v, b) <=> Fresh(w, b)
                                   /\ Stands(v, b) <=> Stands(w, b)
                                   /\ Accepted(v, b) <=> Accepted(w, b)
                                   /\ Latest(v, b) <=> Latest(w, b)
                                   /\ \A p : Precedes(v, p, b) <=> Precedes(w, p, b)
<1>1. Sound(w) /\ Tasks(w) /\ Ranks(w) /\ \A b \in Certs : w.row[b].bound \in Nat
  BY BoundsAre DEF Rows, Shaped
<1>2. w.row[c].bound = 0 /\ ~w.row[c].used /\ ~Open(w, c) /\ c \notin w.snapshot
  BY <1>1 DEF Tasks, Sound, Open, Taken
<1>3. \A b \in Certs : v.row[b].bound = w.row[b].bound
  BY <1>2 DEF Taken, SameRow
<1>4. c \notin Bound(w) /\ c \notin Bound(v)
  BY <1>2, <1>3 DEF Bound
<1>5. Bound(v) = Bound(w)
  BY <1>3, <1>4 DEF Bound, Taken, SameRow
<1>6. Ranks(v)
  BY <1>1, <1>3 DEF Ranks
<1>7. w.dev.id # c
  BY <1>2, <1>4, CertsAssumption DEF Identified, Latest, None
<1>8. ASSUME NEW b \in Certs \ {c}
      PROVE  /\ Open(v, b) <=> Open(w, b)
             /\ v.row[b].kind = w.row[b].kind /\ v.row[b].used = w.row[b].used
             /\ v.row[b].bound = w.row[b].bound
             /\ Fresh(v, b) <=> Fresh(w, b)
             /\ Stands(v, b) <=> Stands(w, b)
             /\ Accepted(v, b) <=> Accepted(w, b)
             /\ Latest(v, b) <=> Latest(w, b)
             /\ \A p : Precedes(v, p, b) <=> Precedes(w, p, b)
  <2>1. SameRow(w, v, b) /\ v.snapshot = w.snapshot
    BY DEF Taken
  <2>2. /\ Open(v, b) <=> Open(w, b)
        /\ Fresh(v, b) <=> Fresh(w, b)
        /\ Stands(v, b) <=> Stands(w, b)
        /\ Accepted(v, b) <=> Accepted(w, b)
    BY <1>5, <2>1 DEF Open, Fresh, AlreadyBound, Stands, Accepted, SameRow
  <2>3. Latest(v, b) <=> Latest(w, b)
    BY <1>3, <1>5 DEF Latest, Bound
  <2>4. \A p : Precedes(v, p, b) <=> Precedes(w, p, b)
    BY <1>3, <1>5, <2>1 DEF Precedes, Bound
  <2>5. QED BY <2>1, <2>2, <2>3, <2>4 DEF SameRow
<1>9. QED BY <1>2, <1>4, <1>5, <1>6, <1>7, <1>8

LEMMA TakenRows ==
  ASSUME NEW w, NEW v, NEW c \in Certs, Rows(w), Identified(w), Taken(w, v, c), Shaped(v),
         Open(v, c) => v.row[c].live /\ Enrolled(w) /\ \A b \in Certs : ~Open(w, b),
         v.row[c].live => v.row[c].task = "open", v.row[c].task \in {"none", "open"},
         1 \in Assoc(w) => 1 \in Assoc(v)
  PROVE  Rows(v) /\ Identified(v)
<1>1. /\ Bound(v) = Bound(w) /\ Ranks(v) /\ ~Open(w, c) /\ c \notin w.snapshot
      /\ w.dev.id # c
      /\ \A b \in Certs \ {c} : /\ Open(v, b) <=> Open(w, b)
                                /\ v.row[b].kind = w.row[b].kind
                                /\ v.row[b].used = w.row[b].used
                                /\ v.row[b].bound = w.row[b].bound
                                /\ Latest(v, b) <=> Latest(w, b)
  BY TakenView
<1>2. OneOpen(v) /\ (~Enrolled(v) => \A b \in Certs : ~Open(v, b))
  BY <1>1 DEF Rows, OneOpen, Enrolled, Taken
<1>3. Tasks(v)
  <2> SUFFICES ASSUME NEW b \in Certs
               PROVE  /\ Open(v, b) => v.row[b].live /\ (v.row[b].bound > 0 => v.row[b].holds)
                      /\ v.row[b].live => v.row[b].task \in {"open", "done"}
                      /\ v.row[b].task = "done" => v.row[b].used
                      /\ v.row[b].task # "late"
                      /\ v.row[b].kind = "renewal" /\ v.row[b].bound > 0 => v.row[b].used
                      /\ v.row[b].kind = "free" => ~v.row[b].used /\ v.row[b].bound = 0
    BY DEF Tasks
  <2>1. CASE b = c
    BY <2>1 DEF Taken
  <2>2. CASE b # c
    BY <1>1, <2>2 DEF Rows, Tasks, Taken, SameRow
  <2>3. QED BY <2>1, <2>2
<1>4. Rows(v)
  BY <1>1, <1>2, <1>3 DEF Rows, Taken
<1>5. Identified(v)
  BY <1>1 DEF Identified, Taken
<1>6. QED BY <1>4, <1>5

(* The Mac enrolls again.                                                   *)
LEMMA EnrollsKeeps ==
  ASSUME NEW w, NEW v, NEW m, NEW n, LInv(w, m, <<>>), NEW c \in Certs, Taken(w, v, c),
         Shaped(v), v.row[c].kind \notin {"legacy", "renewal"}, v.row[c].task = "none",
         ~v.row[c].live, v.nano.id = c, v.nano.assoc[c] \in Held,
         MacFields \subseteq DOMAIN n, n.using = c, n.trying = None, n.tokens = m.tokens,
         n.answered = {b \in Certs : w.row[b].kind # "free"}
  PROVE  LInv(v, n, Append(<<>>, Msg("Authenticate", 0)))
<1> DEFINE x == Msg("Authenticate", 0)
           r == Append(<<>>, x)
<1>0. /\ Rows(w) /\ Identified(w) /\ Shape(m, <<>>) /\ None \notin Certs /\ Sound(w)
      /\ \A b \in Certs : Once(<<>>, b)
  BY CertsAssumption DEF LInv, Asked, None, Rows, Shaped, Answered
<1>1. x \in Msgs /\ x # Out /\ \A b : x \notin Answers(b)
  BY MsgsDiffer DEF Topics, CheckIns, Answers, Out, Msg
<1>2. /\ r \in Seq(Msgs) /\ \A y : OnTheWay(r, y) => y = x
      /\ \A b \in Certs : Once(r, b)
  <2>1. \A y : ~OnTheWay(<<>>, y)
    BY DEF OnTheWay
  <2>2. <<>> \in Seq(Msgs)
    OBVIOUS
  <2>3. QED BY <1>0, <1>1, <2>1, <2>2, Sent
<1> HIDE DEF r, x
<1>3. \A b : \A y \in Answers(b) \cup {Out} : ~OnTheWay(r, y)
  BY <1>1, <1>2
<1>4. /\ Bound(v) = Bound(w) /\ c \notin Bound(w) /\ ~Open(v, c)
      /\ \A b \in Certs \ {c} : /\ Open(v, b) <=> Open(w, b)
                                /\ v.row[b].kind = w.row[b].kind
  BY <1>0, TakenView DEF Open
<1>5. Rows(v) /\ Identified(v)
  <2>1. 1 \in Assoc(w) => 1 \in Assoc(v)
    BY DEF Taken, Assoc
  <2>2. QED BY <1>0, <1>4, <2>1, TakenRows
<1>6. Recorded(v) /\ ~Renewed(v)
  BY <1>4 DEF Recorded, Renewed, Fresh, AlreadyBound, Taken
<1>7. Asked(v, n, r)
  <2>1. Shape(n, r) /\ Tries(v, n) /\ Uses(v, n)
    BY <1>0, <1>2 DEF Shape, Tries, Uses, Taken
  <2>2. Answered(v, n, r)
    BY <1>2, <1>3, <1>4 DEF Answered, Answers, Taken
  <2>3. QED BY <2>1, <2>2 DEF Asked
<1>8. \A b \in Certs : ~Expected(v, n, r, b)
  BY <1>0, <1>3, <1>4 DEF Expected, Open, Sound
<1>9. Awaits(v, n, r)
  BY <1>6, <1>8 DEF Awaits, Held
<1>10. Keeps(v, n)
  BY <1>0 DEF Keeps, Managed, Accepted, Taken
<1>11. QED BY <1>5, <1>6, <1>7, <1>9, <1>10 DEF LInv, r, x

(* Another machine's certificate, recorded for this udid.                   *)
LEMMA OtherKeeps ==
  ASSUME NEW w, NEW v, NEW m, LInv(w, m, <<>>), NEW c \in Certs, Taken(w, v, c),
         Shaped(v), v.row[c].kind = "stray", v.row[c].task = "none",
         ~v.row[c].live, v.nano.id = c, v.nano.assoc[c] \in Held
  PROVE  LInv(v, m, Append(<<>>, Msg("Authenticate", 0)))
<1> DEFINE x == Msg("Authenticate", 0)
           r == Append(<<>>, x)
<1>0. x \in Msgs /\ x.topic \in CheckIns
  BY MsgsDiffer DEF Topics, CheckIns
<1> HIDE DEF x
<1>1. LInv(w, m, r)
  BY <1>0, SendKeeps
<1> HIDE DEF r
<1>2. /\ Rows(w) /\ Identified(w) /\ Asked(w, m, r) /\ Awaits(w, m, r) /\ Keeps(w, m)
      /\ Sound(w)
  BY <1>1 DEF LInv, Rows, Shaped
<1>3. /\ Bound(v) = Bound(w) /\ c \notin Bound(w) /\ ~Open(v, c) /\ w.dev.id # c
      /\ ~Open(w, c) /\ ~w.row[c].used
      /\ \A b \in Certs \ {c} : /\ Open(v, b) <=> Open(w, b)
                                /\ v.row[b].kind = w.row[b].kind
                                /\ v.row[b].used = w.row[b].used
                                /\ v.row[b].bound = w.row[b].bound
                                /\ Accepted(v, b) <=> Accepted(w, b)
                                /\ \A p : Precedes(v, p, b) <=> Precedes(w, p, b)
  BY <1>2, TakenView DEF Open
<1>4. Rows(v) /\ Identified(v)
  <2>1. 1 \in Assoc(w) => 1 \in Assoc(v)
    BY DEF Taken, Assoc
  <2>2. QED BY <1>2, <1>3, <2>1, TakenRows
<1>5. ~Stands(v, c) /\ Recorded(v) /\ ~Renewed(v) /\ ~Pending(v)
  BY DEF Recorded, Renewed, Pending, Stands
<1>6. m.using # c /\ m.trying # c /\ c \notin m.answered
  <2>1. m.trying # c
    BY <1>2, <1>3, CertsAssumption DEF Asked, Tries, None
  <2>2. QED BY <1>2, <2>1, CertsAssumption DEF Asked, Uses, Answered, Taken, None
<1>7. Asked(v, m, r)
  <2>1. Tries(v, m) /\ Uses(v, m)
    BY <1>2, <1>3, <1>6 DEF Asked, Shape, Tries, Uses
  <2>2. Answered(v, m, r)
    BY <1>2, <1>3, <1>6 DEF Asked, Shape, Answered
  <2>3. QED BY <1>2, <2>1, <2>2 DEF Asked
<1>8. \A b \in Certs : Expected(v, m, r, b) => Expected(w, m, r, b) /\ b # c
  BY <1>3 DEF Expected
<1>9. Awaits(v, m, r)
  BY <1>2, <1>3, <1>5, <1>8 DEF Awaits, Taken
<1>10. Keeps(v, m)
  <2>1. Managed(v, m) => Managed(w, m) /\ m.using \in Certs \ {c}
    BY <1>2, <1>3, <1>6 DEF Managed, Asked, Shape
  <2>2. Safe(w, m) => Safe(v, m)
    BY <1>2, <1>3 DEF Safe, Identified, Taken
  <2>3. QED BY <1>2, <1>5, <2>1, <2>2 DEF Keeps, Taken, Assoc
<1>11. QED BY <1>4, <1>5, <1>7, <1>9, <1>10 DEF LInv, r, x

(* A renewal is issued: nothing else is open, nothing pending.              *)
LEMMA RenewKeeps ==
  ASSUME NEW w, NEW v, NEW m, NEW q, LInv(w, m, q), NEW c \in Certs, Taken(w, v, c),
         Shaped(v), v.row[c].kind = "renewal", v.row[c].task = "open", v.row[c].live,
         v.nano.id = w.nano.id, v.nano.assoc = w.nano.assoc, Enrolled(w),
         \A b \in Certs : ~Open(w, b),
         Assoc(w) = {w.nano.id}, w.dev.id \in {None, w.nano.id}
  PROVE  LInv(v, m, q)
<1>0. /\ Rows(w) /\ Identified(w) /\ Recorded(w) /\ Asked(w, m, q) /\ Awaits(w, m, q)
      /\ Keeps(w, m) /\ Sound(w) /\ None \notin Certs
  BY CertsAssumption DEF LInv, Rows, Shaped, None
<1>1. /\ Bound(v) = Bound(w) /\ c \notin Bound(w) /\ Open(v, c) /\ w.dev.id # c
      /\ ~w.row[c].used
      /\ \A b \in Certs \ {c} : /\ Open(v, b) <=> Open(w, b)
                                /\ v.row[b].kind = w.row[b].kind
                                /\ v.row[b].used = w.row[b].used
                                /\ v.row[b].bound = w.row[b].bound
                                /\ Fresh(v, b) <=> Fresh(w, b)
                                /\ Stands(v, b) <=> Stands(w, b)
                                /\ Accepted(v, b) <=> Accepted(w, b)
                                /\ \A p : Precedes(v, p, b) <=> Precedes(w, p, b)
  BY <1>0, TakenView DEF Open
<1>2. ~Pending(w) /\ ~Renewed(w)
  <2>1. CASE w.dev.id = w.nano.id
    BY <2>1, OwnIsKnown
  <2>2. CASE w.dev.id = None
    <3>1. w.nano.id = 1 /\ 1 \in w.snapshot
      BY <1>0, <2>2 DEF Identified
    <3>2. w.row[w.nano.id].kind = "legacy"
      BY <1>0, <3>1 DEF Sound
    <3>3. QED BY <3>2 DEF Pending, Renewed, Fresh
  <2>3. QED BY <2>1, <2>2
<1>3. Rows(v) /\ Identified(v)
  <2>1. 1 \in Assoc(w) => 1 \in Assoc(v)
    BY DEF Assoc
  <2>2. QED BY <1>0, <2>1, TakenRows
<1>4. w.nano.id \in Certs \ {c}
  BY <1>0 DEF Recorded, Taken
<1>5. Recorded(v) /\ ~Renewed(v) /\ ~Pending(v)
  BY <1>0, <1>1, <1>2, <1>4 DEF Recorded, Renewed, Pending, Taken
<1>6. m.using # c /\ m.trying = None /\ c \notin m.answered
  <2>1. m.trying = None
    BY <1>0 DEF Asked, Shape, Tries
  <2>2. QED BY <1>0, <2>1, CertsAssumption DEF Asked, Uses, Answered, Taken, None
<1>7. Asked(v, m, q)
  <2>1. Tries(v, m) /\ Uses(v, m)
    BY <1>0, <1>1, <1>6 DEF Asked, Shape, Tries, Uses
  <2>2. Answered(v, m, q)
    BY <1>0, <1>1, <1>6 DEF Asked, Shape, Answered
  <2>3. QED BY <1>0, <2>1, <2>2 DEF Asked
<1>8. \A b \in Certs : Expected(v, m, q, b) => b = c
  BY <1>1 DEF Expected
<1>9. Awaits(v, m, q)
  BY <1>5, <1>8 DEF Awaits, Taken
<1>10. Keeps(v, m)
  <2>1. Managed(v, m) => Managed(w, m) /\ m.using \in Certs \ {c}
    BY <1>0, <1>1, <1>6 DEF Managed, Asked, Shape
  <2>2. Safe(w, m) => Safe(v, m)
    BY <1>0, <1>1 DEF Safe, Identified, Taken
  <2>3. QED BY <1>0, <1>5, <2>1, <2>2 DEF Keeps, Taken, Assoc
<1>11. QED BY <1>3, <1>5, <1>7, <1>9, <1>10 DEF LInv

----------------------------------------------------------------------------
(* The actions keep the whole invariant.                                    *)
LEMMA WorldIs ==
  /\ World.row = row /\ World.dev = dev /\ World.snapshot = snapshot
  /\ World.nano = nano /\ World.alarm = alarm
  /\ World'.row = row' /\ World'.dev = dev' /\ World'.snapshot = snapshot'
  /\ World'.nano = nano' /\ World'.alarm = alarm'
  /\ {"row", "dev", "snapshot", "nano", "alarm"} \subseteq DOMAIN World'
BY DEF World

(* The next world, told by what it looks like.                              *)
LEMMA NextShaped ==
  ASSUME NEW w, Shaped(w), row' = w.row, snapshot' = w.snapshot,
         DevFields \subseteq DOMAIN dev', NanoFields \subseteq DOMAIN nano',
         DOMAIN nano'.assoc = Certs
  PROVE  Shaped(World')
<1>1. Fields(World') /\ Nanoed(World') /\ World'.row = w.row /\ World'.snapshot = w.snapshot
  BY WorldIs DEF Fields, Nanoed
<1>2. Kept(w, World')
  BY <1>1, ShapedFields, SameRowsKept
<1>3. QED BY <1>1, <1>2, KeptIsSound DEF Shaped

LEMMA BecomesLInv ==
  ASSUME NEW w, NEW m, NEW q, LInv(w, m, q), Become(w) PROVE LInv(World', m, q)
<1>1. /\ row' = w.row /\ dev' = w.dev /\ snapshot' = w.snapshot /\ nano' = w.nano
      /\ Shaped(w) /\ Fields(w) /\ Nanoed(w)
  BY ShapedFields DEF Become, LInv, Rows
<1>2. Shaped(World')
  BY <1>1, NextShaped DEF Fields, Nanoed
<1>3. Alike(w, World')
  BY <1>1, <1>2, WorldIs DEF Alike, SameRow
<1>4. QED BY <1>3, AlikeKeeps

LEMMA NextAside ==
  ASSUME NEW m, NEW q, LInv(World, m, q), row' = row, snapshot' = snapshot,
         dev'.id = dev.id, dev'.pem = dev.pem, dev'.state = dev.state,
         nano'.id = nano.id, nano'.assoc = nano.assoc,
         DevFields \subseteq DOMAIN dev', NanoFields \subseteq DOMAIN nano'
  PROVE  LInv(World', m, q)
<1>1. Shaped(World) /\ Nanoed(World)
  BY ShapedFields DEF LInv, Rows
<1>2. Shaped(World')
  BY <1>1, NextShaped, WorldIs DEF Nanoed
<1>3. Alike(World, World')
  BY <1>2, WorldIs DEF Alike, SameRow
<1>4. QED BY <1>3, AlikeKeeps

LEMMA NextSame ==
  ASSUME NEW m, NEW q, LInv(World, m, q), UNCHANGED server PROVE LInv(World', m, q)
<1>1. World' = World
  BY DEF World, server
<1>2. QED BY <1>1

LEMMA FirstArrives ==
  ASSUME mishaps \in Nat, mishaps' = 0, NEW x, Arrives(x)
  PROVE  mishaps = 0 /\ Len(inbox) > 0 /\ inbox[1] = x /\ inbox' = RemoveAt(inbox, 1)
<1>1. PICK i \in 1 .. Len(inbox) : /\ inbox[i] = x /\ inbox' = RemoveAt(inbox, i)
                                   /\ Mishap(IF i = 1 THEN 0 ELSE 1)
  BY DEF Arrives
<1>2. i = 1
  <2>1. CASE i # 1
    BY <1>1, <2>1 DEF Mishap
  <2>2. QED BY <2>1
<1>3. mishaps = 0
  BY <1>1, <1>2 DEF Mishap
<1>4. QED BY <1>1, <1>2, <1>3

(* A renewal on its way would be bound, so what is refused is not one.      *)
LEMMA RenewalsStand ==
  ASSUME NEW w, NEW m, NEW q, LInv(w, m, q), Renewed(w)
  PROVE  /\ Stands(w, w.nano.id) /\ ~Takeover(w, w.nano.id) /\ MayBind(w, w.nano.id)
         /\ w.nano.id \in Assoc(w)
<1>1. /\ w.row[w.nano.id].used /\ w.row[w.nano.id].kind = "renewal"
      /\ w.row[w.nano.id].bound = 0 /\ w.nano.id \in Assoc(w)
  BY DEF LInv, Recorded, Awaits, Renewed
<1>2. QED BY <1>1 DEF Stands, Takeover, MayBind

(* A check-in whose outcome does not leave a renewal recorded.              *)
LEMMA CheckInKeeps ==
  ASSUME NEW w, NEW m, NEW q, LInv(w, m, q), ~Renewed(w), Len(q) > 0, Become(w)
  PROVE  LInv(World', m, RemoveAt(q, 1))
<1>1. LInv(w, m, RemoveAt(q, 1))
  BY TakeKeeps
<1>2. QED BY <1>1, BecomesLInv

LEMMA UpsertsLock ==
  ASSUME LockInv, mishaps' = 0, NEW topic \in CheckIns, NEW F,
         UpsertUnjudged(topic) \/ UpsertRefused(topic, F) \/ UpsertBound(topic, F)
  PROVE  LInv(World', mac', inbox')
<1>1. Arrives(Msg(topic, 0)) /\ mac' = mac
  BY DEF UpsertUnjudged, UpsertRefused, UpsertBound
<1>2. LInv(World, mac, inbox) /\ Len(inbox) > 0 /\ inbox' = RemoveAt(inbox, 1)
  BY <1>1, FirstArrives DEF LockInv
<1>3. World.nano.id = nano.id /\ nano.id \in Certs
  BY <1>2, WorldIs DEF LInv, Recorded
<1>4. CASE UpsertUnjudged(topic)
  <2>1. UNCHANGED server /\ Stale(World, topic)
    BY <1>4 DEF UpsertUnjudged
  <2>2. ~Renewed(World)
    BY <1>2, <2>1, RenewalsStand DEF Stale
  <2>3. LInv(World, mac, inbox')
    BY <1>2, <2>2, TakeKeeps
  <2>4. QED BY <1>1, <2>1, <2>3, NextSame
<1>5. CASE UpsertRefused(topic, F)
  <2> DEFINE v == Refuse(World, nano.id, F)
  <2>1. Become(v) /\ ~MayBind(World, nano.id)
    BY <1>5 DEF UpsertRefused
  <2>2. ~Renewed(World)
    BY <1>2, <1>3, <2>1, RenewalsStand
  <2>3. LInv(v, mac, inbox) /\ ~Renewed(v)
    BY <1>2, <1>3, <2>2, RefuseKeepsAll
  <2> HIDE DEF v
  <2>4. QED BY <1>1, <1>2, <2>1, <2>3, CheckInKeeps
<1>6. CASE UpsertBound(topic, F)
  <2> DEFINE v == Bind(World, nano.id, topic, F)
  <2>1. Become(v) /\ Stands(World, nano.id)
    BY <1>6 DEF UpsertBound, MayBind
  <2>2. LInv(v, mac, inbox) /\ v.dev.id = v.nano.id
    BY <1>2, <1>3, <2>1, BindKeeps
  <2> HIDE DEF v
  <2>3. ~Renewed(v)
    BY <2>2, OwnIsKnown
  <2>4. QED BY <1>1, <1>2, <2>1, <2>2, <2>3, CheckInKeeps
<1>7. QED BY <1>4, <1>5, <1>6

(* A webhook that is no check-in is taken; the handler leaves the world.    *)
LEMMA TakenOnly ==
  ASSUME NEW w, NEW m, NEW q, LInv(w, m, q), Len(q) > 0, q[1].topic \notin CheckIns
  PROVE  LInv(w, m, RemoveAt(q, 1))
BY TakeKeeps

LEMMA SavedKeeps ==
  ASSUME NEW w, NEW m, NEW q, LInv(w, m, q)
  PROVE  LET saved == [w EXCEPT !.dev.state = "enrolled"]
         IN  LInv(saved, m, q) /\ LInv(Capture(saved, FALSE), m, q)
<1> DEFINE saved == [w EXCEPT !.dev.state = "enrolled"]
<1>0. Shaped(w) /\ Fields(w) /\ Nanoed(w)
  BY ShapedFields DEF LInv, Rows
<1>1. /\ Fields(saved) /\ saved.row = w.row /\ saved.snapshot = w.snapshot
      /\ saved.nano = w.nano /\ saved.dev.id = w.dev.id /\ saved.dev.pem = w.dev.pem
      /\ saved.dev.state = "enrolled"
  BY <1>0 DEF Fields, DevFields
<1> HIDE DEF saved
<1>2. Shaped(saved)
  <2>1. Kept(w, saved)
    BY <1>0, <1>1, ShapedFields, SameRowsKept
  <2>2. QED BY <1>0, <1>1, <2>1, KeptIsSound DEF Shaped, Nanoed
<1>3. LInv(saved, m, q)
  <2>1. Alike(w, saved)
    BY <1>1, <1>2 DEF Alike, SameRow
  <2>2. QED BY <2>1, AlikeKeeps
<1>4. LInv(Capture(saved, FALSE), m, q)
  BY <1>2, <1>3, ShapedFields, TokensAside, AsideKeeps
<1>5. QED BY <1>3, <1>4 DEF saved

LEMMA HandleLock == ASSUME LockInv, mishaps' = 0, Handle PROVE LInv(World', mac', inbox')
<1>1. ASSUME NEW topic \in CheckIns, UpsertUnjudged(topic) PROVE LInv(World', mac', inbox')
  BY <1>1, UpsertsLock
<1>2. ASSUME NEW topic \in CheckIns, NEW F \in Faults,
             UpsertRefused(topic, F) \/ UpsertBound(topic, F)
      PROVE  LInv(World', mac', inbox')
  BY <1>2, UpsertsLock
<1>3. CASE SaveUpsert
  <2> DEFINE saved == [World EXCEPT !.dev.state = "enrolled"]
  <2>1. mishaps = 0 /\ mac' = mac /\ inbox' = inbox /\ LInv(World, mac, inbox)
    BY <1>3 DEF SaveUpsert, LockInv
  <2>2. UNCHANGED server \/ Become(saved) \/ Become(Capture(saved, FALSE))
    BY <1>3 DEF SaveUpsert
  <2>3. LInv(saved, mac, inbox) /\ LInv(Capture(saved, FALSE), mac, inbox)
    BY <2>1, SavedKeeps
  <2> HIDE DEF saved
  <2>4. QED BY <2>1, <2>2, <2>3, NextSame, BecomesLInv
<1>4. ASSUME NEW t \in 1 .. Alien, HandleSetToken(t) PROVE LInv(World', mac', inbox')
  <2>1. Arrives(Msg("SetToken", t)) /\ mac' = mac
    BY <1>4 DEF HandleSetToken
  <2>2. /\ LInv(World, mac, inbox) /\ Len(inbox) > 0 /\ inbox' = RemoveAt(inbox, 1)
        /\ inbox[1] = Msg("SetToken", t)
    BY <2>1, FirstArrives DEF LockInv
  <2>3. LInv(World, mac, inbox')
    BY <2>2, TakenOnly DEF Msg, CheckIns
  <2>4. Fields(World) /\ Nanoed(World)
    BY <2>2, ShapedFields DEF LInv, Rows
  <2>5. /\ dev'.id = dev.id /\ dev'.pem = dev.pem /\ dev'.state = dev.state
        /\ DevFields \subseteq DOMAIN dev' /\ NanoFields \subseteq DOMAIN nano'
        /\ row' = row /\ snapshot' = snapshot /\ nano' = nano
    <3>1. /\ DevFields \subseteq DOMAIN dev /\ NanoFields \subseteq DOMAIN nano
      BY <2>4, WorldIs DEF Fields, Nanoed
    <3>2. /\ row' = row /\ snapshot' = snapshot /\ nano' = nano
          /\ dev' \in {dev, [dev EXCEPT !.sealed = t, !.escrowed = TRUE]}
      BY <1>4 DEF HandleSetToken
    <3>3. QED BY <3>1, <3>2 DEF DevFields
  <2>6. QED BY <2>1, <2>3, <2>5, NextAside
<1>5. CASE HandleCheckOut
  <2> DEFINE v == [Fail(World, Certs, "failed") EXCEPT
                      !.dev.state = "unenrolled", !.dev.sealed = None, !.dev.escrowed = FALSE]
  <2>1. Arrives(Out) /\ mac' = mac /\ (UNCHANGED server \/ Become(v))
    BY <1>5 DEF HandleCheckOut, Out
  <2>2. /\ LInv(World, mac, inbox) /\ Len(inbox) > 0 /\ inbox' = RemoveAt(inbox, 1)
        /\ inbox[1] = Out
    BY <2>1, FirstArrives DEF LockInv
  <2>3. LInv(World, mac, inbox') /\ LInv(v, mac, inbox')
    BY <2>2, CheckOutKeeps
  <2> HIDE DEF v
  <2>4. QED BY <2>1, <2>3, NextSame, BecomesLInv
<1>6. ASSUME NEW c \in Certs, NEW F \in Faults, HandleAcknowledged(c, F)
      PROVE  LInv(World', mac', inbox')
  <2> DEFINE done == [World EXCEPT !.row[c].task = "done"]
             v == IF World.row[c].bound = 0 THEN done ELSE Finish(done, c, F)
  <2>1. /\ Arrives(Msg("Acknowledged", c)) /\ mac' = mac
        /\ Become(IF ~Answerable(c) THEN World ELSE v)
    BY <1>6, WorldIs DEF HandleAcknowledged
  <2>2. /\ LInv(World, mac, inbox) /\ Len(inbox) > 0 /\ inbox' = RemoveAt(inbox, 1)
        /\ inbox[1] = Msg("Acknowledged", c)
    BY <2>1, FirstArrives DEF LockInv
  <2>3. Answerable(c) => Open(World, c)
    BY <2>2, WorldIs DEF LInv, Rows, Tasks, Answerable, Open
  <2>4. LInv(World, mac, inbox')
    BY <2>2, TakenOnly DEF Msg, CheckIns
  <2>5. Open(World, c) => LInv(v, mac, inbox')
    BY <2>2, AckKeeps
  <2> HIDE DEF v
  <2>6. QED BY <2>1, <2>3, <2>4, <2>5, BecomesLInv
<1>7. ASSUME NEW c \in Certs, NEW F \in Faults, HandleError(c, F)
      PROVE  LInv(World', mac', inbox')
  <2> DEFINE v == RollBack([World EXCEPT !.row[c].task = "failed"], c, F)
  <2>1. /\ Arrives(Msg("Error", c)) /\ mac' = mac
        /\ Become(IF ~Answerable(c) THEN World ELSE v)
    BY <1>7 DEF HandleError
  <2>2. /\ LInv(World, mac, inbox) /\ Len(inbox) > 0 /\ inbox' = RemoveAt(inbox, 1)
        /\ inbox[1] = Msg("Error", c)
    BY <2>1, FirstArrives DEF LockInv
  <2>3. Answerable(c) => Open(World, c)
    BY <2>2, WorldIs DEF LInv, Rows, Tasks, Answerable, Open
  <2>4. LInv(World, mac, inbox')
    BY <2>2, TakenOnly DEF Msg, CheckIns
  <2>5. Open(World, c) => LInv(v, mac, inbox')
    BY <2>2, ErrorKeeps
  <2> HIDE DEF v
  <2>6. QED BY <2>1, <2>3, <2>4, <2>5, BecomesLInv
<1>8. QED BY <1>1, <1>2, <1>3, <1>4, <1>5, <1>6, <1>7 DEF Handle

LEMMA MinuteLock == ASSUME LockInv, mishaps' = 0, Minute PROVE LInv(World', mac', inbox')
<1>0. /\ LInv(World, mac, inbox) /\ mac' = mac /\ inbox' = inbox
      /\ Fields(World) /\ Nanoed(World) /\ Shaped(World) /\ nano.id \in Certs
      /\ DevFields \subseteq DOMAIN dev /\ NanoFields \subseteq DOMAIN nano
      /\ DOMAIN nano.assoc = Certs
  <2>1. mishaps = 0 /\ mac' = mac /\ inbox' = inbox
    BY DEF Minute, Reconcile, RetryRefusalRestore, RetryBootstrapRestore, CaptureToken, LockInv
  <2>2. LInv(World, mac, inbox)
    BY <2>1 DEF LockInv
  <2>3. QED BY <2>1, <2>2, WorldIs, ShapedFields DEF LInv, Rows, Recorded, Fields, Nanoed
<1>1. ASSUME NEW F \in Faults, Reconcile(F) PROVE LInv(World', mac', inbox')
  <2> DEFINE c == nano.id
  <2>1. Become(IF Stands(World, c) /\ ~Takeover(World, c) THEN Accept(World, c, "none", F)
               ELSE Refuse(World, c, F))
    BY <1>1 DEF Reconcile
  <2>2. CASE Stands(World, c) /\ ~Takeover(World, c)
    <3>1. /\ Shaped(Accept(World, c, "none", F))
          /\ Accepts(World, Accept(World, c, "none", F), c)
      BY <1>0, AcceptDoes
    <3>2. LInv(Accept(World, c, "none", F), mac, inbox)
      BY <1>0, <2>2, <3>1, WorldIs, AcceptedKeeps
    <3>3. Become(Accept(World, c, "none", F))
      BY <2>1, <2>2
    <3>4. QED BY <1>0, <3>2, <3>3, BecomesLInv
  <2>3. CASE ~(Stands(World, c) /\ ~Takeover(World, c))
    <3>1. ~Renewed(World)
      BY <1>0, <2>3, WorldIs, RenewalsStand
    <3>2. LInv(Refuse(World, c, F), mac, inbox)
      BY <1>0, <3>1, RefuseKeepsAll
    <3>3. Become(Refuse(World, c, F))
      BY <2>1, <2>3
    <3>4. QED BY <1>0, <3>2, <3>3, BecomesLInv
  <2>4. QED BY <2>2, <2>3
<1>2. CASE RetryRefusalRestore
  <2>1. /\ row' = row /\ dev' = dev /\ snapshot' = snapshot
        /\ nano' = nano \/ (dev.pem # None /\ nano' = [nano EXCEPT !.id = dev.pem])
    BY <1>2 DEF RetryRefusalRestore
  <2>2. CASE nano' = nano
    BY <1>0, <2>1, <2>2, NextAside
  <2>3. CASE dev.pem # None /\ nano' = [nano EXCEPT !.id = dev.pem]
    <3>1. dev.id # None /\ dev.pem = dev.id
      BY <1>0, <2>3, WorldIs DEF LInv, Identified
    <3>2. nano'.id = dev.id /\ nano'.assoc = nano.assoc /\ NanoFields \subseteq DOMAIN nano'
      BY <1>0, <2>3, <3>1 DEF NanoFields
    <3>3. Shaped(World')
      BY <1>0, <2>1, <3>2, WorldIs, NextShaped
    <3>4. LInv(World', mac, inbox)
      BY <1>0, <2>1, <3>1, <3>2, <3>3, WorldIs, OwnKeeps
    <3>5. QED BY <1>0, <3>4
  <2>4. QED BY <2>1, <2>2, <2>3
<1>3. CASE RetryBootstrapRestore
  <2>1. Become(WriteToken(World)) /\ LInv(WriteToken(World), mac, inbox)
    BY <1>0, <1>3, TokensAside, AsideKeeps DEF RetryBootstrapRestore
  <2>2. QED BY <1>0, <2>1, BecomesLInv
<1>4. CASE CaptureToken
  <2>1. Become(Capture(World, FALSE)) /\ LInv(Capture(World, FALSE), mac, inbox)
    BY <1>0, <1>4, TokensAside, AsideKeeps DEF CaptureToken
  <2>2. QED BY <1>0, <2>1, BecomesLInv
<1>5. QED BY <1>1, <1>2, <1>3, <1>4 DEF Minute

LEMMA RowTaken ==
  ASSUME NEW w, Shaped(w), NEW c \in Certs, NEW r, w.row[c].kind = "free",
         RowFields \subseteq DOMAIN r, r.task # "none" => r.kind = "renewal",
         r.kind # "free", r.bound = 0
  PROVE  LET v == WithRow(w, c, r)
         IN  /\ Shaped(v) /\ v.row = [w.row EXCEPT ![c] = r] /\ v.row[c] = r
             /\ \A b \in Certs \ {c} : SameRow(w, v, b)
             /\ v.dev = w.dev /\ v.nano = w.nano /\ v.snapshot = w.snapshot
<1> DEFINE v == WithRow(w, c, r)
<1>0. Sound(w) /\ Rowed(w) /\ Fields(w) /\ Nanoed(w)
  BY ShapedFields DEF Shaped
<1>1. /\ Rowed(v) /\ v.snapshot = w.snapshot /\ v.row[c] = r
      /\ \A b \in Certs \ {c} : v.row[b] = w.row[b]
  BY <1>0, WithRowIs
<1>2. v.row = [w.row EXCEPT ![c] = r] /\ v.dev = w.dev /\ v.nano = w.nano
  BY <1>0 DEF WithRow, Fields
<1>3. Sound(v)
  BY <1>0, NewRow
<1> HIDE DEF v
<1>4. Shaped(v)
  BY <1>0, <1>2, <1>3 DEF Shaped, Nanoed
<1>5. \A b \in Certs \ {c} : SameRow(w, v, b)
  BY <1>1 DEF SameRow
<1>6. QED BY <1>1, <1>2, <1>4, <1>5 DEF v

LEMMA AuthenticatedIs ==
  ASSUME NEW c \in Certs, NanoFields \subseteq DOMAIN nano, DOMAIN nano.assoc = Certs
  PROVE  LET a == Authenticated(c)
         IN  /\ a.id = c /\ NanoFields \subseteq DOMAIN a /\ DOMAIN a.assoc = Certs
             /\ \A b \in Certs \ {c} : a.assoc[b] = nano.assoc[b]
             /\ a.assoc[c] \in Held
             /\ nano.assoc[c] = "no" => a.assoc[c] = "young"
<1> DEFINE s == IF nano.assoc[c] \in Held THEN nano.assoc[c] ELSE "young"
           assoc == [nano.assoc EXCEPT ![c] = s]
           a == Authenticated(c)
<1>1. /\ a.id = c /\ NanoFields \subseteq DOMAIN a /\ a.assoc = assoc
  BY DEF Authenticated, NanoFields
<1>2. /\ DOMAIN assoc = Certs /\ assoc[c] = s
      /\ \A b \in Certs \ {c} : assoc[b] = nano.assoc[b]
  OBVIOUS
<1>3. s \in Held /\ (nano.assoc[c] = "no" => s = "young")
  BY DEF Held
<1> HIDE DEF a, assoc, s
<1>4. QED BY <1>1, <1>2, <1>3 DEF a

LEMMA IssueLock == ASSUME LockInv, mishaps' = 0, Issue PROVE LInv(World', mac', inbox')
<1>0. ASSUME mishaps' = mishaps
      PROVE  /\ LInv(World, mac, inbox)
             /\ Fields(World) /\ Nanoed(World) /\ Shaped(World) /\ nano.id \in Certs
             /\ DevFields \subseteq DOMAIN dev /\ NanoFields \subseteq DOMAIN nano
             /\ DOMAIN nano.assoc = Certs
  <2>1. LInv(World, mac, inbox)
    BY <1>0 DEF LockInv
  <2>2. QED BY <2>1, WorldIs, ShapedFields DEF LInv, Rows, Recorded, Fields, Nanoed
<1>1. ASSUME NEW c \in Certs, Renew(c) PROVE LInv(World', mac', inbox')
  <2> DEFINE k == CopyKept(World)
             r == [FreeRow EXCEPT !.kind = "renewal", !.live = TRUE, !.task = "open",
                                  !.pem = nano.id]
             v == WithRow(k, c, r)
  <2>1. mac' = mac /\ inbox' = inbox /\ mishaps' = mishaps /\ row[c].kind = "free"
    BY <1>1 DEF Renew, NextCert
  <2>2. LInv(k, mac, inbox) /\ Aside(World, k)
    BY <1>0, <2>1, TokensAside, AsideKeeps
  <2>3. Become(v)
    <3>1. Become([k EXCEPT !.row[c] = r])
      BY <1>1 DEF Renew
    <3> HIDE DEF k, r
    <3>2. QED BY <3>1 DEF WithRow
  <2>4. /\ Enrolled(World) /\ \A b \in Certs : ~Open(World, b)
        /\ Assoc(World) = {nano.id} /\ dev.id \in {None, nano.id}
    BY <1>1 DEF Renew
  <2>5. /\ RowFields \subseteq DOMAIN r /\ r.kind = "renewal" /\ r.task = "open"
        /\ r.live = TRUE /\ r.bound = 0
    BY DEF RowFields, FreeRow
  <2> HIDE DEF k, r
  <2>6. /\ k.row = row /\ k.nano.id = nano.id /\ k.nano.assoc = nano.assoc
        /\ k.dev.id = dev.id /\ k.dev.state = dev.state /\ Shaped(k)
    BY <2>2, WorldIs DEF Aside, LInv, Rows
  <2>7. /\ Shaped(v) /\ v.row[c] = r /\ \A b \in Certs \ {c} : SameRow(k, v, b)
        /\ v.dev = k.dev /\ v.nano = k.nano /\ v.snapshot = k.snapshot
    <3>1. k.row[c].kind = "free" /\ r.kind # "free"
      BY <2>1, <2>5, <2>6
    <3>2. /\ Shaped(v) /\ v.row = [k.row EXCEPT ![c] = r] /\ v.row[c] = r
          /\ \A b \in Certs \ {c} : SameRow(k, v, b)
          /\ v.dev = k.dev /\ v.nano = k.nano /\ v.snapshot = k.snapshot
      BY <2>5, <2>6, <3>1, RowTaken
    <3>3. QED BY <3>2
  <2> HIDE DEF v
  <2>8. Taken(k, v, c)
    BY <2>1, <2>5, <2>6, <2>7 DEF Taken
  <2>9. /\ Enrolled(k) /\ Assoc(k) = {k.nano.id} /\ k.dev.id \in {None, k.nano.id}
        /\ \A b \in Certs : ~Open(k, b)
    BY <2>4, <2>6, WorldIs DEF Enrolled, Assoc, Open
  <2>10. LInv(v, mac, inbox)
    BY <2>2, <2>5, <2>7, <2>8, <2>9, RenewKeeps
  <2>11. QED BY <2>1, <2>3, <2>10, BecomesLInv
<1>2. ASSUME NEW c \in Certs, NEW how, EndTask(c, how) PROVE FALSE
  BY <1>2 DEF EndTask, Mishap, LockInv
<1>3. CASE Allow
  <2>1. /\ UNCHANGED <<row, snapshot, nano, mac, inbox, mishaps>>
        /\ dev' = [dev EXCEPT !.allowance = TRUE]
    BY <1>3 DEF Allow
  <2>2. /\ dev'.id = dev.id /\ dev'.pem = dev.pem /\ dev'.state = dev.state
        /\ DevFields \subseteq DOMAIN dev'
    BY <1>0, <2>1 DEF DevFields
  <2>3. QED BY <1>0, <2>1, <2>2, NextAside
<1>4. CASE AgeAssociations
  <2> DEFINE assoc == [c \in Certs |-> IF nano.assoc[c] = "young" THEN "aged"
                                       ELSE nano.assoc[c]]
  <2>1. /\ UNCHANGED <<row, dev, snapshot, mac, inbox, mishaps>>
        /\ nano' = [nano EXCEPT !.assoc = assoc]
    BY <1>4 DEF AgeAssociations
  <2>2. /\ DOMAIN assoc = Certs
        /\ \A b \in Certs : /\ assoc[b] \in Held <=> nano.assoc[b] \in Held
                            /\ assoc[b] = "no" <=> nano.assoc[b] = "no"
    BY DEF Held
  <2>3. /\ nano'.id = nano.id /\ NanoFields \subseteq DOMAIN nano' /\ nano'.assoc = assoc
    <3> HIDE DEF assoc
    <3>1. QED BY <1>0, <2>1 DEF NanoFields
  <2> HIDE DEF assoc
  <2>4. Shaped(World')
    BY <1>0, <2>1, <2>2, <2>3, WorldIs, NextShaped
  <2>5. Alike(World, World')
    BY <2>1, <2>2, <2>3, <2>4, WorldIs DEF Alike, SameRow
  <2>6. QED BY <1>0, <2>1, <2>5, AlikeKeeps
<1>5. CASE RefusalLapses
  BY <1>0, <1>5, NextAside DEF RefusalLapses
<1>6. QED BY <1>1, <1>2, <1>3, <1>4, <1>5 DEF Issue

LEMMA OutsideLock == ASSUME LockInv, mishaps' = 0, Outside PROVE LInv(World', mac', inbox')
<1>0. ASSUME mishaps' = mishaps
      PROVE  /\ LInv(World, mac, inbox) /\ Shape(mac, inbox) /\ Rows(World)
             /\ Identified(World)
             /\ Fields(World) /\ Nanoed(World) /\ Shaped(World) /\ Sound(World)
             /\ DevFields \subseteq DOMAIN dev /\ NanoFields \subseteq DOMAIN nano
             /\ DOMAIN nano.assoc = Certs /\ MacFields \subseteq DOMAIN mac
  <2>1. LInv(World, mac, inbox)
    BY <1>0 DEF LockInv
  <2>2. Shape(mac, inbox) /\ Rows(World) /\ Shaped(World) /\ Identified(World)
    BY <2>1 DEF LInv, Rows, Asked
  <2>3. QED BY <2>1, <2>2, WorldIs, ShapedFields DEF Shape, Fields, Nanoed, Shaped
<1>1. ASSUME NEW c \in Certs, MacRenews(c) PROVE LInv(World', mac', inbox')
  <2>1. /\ row[c].kind = "renewal" /\ ~row[c].used /\ row[c].live
        /\ mac.using # None /\ mac.trying = None /\ c \notin mac.answered
        /\ row' = [row EXCEPT ![c].used = TRUE] /\ mac' = [mac EXCEPT !.trying = c]
        /\ UNCHANGED <<dev, snapshot, nano, inbox, mishaps>>
    BY <1>1 DEF MacRenews
  <2>2. Shaped(World')
    <3> DEFINE w == [World EXCEPT !.row = [row EXCEPT ![c].used = TRUE]]
    <3>1. /\ w.row = [row EXCEPT ![c].used = TRUE] /\ w.snapshot = snapshot /\ w.nano = nano
          /\ Fields(w)
      BY <1>0, <2>1, WorldIs DEF Fields, World
    <3> HIDE DEF w
    <3>2. /\ DOMAIN w.row = Certs
          /\ \A b \in Certs : /\ RowFields \subseteq DOMAIN w.row[b]
                              /\ w.row[b].kind = row[b].kind /\ w.row[b].bound = row[b].bound
                              /\ w.row[b].holds = row[b].holds
                              /\ w.row[b].task = row[b].task
      BY <1>0, <2>1, <3>1, WorldIs DEF Sound, Rowed, RowFields
    <3>3. Kept(World, w)
      BY <3>1, <3>2, WorldIs DEF Kept, Rowed
    <3>4. Shaped(w)
      BY <1>0, <2>1, <3>1, <3>3, KeptIsSound, WorldIs DEF Shaped, Nanoed
    <3>5. QED BY <1>0, <2>1, <3>1, <3>4, NextShaped
  <2>3. LInv(World', mac', inbox)
    BY <1>0, <2>1, <2>2, WorldIs, RenewsKeeps
  <2>4. QED BY <2>1, <2>3
<1>2. CASE MacAuthenticates
  <2>1. /\ mac.trying # None /\ nano.assoc[mac.trying] = "no"
        /\ nano' = Authenticated(mac.trying)
        /\ inbox' = Append(inbox, Msg("Authenticate", 0))
        /\ UNCHANGED <<row, dev, snapshot, mac, mishaps>>
    BY <1>2 DEF MacAuthenticates, Send
  <2>2. mac.trying \in Certs
    BY <1>0, <2>1 DEF Shape
  <2>3. /\ nano'.id = mac.trying /\ NanoFields \subseteq DOMAIN nano'
        /\ DOMAIN nano'.assoc = Certs /\ nano'.assoc[mac.trying] = "young"
        /\ \A b \in Certs \ {mac.trying} : nano'.assoc[b] = nano.assoc[b]
    BY <1>0, <2>1, <2>2, AuthenticatedIs
  <2>4. Shaped(World')
    BY <1>0, <2>1, <2>3, WorldIs, NextShaped
  <2>5. LInv(World', mac, Append(inbox, Msg("Authenticate", 0)))
    BY <1>0, <2>1, <2>3, <2>4, WorldIs, AuthenticatesKeeps
  <2>6. QED BY <2>1, <2>5
<1>3. CASE MacConfirms
  <2>1. /\ mac.trying # None /\ mac.trying \in Assoc(World)
        /\ mac' = [mac EXCEPT !.using = mac.trying, !.trying = None]
        /\ inbox' = Append(inbox, Msg("TokenUpdate", 0))
        /\ UNCHANGED server /\ mishaps' = mishaps
    BY <1>3 DEF MacConfirms, Send
  <2>2. LInv(World, mac', inbox')
    BY <1>0, <2>1, ConfirmsKeeps
  <2>3. QED BY <2>1, <2>2, NextSame
<1>4. ASSUME NEW c \in Certs, MacAcknowledges(c) PROVE LInv(World', mac', inbox')
  <2>1. /\ row[c].kind = "renewal" /\ mac.using = c /\ c \notin mac.answered
        /\ mac' = [mac EXCEPT !.answered = mac.answered \cup {c}]
        /\ inbox' = Append(inbox, Msg("Acknowledged", c))
        /\ UNCHANGED server /\ mishaps' = mishaps
    BY <1>4 DEF MacAcknowledges, Send
  <2>2. /\ mac'.using = mac.using /\ mac'.trying = mac.trying /\ mac'.tokens = mac.tokens
        /\ mac'.answered = mac.answered \cup {c} /\ MacFields \subseteq DOMAIN mac'
    BY <1>0, <2>1 DEF MacFields
  <2>3. mac.using # None /\ mac.trying # c
    <3>1. c # None
      BY CertsAssumption DEF None
    <3>2. QED BY <1>0, <2>1, <3>1 DEF LInv, Asked, Tries
  <2>4. LInv(World, mac', inbox')
    BY <1>0, <2>1, <2>2, <2>3, WorldIs, AnswersKeeps
  <2>5. QED BY <2>1, <2>4, NextSame
<1>5. ASSUME NEW c \in Certs, MacFails(c) PROVE LInv(World', mac', inbox')
  <2>1. /\ row[c].kind = "renewal" /\ mac.using \in Assoc(World) \ {c} /\ c \notin mac.answered
        /\ mac' = [mac EXCEPT !.trying = None, !.answered = mac.answered \cup {c}]
        /\ inbox' = Append(inbox, Msg("Error", c))
        /\ UNCHANGED server /\ mishaps' = mishaps
    BY <1>5 DEF MacFails, Send
  <2>2. /\ mac'.using = mac.using /\ mac'.trying = None /\ mac'.tokens = mac.tokens
        /\ mac'.answered = mac.answered \cup {c} /\ MacFields \subseteq DOMAIN mac'
    BY <1>0, <2>1 DEF MacFields
  <2>3. mac.using # None /\ mac.using # c /\ c # None
    BY <2>1, CertsAssumption DEF Assoc, None
  <2>4. LInv(World, mac', inbox')
    BY <1>0, <2>1, <2>2, <2>3, WorldIs, AnswersKeeps
  <2>5. QED BY <2>1, <2>4, NextSame
<1>6. CASE MacTokenUpdate
  <2>1. /\ inbox' = Append(inbox, Msg("TokenUpdate", 0)) /\ UNCHANGED server
        /\ mac' = mac /\ mishaps' = mishaps
    BY <1>6 DEF MacTokenUpdate, Send
  <2>2. Msg("TokenUpdate", 0) \in Msgs /\ Msg("TokenUpdate", 0).topic \in CheckIns
    BY MsgsDiffer DEF Topics, CheckIns
  <2>3. LInv(World, mac, inbox')
    BY <1>0, <2>1, <2>2, SendKeeps
  <2>4. QED BY <2>1, <2>3, NextSame
<1>7. CASE MacSetsToken
  <2> DEFINE t == mac.tokens + 1
  <2>1. /\ mac' = [mac EXCEPT !.tokens = t, !.token = t]
        /\ nano' = [nano EXCEPT !.token = t, !.stamped = TRUE]
        /\ inbox' = Append(inbox, Msg("SetToken", t))
        /\ UNCHANGED <<row, dev, snapshot, mishaps>>
    BY <1>7 DEF MacSetsToken, Send
  <2>2. t \in Nat
    BY <1>0, <2>1 DEF Shape
  <2> HIDE DEF t
  <2>3. Msg("SetToken", t) \in Msgs /\ Msg("SetToken", t).topic = "SetToken"
    BY <2>2, MsgsDiffer DEF Topics
  <2>4. LInv(World, mac, inbox')
    BY <1>0, <2>1, <2>3, SendKeeps
  <2>5. /\ mac'.using = mac.using /\ mac'.trying = mac.trying /\ mac'.tokens = t
        /\ mac'.answered = mac.answered /\ MacFields \subseteq DOMAIN mac'
    BY <1>0, <2>1 DEF MacFields
  <2>6. LInv(World, mac', inbox')
    BY <2>2, <2>4, <2>5, MacAlike
  <2>7. nano'.id = nano.id /\ nano'.assoc = nano.assoc /\ NanoFields \subseteq DOMAIN nano'
    BY <1>0, <2>1 DEF NanoFields
  <2>8. QED BY <1>0, <2>1, <2>6, <2>7, NextAside
<1>8. ASSUME NEW c \in Certs, NEW kind, NEW erased, MacEnrolls(c, kind, erased)
      PROVE  LInv(World', mac', inbox')
  <2> DEFINE r == [FreeRow EXCEPT !.kind = kind, !.used = TRUE]
             v == WithRow(World, c, r)
  <2>1. /\ row[c].kind = "free" /\ kind \in {"manual", "ade", "rts"} /\ inbox = <<>>
        /\ row' = [row EXCEPT ![c] = r]
        /\ mac' = [mac EXCEPT !.using = c, !.trying = None, !.token = None,
                              !.answered = Issued]
        /\ dev' = [dev EXCEPT !.erased = dev.erased \/ erased]
        /\ nano' = Authenticated(c)
        /\ inbox' = Append(inbox, Msg("Authenticate", 0))
        /\ snapshot' = snapshot /\ mishaps' = mishaps
    BY <1>8 DEF MacEnrolls, NextCert, Quiet, Send
  <2>2. /\ RowFields \subseteq DOMAIN r /\ r.kind = kind /\ r.task = "none"
        /\ r.live = FALSE /\ r.bound = 0
    BY DEF RowFields, FreeRow
  <2> HIDE DEF r
  <2>3. /\ Shaped(v) /\ v.row = [World.row EXCEPT ![c] = r] /\ v.row[c] = r
        /\ \A b \in Certs \ {c} : SameRow(World, v, b)
        /\ v.snapshot = World.snapshot
    <3>1. World.row[c].kind = "free" /\ r.kind # "free"
      BY <2>1, <2>2, WorldIs
    <3>2. QED BY <1>0, <2>1, <2>2, <3>1, RowTaken
  <2> HIDE DEF v
  <2>4. /\ dev'.id = dev.id /\ dev'.pem = dev.pem /\ dev'.state = dev.state
        /\ DevFields \subseteq DOMAIN dev'
    BY <1>0, <2>1 DEF DevFields
  <2>5. /\ nano'.id = c /\ NanoFields \subseteq DOMAIN nano'
        /\ DOMAIN nano'.assoc = Certs /\ nano'.assoc[c] \in Held
        /\ \A b \in Certs \ {c} : nano'.assoc[b] = nano.assoc[b]
    BY <1>0, <2>1, AuthenticatedIs
  <2>6. Shaped(World')
    BY <2>1, <2>3, <2>4, <2>5, WorldIs, NextShaped
  <2>7. Taken(World, World', c)
    BY <2>1, <2>2, <2>3, <2>4, <2>5, WorldIs DEF Taken, SameRow
  <2>8. /\ World'.row[c].kind \notin {"legacy", "renewal"} /\ World'.row[c].task = "none"
        /\ ~World'.row[c].live
    BY <2>1, <2>2, <2>3, WorldIs
  <2>9. /\ mac'.using = c /\ mac'.trying = None /\ mac'.tokens = mac.tokens
        /\ mac'.answered = {b \in Certs : World.row[b].kind # "free"}
        /\ MacFields \subseteq DOMAIN mac'
    BY <1>0, <2>1, WorldIs DEF MacFields, Issued
  <2>10. LInv(World', mac', Append(<<>>, Msg("Authenticate", 0)))
    BY <1>0, <2>1, <2>5, <2>6, <2>7, <2>8, <2>9, WorldIs, EnrollsKeeps
  <2>11. QED BY <2>1, <2>10
<1>9. CASE MacChecksOut
  <2>1. /\ mac' = [mac EXCEPT !.using = None, !.trying = None, !.token = None,
                              !.answered = Issued]
        /\ inbox' = Append(inbox, Out) /\ UNCHANGED server /\ mishaps' = mishaps
    BY <1>9 DEF MacChecksOut, Send, Out
  <2>2. /\ mac'.using = None /\ mac'.trying = None /\ mac'.tokens = mac.tokens
        /\ mac'.answered = {b \in Certs : World.row[b].kind # "free"}
        /\ MacFields \subseteq DOMAIN mac'
    BY <1>0, <2>1, WorldIs DEF MacFields, Issued
  <2>3. LInv(World, mac', inbox')
    BY <1>0, <2>1, <2>2, ChecksOutKeeps
  <2>4. QED BY <2>1, <2>3, NextSame
<1>10. ASSUME NEW c \in Certs, OtherAuthenticates(c) PROVE LInv(World', mac', inbox')
  <2> DEFINE r == [row[c] EXCEPT !.kind = "stray"]
             v == WithRow(World, c, r)
  <2>1. /\ row[c].kind = "free" /\ inbox = <<>>
        /\ row' = [row EXCEPT ![c] = r]
        /\ nano' = Authenticated(c)
        /\ inbox' = Append(inbox, Msg("Authenticate", 0))
        /\ UNCHANGED <<dev, snapshot, mac, mishaps>>
    BY <1>10 DEF OtherAuthenticates, NextCert, Quiet, Send
  <2>2. /\ RowFields \subseteq DOMAIN r /\ r.kind = "stray" /\ r.task = "none"
        /\ ~r.live /\ r.bound = 0
    <3>1. RowFields \subseteq DOMAIN row[c]
      BY <1>0, <2>1, WorldIs DEF Sound, Rowed
    <3>2. row[c].task = "none" /\ ~row[c].live /\ row[c].bound = 0
      BY <1>0, <2>1, WorldIs DEF Sound, Rows, Tasks
    <3>3. QED BY <3>1, <3>2 DEF RowFields
  <2> HIDE DEF r
  <2>3. /\ Shaped(v) /\ v.row = [World.row EXCEPT ![c] = r] /\ v.row[c] = r
        /\ \A b \in Certs \ {c} : SameRow(World, v, b)
        /\ v.snapshot = World.snapshot
    <3>1. World.row[c].kind = "free" /\ r.kind # "free"
      BY <2>1, <2>2, WorldIs
    <3>2. QED BY <1>0, <2>1, <2>2, <3>1, RowTaken
  <2> HIDE DEF v
  <2>5. /\ nano'.id = c /\ NanoFields \subseteq DOMAIN nano'
        /\ DOMAIN nano'.assoc = Certs /\ nano'.assoc[c] \in Held
        /\ \A b \in Certs \ {c} : nano'.assoc[b] = nano.assoc[b]
    BY <1>0, <2>1, AuthenticatedIs
  <2>6. Shaped(World')
    BY <1>0, <2>1, <2>3, <2>5, WorldIs, NextShaped
  <2>7. Taken(World, World', c)
    BY <2>1, <2>2, <2>3, <2>5, WorldIs DEF Taken, SameRow
  <2>8. /\ World'.row[c].kind = "stray" /\ World'.row[c].task = "none"
        /\ ~World'.row[c].live
    BY <2>1, <2>2, <2>3, WorldIs
  <2>9. LInv(World', mac, Append(<<>>, Msg("Authenticate", 0)))
    BY <1>0, <2>1, <2>5, <2>6, <2>7, <2>8, WorldIs, OtherKeeps
  <2>10. QED BY <2>1, <2>9
<1>11. ASSUME NEW c \in Certs, OtherSetsToken(c) PROVE LInv(World', mac', inbox')
  <2>1. /\ nano' = [nano EXCEPT !.token = Alien, !.stamped = TRUE]
        /\ inbox' = Append(inbox, Msg("SetToken", Alien))
        /\ UNCHANGED <<row, dev, snapshot, mac, mishaps>>
    BY <1>11 DEF OtherSetsToken, Send
  <2>2. Alien \in Nat
    BY BoundsAssumption DEF Alien
  <2>3. Msg("SetToken", Alien) \in Msgs /\ Msg("SetToken", Alien).topic = "SetToken"
    BY <2>2, MsgsDiffer DEF Topics
  <2>4. LInv(World, mac, inbox')
    BY <1>0, <2>1, <2>3, SendKeeps
  <2>5. nano'.id = nano.id /\ nano'.assoc = nano.assoc /\ NanoFields \subseteq DOMAIN nano'
    BY <1>0, <2>1 DEF NanoFields
  <2>6. QED BY <1>0, <2>1, <2>4, <2>5, NextAside
<1>12. CASE LoseWebhook
  BY <1>12 DEF LoseWebhook, Mishap, LockInv
<1>13. QED BY <1>1, <1>2, <1>3, <1>4, <1>5, <1>6, <1>7, <1>8, <1>9, <1>10, <1>11, <1>12
           DEF Outside

LEMMA InitLock == Init => LockInv
<1> SUFFICES ASSUME Init PROVE LInv(World, mac, inbox) /\ mishaps \in Nat
  BY DEF LockInv
<1>1. PICK kind \in FirstKinds, known \in BOOLEAN, t \in {None, MaxTokens} :
         /\ known \/ kind = "legacy"
         /\ row = [c \in Certs |-> IF c # 1 THEN FreeRow
                                   ELSE [FreeRow EXCEPT !.kind = kind, !.used = kind # "legacy",
                                           !.bound = IF kind = "legacy" THEN 0 ELSE 1,
                                           !.holds = kind # "legacy"]]
         /\ dev = [state |-> "enrolled", id |-> IF known THEN 1 ELSE None,
                   pem |-> IF known THEN 1 ELSE None, sealed |-> None,
                   escrowed |-> t # None, erased |-> FALSE, allowance |-> FALSE]
         /\ snapshot = IF kind = "legacy" THEN {1} ELSE {}
         /\ nano = [id |-> 1, assoc |-> [c \in Certs |-> IF c = 1 THEN "aged" ELSE "no"],
                    token |-> t, stamped |-> t # None]
         /\ mac = [using |-> 1, trying |-> None, answered |-> {}, token |-> t,
                   tokens |-> t]
  BY DEF Init
<1>2. inbox = <<>> /\ mishaps = 0 /\ 1 \in Certs /\ kind \in {"legacy", "manual", "ade"}
      /\ t \in Nat /\ 1 # None
  BY CertsAssumption, KindsAssumption, BoundsAssumption DEF Init, None
<1>3. /\ row[1].kind = kind /\ row[1].used = (kind # "legacy")
      /\ row[1].bound = (IF kind = "legacy" THEN 0 ELSE 1) /\ row[1].holds = (kind # "legacy")
      /\ row[1].live = FALSE /\ row[1].task = "none"
  <2>1. row[1] = [FreeRow EXCEPT !.kind = kind, !.used = kind # "legacy",
                                 !.bound = IF kind = "legacy" THEN 0 ELSE 1,
                                 !.holds = kind # "legacy"]
    BY <1>1, <1>2
  <2>2. QED BY <2>1 DEF FreeRow
<1>4. ASSUME NEW c \in Certs, c # 1
      PROVE  /\ row[c].kind = "free" /\ row[c].used = FALSE /\ row[c].bound = 0
             /\ row[c].live = FALSE /\ row[c].task = "none"
  <2>1. row[c] = FreeRow
    BY <1>1, <1>4
  <2>2. QED BY <2>1 DEF FreeRow
<1>5. /\ dev.state = "enrolled" /\ dev.id = (IF known THEN 1 ELSE None) /\ dev.pem = dev.id
      /\ nano.id = 1 /\ nano.assoc[1] = "aged"
      /\ NanoFields \subseteq DOMAIN nano /\ DOMAIN nano.assoc = Certs
      /\ mac.using = 1 /\ mac.trying = None /\ mac.answered = {} /\ mac.tokens = t
      /\ MacFields \subseteq DOMAIN mac
  BY <1>1, <1>2 DEF NanoFields, MacFields
<1>6. Shaped(World)
  BY <1>5, InitSound, WorldIs DEF Shaped, Nanoed
<1>7. snapshot = (IF kind = "legacy" THEN {1} ELSE {}) /\ (known \/ kind = "legacy")
  BY <1>1
<1>8. Bound(World) = IF kind = "legacy" THEN {} ELSE {1}
  <2>1. ASSUME NEW c \in Certs
        PROVE  (row[c].bound > 0 /\ row[c].holds) <=> (c = 1 /\ kind # "legacy")
    <3>1. CASE c = 1
      <4>1. CASE kind = "legacy"
        <5>1. row[c].bound = 0 BY <1>3, <3>1, <4>1
        <5>2. QED BY <4>1, <5>1
      <4>2. CASE kind # "legacy"
        <5>1. row[c].bound = 1 BY <1>3, <3>1, <4>2
        <5>2. row[c].holds = TRUE
          <6>1. row[c].holds = (kind # "legacy") BY <1>3, <3>1
          <6>2. (kind # "legacy") = TRUE BY <4>2
          <6>3. QED BY <6>1, <6>2
        <5>3. QED BY <3>1, <4>2, <5>1, <5>2
      <4>3. QED BY <4>1, <4>2
    <3>2. CASE c # 1
      <4>1. row[c].bound = 0 BY <1>4, <3>2
      <4>2. QED BY <3>2, <4>1
    <3>3. QED BY <3>1, <3>2
  <2>2. Bound(World) = {c \in Certs : c = 1 /\ kind # "legacy"}
    BY <2>1, WorldIs DEF Bound
  <2>3. QED BY <1>2, <2>2
<1>9. \A c \in Certs : ~Open(World, c)
  BY <1>3, <1>4, WorldIs DEF Open
<1>10. Rows(World)
  <2>1. Ranks(World)
    <3>1. ASSUME NEW c \in Certs, row[c].bound > 0 PROVE c = 1
      <4>1. ASSUME c # 1 PROVE FALSE
        <5>1. row[c].bound = 0 BY <1>4, <4>1
        <5>2. QED BY <3>1, <5>1
      <4>2. QED BY <4>1
    <3>2. SUFFICES ASSUME NEW b \in Certs, NEW c \in Certs, row[b].bound > 0,
                          row[b].bound = row[c].bound
                   PROVE  b = c
      BY WorldIs DEF Ranks
    <3>3. b = 1 BY <3>1, <3>2
    <3>4. row[c].bound > 0 BY <3>2
    <3>5. QED BY <3>1, <3>3, <3>4
  <2>4. OneOpen(World)
    BY <1>9 DEF OneOpen
  <2>5. ~Enrolled(World) => \A c \in Certs : ~Open(World, c)
    BY <1>9
  <2>2. Tasks(World)
    BY <1>2, <1>3, <1>4, <1>9, WorldIs DEF Tasks
  <2>3. QED BY <1>6, <1>7, <2>1, <2>2, <2>4, <2>5, WorldIs DEF Rows
<1>11. Identified(World)
  <2>1. 1 \in Assoc(World)
    BY <1>2, <1>5, WorldIs DEF Assoc, Held
  <2>2. kind # "legacy" => Latest(World, 1)
    BY <1>3, <1>8, WorldIs DEF Latest
  <2>3. QED BY <1>2, <1>5, <1>7, <1>8, <2>1, <2>2, WorldIs DEF Identified
<1>12. Recorded(World) /\ ~Renewed(World) /\ ~Pending(World)
  BY <1>2, <1>3, <1>5, <1>8, WorldIs DEF Recorded, Renewed, Pending, Fresh, AlreadyBound
<1>13. Asked(World, mac, inbox)
  <2>1. inbox \in Seq(Msgs) /\ \A y : ~OnTheWay(inbox, y)
    BY <1>2 DEF OnTheWay
  <2>2. \A c : Once(inbox, c)
    BY <1>2 DEF Once
  <2>3. Shape(mac, inbox) /\ Tries(World, mac) /\ Uses(World, mac)
    BY <1>2, <1>3, <1>5, <2>1, WorldIs DEF Shape, Tries, Uses
  <2>4. Answered(World, mac, inbox)
    BY <1>5, <2>1, <2>2 DEF Answered
  <2>5. QED BY <2>3, <2>4 DEF Asked
<1>14. Awaits(World, mac, inbox)
  BY <1>9, <1>12 DEF Awaits, Expected
<1>15. Keeps(World, mac)
  <2>1. Safe(World, mac)
    BY <1>2, <1>5, <1>7, WorldIs DEF Safe
  <2>2. QED BY <1>5, <1>12, <2>1, WorldIs DEF Keeps
<1>16. QED BY <1>2, <1>10, <1>11, <1>12, <1>13, <1>14, <1>15 DEF LInv

(* Mishaps are only ever counted.                                           *)
LEMMA MishapsCount ==
  ASSUME [Next]_vars, mishaps \in Nat
  PROVE  mishaps' \in Nat /\ (mishaps' = 0 => mishaps = 0)
<1>1. ASSUME NEW x, Arrives(x) PROVE mishaps' \in {mishaps, mishaps + 1}
  BY <1>1 DEF Arrives, Mishap
<1>2. Handle => mishaps' \in {mishaps, mishaps + 1}
  BY <1>1 DEF Handle, UpsertUnjudged, UpsertRefused, UpsertBound, SaveUpsert, HandleSetToken,
              HandleCheckOut, HandleAcknowledged, HandleError
<1>3. Minute => mishaps' = mishaps
  BY DEF Minute, Reconcile, RetryRefusalRestore, RetryBootstrapRestore, CaptureToken
<1>4. Issue => mishaps' \in {mishaps, mishaps + 1}
  BY DEF Issue, Renew, EndTask, Mishap, Allow, AgeAssociations, RefusalLapses
<1>5. Outside => mishaps' \in {mishaps, mishaps + 1}
  BY DEF Outside, MacRenews, MacFails, MacAcknowledges, OtherAuthenticates, OtherSetsToken,
         MacEnrolls, MacAuthenticates, MacConfirms, MacTokenUpdate, MacSetsToken, MacChecksOut,
         LoseWebhook, Mishap
<1>6. mishaps' \in {mishaps, mishaps + 1}
  BY <1>2, <1>3, <1>4, <1>5 DEF Next, vars
<1>7. QED BY <1>6

LEMMA LockStays == ASSUME LockInv, [Next]_vars PROVE LockInv'
<1>1. mishaps' \in Nat /\ (mishaps' = 0 => mishaps = 0)
  BY MishapsCount DEF LockInv
<1>2. ASSUME mishaps' = 0 PROVE LInv(World', mac', inbox')
  <2>1. CASE Next
    BY <1>2, <2>1, HandleLock, MinuteLock, IssueLock, OutsideLock DEF Next
  <2>2. CASE UNCHANGED vars
    <3>1. UNCHANGED server /\ mac' = mac /\ inbox' = inbox /\ LInv(World, mac, inbox)
      BY <1>1, <1>2, <2>2 DEF vars, server, LockInv
    <3>2. QED BY <3>1, NextSame
  <2>3. QED BY <2>1, <2>2
<1>3. QED BY <1>1, <1>2 DEF LockInv

(* The certificate the Mac uses is never pruned under it, however many      *)
(* certificates are issued, renewals fail and are rolled back, writes to    *)
(* NanoMDM's database fail and other machines call under its udid, as long  *)
(* as its webhooks come in order and its renewals end with its answer.      *)
THEOREM NeverLockedOut == Spec => []NoLockout
<1>1. Init => LockInv
  BY InitLock
<1>2. LockInv /\ [Next]_vars => LockInv'
  BY LockStays
<1>3. LockInv => NoLockout
  <2> SUFFICES ASSUME LockInv, mac.using # None,
                      row[mac.using].kind = "legacy" \/ row[mac.using].bound > 0, mishaps = 0
               PROVE  nano.assoc[mac.using] # "no"
    BY DEF NoLockout
  <2>1. Managed(World, mac) /\ Keeps(World, mac)
    BY WorldIs DEF LockInv, LInv, Managed, Accepted
  <2>2. QED BY <2>1, WorldIs DEF Keeps
<1>4. QED BY <1>1, <1>2, <1>3, PTL DEF Spec

----------------------------------------------------------------------------
(* The flag of the escrowed token.                                          *)
LEMMA TokTwice == ASSUME NEW w, NEW v, NEW x, Tok(w, v), Tok(v, x) PROVE Tok(w, x)
<1>1. Enrolled(v) <=> Enrolled(w)
  BY DEF Tok, Enrolled
<1>2. QED BY <1>1 DEF Tok

LEMMA TokKeeps ==
  ASSUME NEW w, NEW v, Tok(w, v), Tokened(w), Redone(w)
  PROVE  Tokened(v) /\ Redone(v) /\ (OnlyItself(v) => OnlyItself(w))
<1>1. Enrolled(v) <=> Enrolled(w)
  BY DEF Tok, Enrolled
<1>2. Tokened(v)
  BY <1>1 DEF Tok, Tokened
<1>3. Redone(v)
  BY DEF Tok, Redone
<1>4. OnlyItself(v) => OnlyItself(w)
  BY DEF Tok, OnlyItself
<1>5. QED BY <1>2, <1>3, <1>4

(* The same rows.                                                           *)
LEMMA SameRowsTok ==
  ASSUME NEW w, NEW v, Based(w), Fields(v), Nanoed(v), v.row = w.row
  PROVE  Based(v) /\ \A c \in Certs : /\ v.row[c].kind = w.row[c].kind
                                      /\ Open(v, c) => Open(w, c)
                                      /\ RolledBack(w, c) => RolledBack(v, c)
BY DEF Based, Rowed, Open, RolledBack

LEMMA RestTok ==
  ASSUME NEW w, NEW v, Based(w), Fields(v), Nanoed(v), Rest(w, v) PROVE Tok(w, v)
BY SameRowsTok DEF Rest, Tok, Flagged

LEMMA WriteTokenTok ==
  ASSUME NEW w, Based(w), w.dev.sealed # None
  PROVE  LET v == WriteToken(w)
         IN  /\ Fields(v) /\ Nanoed(v) /\ v.row = w.row /\ v.alarm = w.alarm
             /\ v.dev.state = w.dev.state /\ v.dev.sealed = w.dev.sealed
             /\ v.nano.token = w.dev.sealed /\ v.nano.id = w.nano.id
             /\ v.nano.assoc = w.nano.assoc /\ v.dev.id = w.dev.id /\ v.dev.pem = w.dev.pem
BY DEF WriteToken, Based, Rowed, Fields, DevFields, Nanoed, NanoFields

LEMMA TokensTok ==
  ASSUME NEW w, Based(w), NEW F, NEW flag
  PROVE  /\ Tok(w, w)
         /\ w.dev.sealed # None /\ Enrolled(w) => Tok(w, WriteToken(w))
         /\ Enrolled(w) => Tok(w, RestoreToken(w, F))
         /\ Tok(w, Capture(w, flag))
<1>1. Tok(w, w)
  BY DEF Tok
<1>2. ASSUME w.dev.sealed # None, Enrolled(w) PROVE Tok(w, WriteToken(w))
  <2> DEFINE v == WriteToken(w)
  <2>1. Fields(v) /\ Nanoed(v) /\ v.row = w.row /\ v.alarm = w.alarm
        /\ v.dev.state = w.dev.state /\ v.dev.sealed = w.dev.sealed
        /\ v.nano.token = w.dev.sealed
    BY <1>2, WriteTokenTok
  <2> HIDE DEF v
  <2>2. QED BY <1>2, <2>1, SameRowsTok DEF Tok, Flagged, v
<1>3. ASSUME Enrolled(w) PROVE Tok(w, RestoreToken(w, F))
  <2> DEFINE v == [w EXCEPT !.dev.escrowed = FALSE]
  <2>1. /\ Fields(v) /\ Nanoed(v) /\ v.row = w.row /\ v.alarm = w.alarm
        /\ v.dev.state = w.dev.state /\ v.dev.sealed = w.dev.sealed
        /\ v.nano = w.nano /\ v.dev.escrowed = FALSE
    BY DEF Based, Rowed, Fields, DevFields, Nanoed
  <2> HIDE DEF v
  <2>2. Tok(w, v)
    BY <2>1, SameRowsTok DEF Tok, Flagged
  <2>3. RestoreToken(w, F) \in {w, v} \/ (w.dev.sealed # None /\ RestoreToken(w, F) = WriteToken(w))
    BY DEF RestoreToken, Restores, v
  <2>4. QED BY <1>1, <1>2, <1>3, <2>2, <2>3
<1>4. Tok(w, Capture(w, flag))
  <2> DEFINE v == [w EXCEPT !.dev.sealed = w.nano.token, !.dev.escrowed = TRUE]
  <2>1. /\ Fields(v) /\ Nanoed(v) /\ v.row = w.row /\ v.alarm = w.alarm
        /\ v.dev.state = w.dev.state /\ v.dev.sealed = w.nano.token
        /\ v.nano = w.nano
    BY DEF Based, Rowed, Fields, DevFields, Nanoed
  <2>2. Capture(w, flag) = w \/ (Enrolled(w) /\ w.nano.token # None /\ Capture(w, flag) = v)
    BY DEF Capture
  <2> HIDE DEF v
  <2>3. Enrolled(w) /\ w.nano.token # None => Tok(w, v)
    BY <2>1, SameRowsTok DEF Tok, Flagged
  <2>4. QED BY <1>1, <2>2, <2>3
<1>5. QED BY <1>1, <1>2, <1>3, <1>4

LEMMA ShapedBased == ASSUME NEW w, Shaped(w) PROVE Based(w)
BY ShapedFields DEF Based

(* An acceptance; one of a new install takes the flag down, one that has a  *)
(* sealed token to put back does so, or takes the flag down.                *)
LEMMA AcceptTok ==
  ASSUME NEW w, Shaped(w), NEW c \in Certs, ~RolledBack(w, c), NEW topic, NEW F
  PROVE  LET v == Accept(w, c, topic, F)
         IN  /\ Tok(w, v)
             /\ NewInstall(w, c) => ~Flagged(v)
             /\ /\ Tokened(w) /\ w.dev.sealed # None /\ ~NewInstall(w, c)
                /\ SameInstall(w, c, topic)
                => ~Flagged(v)
<1> DEFINE written == [BindRow(w, c) EXCEPT !.dev = WriteDevice(w, c)]
           same == SameInstall(w, c, topic)
           renewal == w.row[c].kind = "renewal"
           restored == IF same THEN RestoreToken(written, F) ELSE written
           keep == (Allowed(restored) \cup {c} \cup (IF renewal THEN {w.dev.id} ELSE {}))
                     \ {None}
           pruned == Prune(restored, keep, F)
           b1 == BindRow(w, c)
<1>1. /\ Shaped(b1) /\ b1.dev = w.dev /\ b1.nano = w.nano
      /\ \A b \in Certs \ {c} : SameRow(w, b1, b)
      /\ b1.row[c].kind = w.row[c].kind /\ b1.row[c].task = w.row[c].task
  BY BindRowDoes
<1>2. b1.alarm = w.alarm
  BY ShapedFields DEF BindRow, Fields
<1>3. /\ Based(written) /\ written.row = b1.row /\ written.alarm = w.alarm
      /\ written.nano = w.nano /\ written.dev = WriteDevice(w, c)
  <2>1. Fields(w) /\ Rowed(b1) /\ Fields(b1) /\ Nanoed(b1)
    BY <1>1, ShapedFields
  <2>2. DevFields \subseteq DOMAIN WriteDevice(w, c)
    BY <2>1 DEF WriteDevice, Fields, DevFields
  <2> HIDE DEF b1
  <2>3. written = [b1 EXCEPT !.dev = WriteDevice(w, c)]
    BY DEF b1
  <2> HIDE DEF written
  <2>4. /\ {"row", "dev", "snapshot", "nano", "alarm"} \subseteq DOMAIN written
        /\ written.row = b1.row /\ written.nano = b1.nano /\ written.alarm = b1.alarm
        /\ written.dev = WriteDevice(w, c)
    BY <2>1, <2>3 DEF Fields
  <2>5. Fields(written) /\ Nanoed(written)
    BY <1>1, <2>1, <2>2, <2>4 DEF Fields, Nanoed
  <2>6. QED BY <1>1, <1>2, <2>1, <2>4, <2>5 DEF Based, Rowed
<1>4. /\ written.dev.state = w.dev.state
      /\ written.dev.sealed = (IF NewInstall(w, c) THEN None ELSE w.dev.sealed)
      /\ written.dev.escrowed = (w.dev.escrowed /\ ~NewInstall(w, c))
  <2> HIDE DEF written
  <2>1. QED BY <1>3, ShapedFields DEF WriteDevice, Fields, DevFields
<1>5. Tok(w, written)
  <2>1. \A b \in Certs : /\ written.row[b].kind = w.row[b].kind
                         /\ Open(written, b) => Open(w, b)
                         /\ RolledBack(w, b) => RolledBack(written, b)
    <3> HIDE DEF written, b1
    <3>1. QED BY <1>1, <1>3 DEF SameRow, Open, RolledBack
  <2> HIDE DEF written
  <2>2. QED BY <1>3, <1>4, <2>1 DEF Tok, Flagged
<1>6. same => Enrolled(written)
  <2> HIDE DEF written
  <2>1. QED BY <1>4 DEF SameInstall, Enrolled
<1>7. Tok(written, restored) /\ Based(restored)
  <2> HIDE DEF written
  <2>1. QED BY <1>3, <1>6, TokensTok DEF Tok
<1>8. Tok(restored, pruned) /\ Based(pruned)
  <2> HIDE DEF restored, keep
  <2>1. Fields(restored) /\ Nanoed(restored)
    BY <1>7 DEF Based, Rowed
  <2>2. QED BY <1>7, <2>1, PruneDoes, RestTok DEF Tok
<1>9. Tok(pruned, Accept(w, c, topic, F))
  <2>1. Accept(w, c, topic, F) \in {pruned, Capture(pruned, TRUE)}
    BY DEF Accept
  <2> HIDE DEF pruned
  <2>2. Tok(pruned, pruned) /\ Tok(pruned, Capture(pruned, TRUE))
    BY <1>8, TokensTok
  <2>3. QED BY <2>1, <2>2
<1>10. Tok(w, Accept(w, c, topic, F)) /\ Tok(restored, Accept(w, c, topic, F))
       /\ Tok(written, Accept(w, c, topic, F))
  <2> HIDE DEF written, restored, pruned
  <2>1. QED BY <1>5, <1>7, <1>8, <1>9, TokTwice
<1>11. NewInstall(w, c) => ~Flagged(Accept(w, c, topic, F))
  <2> HIDE DEF written, restored, pruned
  <2>1. QED BY <1>4, <1>10 DEF Tok, Flagged
<1>12. ASSUME Tokened(w), w.dev.sealed # None, ~NewInstall(w, c), same
       PROVE  ~Flagged(restored)
  <2> HIDE DEF written
  <2>1. written.dev.sealed # None /\ restored = RestoreToken(written, F)
    BY <1>4, <1>12
  <2>2. CASE "token" \in F
    <3>1. restored = [written EXCEPT !.dev.escrowed = FALSE]
      BY <2>1, <2>2 DEF RestoreToken, Restores
    <3>2. restored.dev.escrowed = FALSE
      BY <1>3, <3>1 DEF Based, Rowed, Fields, DevFields
    <3>3. QED BY <3>2 DEF Flagged
  <2>3. CASE "token" \notin F /\ ~written.nano.stamped
    <3>1. restored = WriteToken(written)
      BY <2>1, <2>3 DEF RestoreToken, Restores
    <3>2. restored.nano.token = written.dev.sealed
      BY <1>3, <2>1, <3>1, WriteTokenTok
    <3>3. QED BY <2>1, <3>2 DEF Flagged
  <2>4. CASE written.nano.stamped
    <3>1. written.nano.token # None
      BY <1>3, <1>12, <2>4 DEF Tokened
    <3>2. QED BY <1>7, <3>1 DEF Tok, Flagged
  <2>5. QED BY <2>2, <2>3, <2>4
<1> HIDE DEF restored
<1>13. QED BY <1>10, <1>11, <1>12 DEF Tok

LEMMA FailTok ==
  ASSUME NEW w, Based(w), NEW S
  PROVE  LET v == Fail(w, S, "failed")
         IN  Tok(w, v) /\ v.dev = w.dev /\ v.nano = w.nano
<1> DEFINE rows == [c \in Certs |-> IF c \in S /\ Open(w, c)
                                    THEN [w.row[c] EXCEPT !.task = "failed", !.live = FALSE]
                                    ELSE w.row[c]]
           v == Fail(w, S, "failed")
<1>1. Rowed(w) /\ Fields(w) /\ Nanoed(w)
  BY DEF Based, Rowed
<1>2. /\ v.row = rows /\ v.dev = w.dev /\ v.nano = w.nano /\ v.alarm = w.alarm /\ Fields(v)
  BY <1>1 DEF Fail, Fields
<1>3. ASSUME NEW c \in Certs
      PROVE  /\ rows[c].kind = w.row[c].kind /\ rows[c].bound = w.row[c].bound
             /\ rows[c].holds = w.row[c].holds /\ RowFields \subseteq DOMAIN rows[c]
             /\ rows[c].task \in {w.row[c].task, "failed"}
  BY <1>1 DEF Rowed, RowFields
<1>4. DOMAIN rows = Certs
  OBVIOUS
<1> HIDE DEF rows, v
<1>5. Based(v)
  BY <1>1, <1>2, <1>3, <1>4 DEF Based, Rowed, Nanoed
<1>6. \A c \in Certs : /\ v.row[c].kind = w.row[c].kind
                       /\ Open(v, c) => Open(w, c)
                       /\ RolledBack(w, c) => RolledBack(v, c)
  BY <1>2, <1>3 DEF Open, RolledBack
<1>7. QED BY <1>2, <1>5, <1>6 DEF Tok, Flagged, v

LEMMA FinishTok ==
  ASSUME NEW w, Based(w), NEW c \in Certs, NEW F PROVE Tok(w, Finish(w, c, F))
<1> DEFINE cleared == [w EXCEPT !.row[c].pem = None]
           bare == [cleared EXCEPT !.snapshot = {}]
<1>1. Rowed(w) /\ Fields(w) /\ Nanoed(w)
  BY DEF Based, Rowed
<1>2. /\ Fields(cleared) /\ Fields(bare)
      /\ cleared.dev = w.dev /\ bare.dev = w.dev /\ cleared.nano = w.nano /\ bare.nano = w.nano
      /\ cleared.alarm = w.alarm /\ bare.alarm = w.alarm
      /\ cleared.row = [w.row EXCEPT ![c].pem = None] /\ bare.row = cleared.row
  BY <1>1 DEF Fields, DevFields
<1> HIDE DEF cleared, bare
<1>3. /\ DOMAIN cleared.row = Certs
      /\ \A b \in Certs : /\ RowFields \subseteq DOMAIN cleared.row[b]
                          /\ cleared.row[b].kind = w.row[b].kind
                          /\ cleared.row[b].bound = w.row[b].bound
                          /\ cleared.row[b].holds = w.row[b].holds
                          /\ cleared.row[b].task = w.row[b].task
  BY <1>1, <1>2 DEF Rowed, RowFields
<1>4. Based(cleared) /\ Based(bare)
  BY <1>1, <1>2, <1>3 DEF Based, Rowed, Nanoed
<1>5. \A b \in Certs : /\ cleared.row[b].kind = w.row[b].kind
                       /\ Open(cleared, b) => Open(w, b)
                       /\ RolledBack(w, b) => RolledBack(cleared, b)
  BY <1>3 DEF Open, RolledBack
<1>6. Tok(w, cleared)
  BY <1>2, <1>4, <1>5 DEF Tok, Flagged
<1>7. Tok(cleared, bare)
  BY <1>2, <1>4, <1>6, SameRowsTok DEF Tok, Flagged, Based, Rowed
<1>8. Tok(bare, Prune(bare, {c}, F))
  <2>1. Fields(bare) /\ Nanoed(bare)
    BY <1>4 DEF Based, Rowed
  <2>2. QED BY <1>4, <2>1, PruneDoes, RestTok
<1>9. Finish(w, c, F) \in {cleared, Prune(bare, {c}, F)}
  BY DEF Finish, cleared, bare
<1>10. QED BY <1>6, <1>7, <1>8, <1>9, TokTwice

(* A new certificate on the row.                                            *)
LEMMA ReenrollTok ==
  ASSUME NEW w, Based(w), NEW c \in Certs, NEW same
  PROVE  LET v == Reenroll(w, c, same)
         IN  Tok(w, v) /\ (same = FALSE => ~Flagged(v))
<1> DEFINE S == IF w.row[c].kind = "renewal" THEN Certs \ {c} ELSE Certs
           f == Fail(w, S, "failed")
           v == Reenroll(w, c, same)
<1>1. Tok(w, f) /\ f.dev = w.dev /\ f.nano = w.nano
  BY FailTok
<1>2. v = IF w.row[c].kind = "renewal"
          THEN [f EXCEPT !.dev.escrowed = @ /\ same /\ w.dev.sealed # None]
          ELSE [f EXCEPT !.dev.escrowed = FALSE, !.dev.sealed = None]
  BY DEF Reenroll
<1>3. Based(f) /\ Rowed(f) /\ Fields(f) /\ Nanoed(f)
  BY <1>1 DEF Tok, Based, Rowed
<1> HIDE DEF S, f, v
<1>4. /\ Fields(v) /\ v.row = f.row /\ v.alarm = f.alarm /\ v.nano = f.nano
      /\ v.dev.state = f.dev.state
      /\ \/ /\ v.dev.escrowed = (f.dev.escrowed /\ same /\ w.dev.sealed # None)
            /\ v.dev.sealed = f.dev.sealed
         \/ v.dev.escrowed = FALSE
  BY <1>2, <1>3 DEF Fields, DevFields
<1>5. Tok(f, v)
  <2>1. Nanoed(v)
    BY <1>3, <1>4 DEF Nanoed
  <2>2. v.dev.escrowed => f.dev.escrowed
    BY <1>4
  <2>3. QED BY <1>3, <1>4, <2>1, <2>2, SameRowsTok DEF Tok, Flagged
<1>6. same = FALSE => ~Flagged(v)
  BY <1>4 DEF Flagged
<1>7. QED BY <1>1, <1>5, <1>6, TokTwice DEF v

LEMMA RollBackTok ==
  ASSUME NEW w, Based(w), NEW c \in Certs, NEW F PROVE Tok(w, RollBack(w, c, F))
<1> DEFINE expired == [w EXCEPT !.row[c].live = FALSE]
           before == BoundBefore(w, c)
           previous == IF before = None /\ Cardinality(w.snapshot) = 1
                       THEN CHOOSE b \in w.snapshot : TRUE ELSE before
           pem == IF w.row[c].pem = previous THEN previous ELSE None
           mine == w.dev.id = c
           forgotten == [expired EXCEPT !.row[c].holds = FALSE, !.row[c].pem = None]
           own == [forgotten EXCEPT
                     !.dev.id = previous, !.dev.pem = pem,
                     !.nano.id = IF pem # None /\ @ = w.dev.pem /\ "pem" \notin F
                                 THEN pem ELSE @]
           restored == IF ~mine THEN forgotten ELSE own
           keep == {IF restored.dev.id \in {None, c, previous} THEN previous ELSE restored.dev.id}
                      \cup w.snapshot
           v == Prune(restored, keep \ {c}, F)
<1>1. Rowed(w) /\ Fields(w) /\ Nanoed(w)
  BY DEF Based, Rowed
<1>2. RollBack(w, c, F) \in {expired, v}
  BY DEF RollBack
<1> HIDE DEF previous, pem
<1>3. /\ Fields(expired) /\ expired.dev = w.dev /\ expired.nano = w.nano
      /\ expired.alarm = w.alarm
      /\ expired.row = [w.row EXCEPT ![c].live = FALSE]
      /\ Fields(forgotten) /\ forgotten.dev = w.dev /\ forgotten.nano = w.nano
      /\ forgotten.alarm = w.alarm
      /\ forgotten.row = [[expired.row EXCEPT ![c].holds = FALSE] EXCEPT ![c].pem = None]
  BY <1>1 DEF Fields, DevFields
<1> HIDE DEF expired, forgotten
<1>4. /\ DOMAIN expired.row = Certs
      /\ \A b \in Certs : /\ RowFields \subseteq DOMAIN expired.row[b]
                          /\ expired.row[b].kind = w.row[b].kind
                          /\ expired.row[b].bound = w.row[b].bound
                          /\ expired.row[b].holds = w.row[b].holds
                          /\ expired.row[b].task = w.row[b].task
  BY <1>1, <1>3 DEF Rowed, RowFields
<1>5. /\ DOMAIN forgotten.row = Certs
      /\ \A b \in Certs : /\ RowFields \subseteq DOMAIN forgotten.row[b]
                          /\ forgotten.row[b].kind = w.row[b].kind
                          /\ forgotten.row[b].bound = w.row[b].bound
                          /\ \/ forgotten.row[b].holds = w.row[b].holds
                             \/ forgotten.row[b].holds = FALSE
                          /\ forgotten.row[b].task = w.row[b].task
  <2> DEFINE r1 == [expired.row EXCEPT ![c].holds = FALSE]
  <2>1. /\ DOMAIN r1 = Certs
        /\ \A b \in Certs : /\ RowFields \subseteq DOMAIN r1[b]
                            /\ r1[b].kind = w.row[b].kind
                            /\ r1[b].bound = w.row[b].bound
                            /\ r1[b].holds = w.row[b].holds \/ r1[b].holds = FALSE
                            /\ r1[b].task = w.row[b].task
    BY <1>4 DEF RowFields
  <2>2. forgotten.row = [r1 EXCEPT ![c].pem = None]
    BY <1>3
  <2> HIDE DEF r1
  <2>3. QED BY <2>1, <2>2 DEF RowFields
<1>6. Tok(w, expired)
  <2>1. Based(expired)
    BY <1>1, <1>3, <1>4 DEF Based, Rowed, Nanoed
  <2>2. \A b \in Certs : /\ Open(expired, b) => Open(w, b)
                         /\ RolledBack(w, b) => RolledBack(expired, b)
    BY <1>4 DEF Open, RolledBack
  <2>3. QED BY <1>3, <1>4, <2>1, <2>2 DEF Tok, Flagged
<1>7. Tok(w, forgotten)
  <2>1. Based(forgotten)
    BY <1>1, <1>3, <1>5 DEF Based, Rowed, Nanoed
  <2>2. \A b \in Certs : /\ Open(forgotten, b) => Open(w, b)
                         /\ RolledBack(w, b) => RolledBack(forgotten, b)
    BY <1>5 DEF Open, RolledBack
  <2>3. QED BY <1>3, <1>5, <2>1, <2>2 DEF Tok, Flagged
<1>8. Tok(forgotten, own)
  <2>1. Based(forgotten) /\ Fields(forgotten) /\ Nanoed(forgotten)
    BY <1>7 DEF Tok, Based, Rowed
  <2>2. /\ Fields(own) /\ Nanoed(own) /\ own.row = forgotten.row
        /\ own.alarm = forgotten.alarm /\ own.dev.state = forgotten.dev.state
        /\ own.dev.sealed = forgotten.dev.sealed /\ own.dev.escrowed = forgotten.dev.escrowed
        /\ own.nano.token = forgotten.nano.token /\ own.nano.stamped = forgotten.nano.stamped
    BY <2>1 DEF Fields, DevFields, Nanoed, NanoFields
  <2> HIDE DEF own
  <2>3. QED BY <2>1, <2>2, SameRowsTok DEF Tok, Flagged
<1>9. Tok(forgotten, restored) /\ Tok(w, restored) /\ Based(restored)
  <2>1. Tok(forgotten, forgotten)
    BY <1>7, TokensTok DEF Tok
  <2> HIDE DEF own
  <2>2. Tok(forgotten, restored)
    BY <1>8, <2>1
  <2> HIDE DEF restored
  <2>3. QED BY <1>7, <2>2, TokTwice DEF Tok
<1>10. Tok(restored, v)
  <2> HIDE DEF restored, keep
  <2>1. Fields(restored) /\ Nanoed(restored)
    BY <1>9 DEF Based, Rowed
  <2>2. QED BY <1>9, <2>1, PruneDoes, RestTok
<1> HIDE DEF restored, v
<1>11. Tok(w, v)
  BY <1>9, <1>10, TokTwice
<1>12. QED BY <1>2, <1>6, <1>11

(* What is recorded and flagged is taken care of by the bind, or still due. *)
LEMMA BindTok ==
  ASSUME NEW w, Shaped(w), NEW c \in Certs, Stands(w, c), NEW topic, NEW F
  PROVE  LET v == Bind(w, c, topic, F)
         IN  /\ Tok(w, v)
             /\ Flagged(w) /\ Flagged(v) /\ Tokened(w) /\ topic \in CheckIns
                /\ Due(w) /\ c = w.nano.id
                => topic = "TokenUpdate" /\ Due(v) /\ v.nano.id = c
<1> DEFINE a == Accept(w, c, topic, F)
           anew == Fresh(w, c) \/ NewInstall(w, c)
           same == SameInstall(w, c, topic)
           e == IF anew THEN Reenroll(a, c, same) ELSE a
           r == IF anew /\ w.row[c].kind = "rts" THEN Capture(e, FALSE) ELSE e
           v == Bind(w, c, topic, F)
<1>1. ~RolledBack(w, c)
  BY DEF Stands, RolledBack, Shaped, Sound
<1>2. /\ Tok(w, a) /\ Based(a)
      /\ NewInstall(w, c) => ~Flagged(a)
      /\ Tokened(w) /\ w.dev.sealed # None /\ ~NewInstall(w, c) /\ same => ~Flagged(a)
  BY <1>1, AcceptTok DEF Tok
<1>3. Accepts(w, a, c)
  BY AcceptDoes
<1>4. v = IF topic = "TokenUpdate" /\ w.row[c].kind = "renewal"
          THEN FinishOnTokenUpdate(r, c, F) ELSE r
  BY DEF Bind
<1> HIDE DEF a, v
<1>5. Tok(a, e) /\ Based(e) /\ (anew /\ same = FALSE => ~Flagged(e))
  <2>1. Tok(a, a)
    BY <1>2, TokensTok
  <2>2. Tok(a, Reenroll(a, c, same)) /\ (same = FALSE => ~Flagged(Reenroll(a, c, same)))
    <3> HIDE DEF same
    <3>1. QED BY <1>2, ReenrollTok
  <2> HIDE DEF anew, same
  <2>3. QED BY <2>1, <2>2 DEF Tok
<1>6. Tok(e, r) /\ Based(r)
  <2> HIDE DEF e
  <2>1. Tok(e, e) /\ Tok(e, Capture(e, FALSE))
    BY <1>5, TokensTok
  <2>2. QED BY <2>1 DEF Tok
<1>7. Tok(r, v)
  <2> HIDE DEF r
  <2>1. Tok(r, r) /\ Tok(r, Finish(r, c, F))
    BY <1>6, TokensTok, FinishTok
  <2>2. v \in {r, Finish(r, c, F)}
    BY <1>4 DEF FinishOnTokenUpdate
  <2>3. QED BY <2>1, <2>2
<1>8. Tok(w, v) /\ Tok(a, v) /\ Tok(e, v)
  <2> HIDE DEF e, r
  <2>1. QED BY <1>2, <1>5, <1>6, <1>7, TokTwice
<1>9. ASSUME Flagged(w), Flagged(v), Tokened(w), topic \in CheckIns, Due(w), c = w.nano.id
      PROVE  topic = "TokenUpdate" /\ Due(v) /\ v.nano.id = c
  <2>1. Flagged(a) /\ Flagged(e)
    BY <1>8, <1>9 DEF Tok
  <2>2. ~NewInstall(w, c)
    BY <1>2, <2>1
  <2>3. w.row[c].kind = "renewal" /\ Open(w, c)
    <3>1. ASSUME w.row[c].kind \in {"manual", "ade", "rts"}, Fresh(w, c) PROVE FALSE
      BY <2>2, <3>1 DEF NewInstall
    <3>2. QED BY <1>9, <3>1 DEF Due
  <2>4. Enrolled(w) /\ w.dev.sealed # None
    BY <1>9, <2>3 DEF Flagged, Tokened
  <2>5. ~same
    BY <1>2, <1>9, <2>1, <2>2, <2>4
  <2>6. topic = "TokenUpdate"
    BY <1>9, <2>3, <2>4, <2>5 DEF SameInstall, CheckIns
  <2>7. ~anew
    <3>1. same = FALSE
      BY <2>5 DEF SameInstall
    <3> HIDE DEF same, e
    <3>2. QED BY <1>5, <2>1, <3>1
  <2>8. ~Fresh(w, c)
    BY <2>7
  <2>9. /\ SameRow(w, a, c) /\ a.nano.id = c /\ a.alarm = w.alarm /\ Bound(a) = Bound(w)
        /\ a.snapshot = w.snapshot
    <3>1. SameRow(w, a, c) /\ a.nano.id = c /\ a.snapshot = w.snapshot
      BY <1>3, <1>9, <2>8 DEF Accepts
    <3>2. \A b \in Certs : SameRow(w, a, b)
      BY <1>3, <3>1 DEF Accepts
    <3>3. QED BY <1>2, <3>1, <3>2 DEF SameRow, Bound, Tok
  <2>10. c \in Assoc(a)
    <3>1. c # None
      BY CertsAssumption DEF None
    <3>2. a.nano.assoc[c] = w.nano.assoc[c]
      BY <1>3, <3>1 DEF Accepts, Loses
    <3>3. QED BY <1>9, <3>2 DEF Due, Assoc
  <2>11. v = a
    <3>1. r = a
      BY <2>7
    <3>2. v = FinishOnTokenUpdate(a, c, F)
      BY <1>4, <2>3, <2>6, <3>1
    <3>3. a.row[c].task = "open"
      BY <2>3, <2>9 DEF SameRow, Open
    <3>4. QED BY <3>2, <3>3 DEF FinishOnTokenUpdate
  <2>12. Stands(a, c) /\ a.row[c].kind = "renewal" /\ Open(a, c) /\ a.alarm.redo # c
    BY <1>9, <2>3, <2>9 DEF SameRow, Stands, Open, Due
  <2>13. QED BY <2>6, <2>9, <2>10, <2>11, <2>12 DEF Due
<1>10. QED BY <1>8, <1>9 DEF v

(* A refusal of what NanoMDM associates leaves the Mac's own token, or no   *)
(* flag; one of what it does not associate leaves both alone.               *)
LEMMA RefuseTok ==
  ASSUME NEW w, Based(w), NEW c \in Certs, NEW F, Tokened(w),
         w.row[c].kind # "free", w.row[c].kind = "renewal" => RolledBack(w, c),
         Flagged(w) => c \in Assoc(w)
  PROVE  LET v == Refuse(w, c, F)
         IN  Tokened(v) /\ Redone(v) /\ ~Flagged(v) /\ v.row = w.row
<1> DEFINE S == ({c} \cup Assoc(w)) \ Allowed(w)
           parked == Park(w, S, F)
           live == Enrolled(w) /\ c \in Assoc(w)
           bare == [parked EXCEPT !.nano.token = None, !.nano.stamped = FALSE]
           t == IF ~live \/ "token" \in F THEN parked
                ELSE IF w.dev.sealed # None THEN WriteToken(parked) ELSE bare
           owed == w.dev.pem # None /\ c # w.dev.id
           down == c \in Assoc(w) /\ (w.dev.sealed = None \/ ~live \/ "token" \in F)
           e == IF down THEN FALSE ELSE t.dev.escrowed
           n == IF owed /\ "pem" \notin F THEN w.dev.pem ELSE t.nano.id
           a == [recent |-> TRUE, redo |-> IF owed /\ "pem" \in F THEN c ELSE None]
           v == Refuse(w, c, F)
<1>1. Rowed(w) /\ Fields(w) /\ Nanoed(w)
  BY DEF Based, Rowed
<1>2. Fields(parked) /\ Nanoed(parked) /\ Rest(w, parked) /\ Based(parked)
  <2>1. Fields(parked) /\ Nanoed(parked) /\ Rest(w, parked)
    BY <1>1, ParkDoes
  <2> HIDE DEF parked
  <2>2. QED BY <1>1, <2>1 DEF Rest, Based, Rowed
<1>3. v = [t EXCEPT !.dev.escrowed = e, !.nano.id = n, !.alarm = a]
  <2> HIDE DEF parked
  <2>1. QED BY DEF Refuse, parked
<1> HIDE DEF parked, v
<1>4. /\ Fields(bare) /\ Nanoed(bare) /\ bare.row = parked.row /\ bare.dev = parked.dev
      /\ bare.nano.token = None /\ bare.nano.stamped = FALSE
  BY <1>2 DEF Fields, DevFields, Nanoed, NanoFields
<1>5. /\ Fields(t) /\ Nanoed(t) /\ t.row = w.row /\ t.dev.state = w.dev.state
      /\ t.dev.sealed = w.dev.sealed
      /\ \/ t = parked /\ (~live \/ "token" \in F)
         \/ live /\ "token" \notin F /\ w.dev.sealed # None /\ t.nano.token = w.dev.sealed
         \/ /\ live /\ "token" \notin F /\ w.dev.sealed = None /\ t.nano.token = None
            /\ t.nano.stamped = FALSE /\ t.dev = w.dev
  <2>1. parked.dev = w.dev /\ parked.row = w.row
    BY <1>2 DEF Rest
  <2> HIDE DEF live, bare
  <2>2. CASE ~live \/ "token" \in F
    BY <1>2, <2>1, <2>2
  <2>3. CASE live /\ "token" \notin F /\ w.dev.sealed # None
    <3>1. t = WriteToken(parked)
      BY <2>3
    <3>2. QED BY <1>2, <2>1, <2>3, <3>1, WriteTokenTok
  <2>4. CASE live /\ "token" \notin F /\ w.dev.sealed = None
    <3>1. t = bare
      BY <2>4
    <3>2. QED BY <1>4, <2>1, <2>4, <3>1
  <2>5. QED BY <2>2, <2>3, <2>4
<1> HIDE DEF bare, t
<1>6. /\ v.row = t.row /\ v.dev.state = t.dev.state /\ v.dev.sealed = t.dev.sealed
      /\ v.dev.escrowed = e /\ v.nano.token = t.nano.token /\ v.nano.stamped = t.nano.stamped
      /\ v.alarm = a
  <2> HIDE DEF e, n, a
  <2>1. QED BY <1>3, <1>5 DEF Fields, DevFields, Nanoed, NanoFields
<1>7. Redone(v)
  <2>1. "redo" \in DOMAIN a /\ a.redo \in {c, None}
    OBVIOUS
  <2> HIDE DEF a
  <2>2. QED BY <1>5, <1>6, <2>1 DEF Redone, RolledBack
<1>8. CASE t = parked /\ (~live \/ "token" \in F)
  <2>1. t.dev = w.dev /\ t.nano.token = w.nano.token /\ t.nano.stamped = w.nano.stamped
    BY <1>2, <1>8 DEF Rest
  <2>2. c \in Assoc(w) => v.dev.escrowed = FALSE
    BY <1>6, <1>8
  <2>3. c \notin Assoc(w) => v.dev.escrowed = w.dev.escrowed
    BY <1>6, <2>1
  <2>4. ~Flagged(v)
    BY <1>6, <2>1, <2>2, <2>3 DEF Flagged
  <2>5. Tokened(v)
    <3>1. \A b \in Certs : Open(v, b) => Open(w, b)
      BY <1>5, <1>6 DEF Open
    <3> HIDE DEF e, a
    <3>2. QED BY <1>5, <1>6, <2>1, <2>2, <2>3, <3>1 DEF Tokened, Enrolled
  <2>6. QED BY <1>5, <1>6, <1>7, <2>4, <2>5 DEF v
<1>9. CASE live /\ "token" \notin F /\ w.dev.sealed # None /\ t.nano.token = w.dev.sealed
  <2>1. ~Flagged(v)
    BY <1>6, <1>9 DEF Flagged
  <2>2. Tokened(v)
    BY <1>5, <1>6, <1>9 DEF Tokened, Enrolled
  <2>3. QED BY <1>5, <1>6, <1>7, <2>1, <2>2 DEF v
<1>10. CASE live /\ w.dev.sealed = None /\ t.nano.stamped = FALSE
  <2>1. v.dev.escrowed = FALSE
    BY <1>6, <1>10
  <2>2. Tokened(v) /\ ~Flagged(v)
    BY <1>6, <1>10, <2>1 DEF Tokened, Flagged
  <2>3. QED BY <1>5, <1>6, <1>7, <2>2 DEF v
<1>11. QED BY <1>5, <1>8, <1>9, <1>10

(* Worlds that read the same.                                               *)
LEMMA SameF ==
  ASSUME NEW w, NEW v, NEW q, FInv(w, q), v.row = w.row, v.dev = w.dev,
         v.snapshot = w.snapshot, v.nano = w.nano, v.alarm = w.alarm
  PROVE  FInv(v, q)
<1>1. /\ Assoc(v) = Assoc(w) /\ Bound(v) = Bound(w) /\ (Enrolled(v) <=> Enrolled(w))
      /\ Flagged(v) <=> Flagged(w)
      /\ \A c : Open(v, c) <=> Open(w, c)
      /\ \A c : RolledBack(v, c) <=> RolledBack(w, c)
  BY DEF Assoc, Bound, Enrolled, Open, RolledBack, Flagged
<1>2. \A c : (Stands(v, c) <=> Stands(w, c)) /\ (Fresh(v, c) <=> Fresh(w, c))
  BY <1>1 DEF Stands, Fresh, AlreadyBound
<1>3. (Tokened(v) <=> Tokened(w)) /\ (Redone(v) <=> Redone(w))
  BY <1>1 DEF Tokened, Redone
<1>4. Due(v) <=> Due(w)
  BY <1>1, <1>2 DEF Due
<1>5. QED BY <1>1, <1>3, <1>4 DEF FInv

LEMMA BecomesF == ASSUME NEW w, NEW q, FInv(w, q), Become(w) PROVE FInv(World', q)
<1>1. /\ World'.row = w.row /\ World'.dev = w.dev /\ World'.snapshot = w.snapshot
      /\ World'.nano = w.nano /\ World'.alarm = w.alarm
  BY DEF Become, World
<1>2. QED BY <1>1, SameF

(* Nothing is flagged ahead of NanoMDM.                                     *)
LEMMA CuredF ==
  ASSUME NEW w, NEW q, Tokened(w), Redone(w), ~Flagged(w) PROVE FInv(w, q)
BY DEF FInv

(* Webhooks taken, other than an Authenticate; and sent.                    *)
LEMMA CalledTaken ==
  ASSUME NEW q \in Seq(Msgs), Len(q) > 0, NEW c, Called(q, c)
  PROVE  /\ q[1] \notin Answers(c)
         /\ q[1].topic # "Authenticate" => Called(RemoveAt(q, 1), c)
<1> DEFINE r == RemoveAt(q, 1)
<1>1. r \in Seq(Msgs) /\ Len(r) = Len(q) - 1 /\ \A i \in 1 .. Len(r) : r[i] = q[i + 1]
  BY TailIs
<1> HIDE DEF r
<1>2. PICK i \in 1 .. Len(q) : /\ q[i].topic = "Authenticate"
                               /\ \A j \in 1 .. i : q[j] \notin Answers(c)
  BY DEF Called
<1>3. q[1] \notin Answers(c)
  <2>1. 1 \in 1 .. i
    OBVIOUS
  <2>2. QED BY <1>2, <2>1
<1>4. ASSUME q[1].topic # "Authenticate" PROVE Called(r, c)
  <2>1. i # 1
    BY <1>2, <1>4
  <2>2. /\ i - 1 \in 1 .. Len(r) /\ r[i - 1] = q[i]
        /\ \A j \in 1 .. (i - 1) : j + 1 \in 1 .. i /\ r[j] = q[j + 1]
    BY <1>1, <2>1
  <2>3. QED BY <1>2, <2>2 DEF Called
<1>5. QED BY <1>3, <1>4 DEF r

LEMMA CalledSent ==
  ASSUME NEW q \in Seq(Msgs), NEW x \in Msgs, NEW c
  PROVE  /\ Called(q, c) => Called(Append(q, x), c)
         /\ x.topic = "Authenticate" /\ (\A y \in Answers(c) : ~OnTheWay(q, y))
            => Called(Append(q, x), c)
<1> DEFINE r == Append(q, x)
<1>1. /\ r \in Seq(Msgs) /\ Len(r) = Len(q) + 1 /\ r[Len(q) + 1] = x
      /\ \A i \in 1 .. Len(q) : r[i] = q[i]
      /\ Len(q) \in Nat
  OBVIOUS
<1> HIDE DEF r
<1>2. ASSUME Called(q, c) PROVE Called(r, c)
  <2>1. PICK i \in 1 .. Len(q) : /\ q[i].topic = "Authenticate"
                                 /\ \A j \in 1 .. i : q[j] \notin Answers(c)
    BY <1>2 DEF Called
  <2>2. i \in 1 .. Len(r) /\ r[i] = q[i] /\ \A j \in 1 .. i : r[j] = q[j]
    BY <1>1
  <2>3. QED BY <2>1, <2>2 DEF Called
<1>3. ASSUME x.topic = "Authenticate", \A y \in Answers(c) : ~OnTheWay(q, y)
      PROVE  Called(r, c)
  <2>1. x \notin Answers(c)
    BY <1>3 DEF Answers, Msg
  <2>2. \A j \in 1 .. Len(q) : q[j] \notin Answers(c)
    BY <1>3 DEF OnTheWay
  <2>3. /\ Len(q) + 1 \in 1 .. Len(r)
        /\ \A j \in 1 .. (Len(q) + 1) : r[j] = x \/ (j \in 1 .. Len(q) /\ r[j] = q[j])
    BY <1>1
  <2>4. QED BY <1>1, <1>3, <2>1, <2>2, <2>3 DEF Called
<1>4. QED BY <1>2, <1>3 DEF r

(* What a step starts from.                                                 *)
LEMMA FlagFrom ==
  ASSUME FlagInv, mishaps = 0
  PROVE  /\ LInv(World, mac, inbox) /\ Shaped(World) /\ Based(World) /\ Fields(World)
         /\ Nanoed(World) /\ Sound(World) /\ Recorded(World) /\ Rows(World)
         /\ Asked(World, mac, inbox) /\ Shape(mac, inbox) /\ inbox \in Seq(Msgs)
         /\ nano.id \in Certs /\ World.nano.id = nano.id
         /\ OnlyItself(World) => FInv(World, inbox)
<1>1. LInv(World, mac, inbox) /\ (OnlyItself(World) => FInv(World, inbox))
  BY DEF FlagInv, LockInv
<1>2. Shaped(World) /\ Recorded(World) /\ Rows(World) /\ Asked(World, mac, inbox)
  BY <1>1 DEF LInv, Rows
<1>3. QED BY <1>1, <1>2, ShapedBased, ShapedFields, WorldIs DEF Recorded, Asked, Shape, Shaped

(* Its strays were there before.                                            *)
LEMMA StrayBefore ==
  ASSUME OnlyItself(World'), NEW v, Become(v),
         \A c \in Certs : v.row[c].kind = World.row[c].kind
  PROVE  OnlyItself(World)
BY WorldIs DEF OnlyItself, Become

(* The handlers of webhooks that are no Authenticate.                       *)
LEMMA TakenF ==
  ASSUME NEW w, NEW q \in Seq(Msgs), FInv(w, q), Len(q) > 0, q[1].topic # "Authenticate"
  PROVE  FInv(w, RemoveAt(q, 1))
BY CalledTaken DEF FInv

LEMMA TokF ==
  ASSUME NEW w, NEW v, NEW q, FInv(w, q), Tok(w, v), ~Flagged(w) \/ ~Flagged(v)
  PROVE  \A r : FInv(v, r)
BY TokKeeps DEF FInv, Tok

LEMMA UpsertsFlag ==
  ASSUME FlagInv, mishaps' = 0, OnlyItself(World'), NEW topic \in CheckIns, NEW F,
         UpsertUnjudged(topic) \/ UpsertRefused(topic, F) \/ UpsertBound(topic, F)
  PROVE  FInv(World', inbox')
<1> DEFINE c == nano.id
<1>1. Arrives(Msg(topic, 0))
  BY DEF UpsertUnjudged, UpsertRefused, UpsertBound
<1>2. /\ mishaps = 0 /\ Len(inbox) > 0 /\ inbox[1] = Msg(topic, 0)
      /\ inbox' = RemoveAt(inbox, 1)
  BY <1>1, FirstArrives DEF FlagInv, LockInv
<1>3. /\ LInv(World, mac, inbox) /\ Shaped(World) /\ Based(World) /\ inbox \in Seq(Msgs)
      /\ c \in Certs /\ World.nano.id = c /\ Recorded(World)
      /\ OnlyItself(World) => FInv(World, inbox)
  BY <1>2, FlagFrom
<1>4. CASE UpsertUnjudged(topic)
  <2>1. UNCHANGED server /\ c \notin Assoc(World)
    BY <1>4, <1>3 DEF UpsertUnjudged, Stale
  <2>2. World' = World
    BY <2>1 DEF World, server
  <2>3. FInv(World, inbox)
    BY <1>3, <2>2
  <2>4. ~Flagged(World)
    BY <1>3, <2>1, <2>3 DEF FInv, Due
  <2>5. QED BY <2>2, <2>3, <2>4, CuredF DEF FInv
<1>5. CASE UpsertRefused(topic, F)
  <2> DEFINE v == Refuse(World, c, F)
  <2>1. Become(v) /\ ~MayBind(World, c)
    BY <1>5 DEF UpsertRefused
  <2>2. Kept(World, v)
    BY <1>3, RefuseKeeps DEF Based
  <2>3. FInv(World, inbox)
    BY <1>3, <2>1, <2>2, StrayBefore DEF Kept
  <2>4. /\ World.row[c].kind # "free"
        /\ World.row[c].kind = "renewal" => RolledBack(World, c)
    BY <1>3, <2>1 DEF Recorded, MayBind, Stands, Takeover, RolledBack
  <2>5. Flagged(World) => c \in Assoc(World)
    BY <1>3, <2>3 DEF FInv, Due
  <2>6. Tokened(v) /\ Redone(v) /\ ~Flagged(v)
    BY <1>3, <2>3, <2>4, <2>5, RefuseTok DEF FInv
  <2> HIDE DEF v
  <2>7. QED BY <2>1, <2>6, CuredF, BecomesF
<1>6. CASE UpsertBound(topic, F)
  <2> DEFINE v == Bind(World, c, topic, F)
  <2>1. Become(v) /\ Stands(World, c)
    BY <1>6 DEF UpsertBound, MayBind
  <2>2. /\ Tok(World, v)
        /\ Flagged(World) /\ Flagged(v) /\ Tokened(World) /\ Due(World)
           => topic = "TokenUpdate" /\ Due(v) /\ v.nano.id = c
    BY <1>3, <2>1, BindTok
  <2> HIDE DEF v
  <2>3. FInv(World, inbox)
    BY <1>3, <2>1, <2>2, StrayBefore DEF Tok
  <2>4. Tokened(v) /\ Redone(v)
    BY <2>2, <2>3, TokKeeps DEF FInv
  <2>5. ASSUME Flagged(v) PROVE Due(v) /\ Called(inbox', v.nano.id)
    <3>1. Flagged(World) /\ Due(World) /\ Called(inbox, c) /\ Tokened(World)
      BY <1>3, <2>2, <2>3, <2>5 DEF Tok, FInv
    <3>2. topic = "TokenUpdate" /\ Due(v) /\ v.nano.id = c
      BY <2>2, <2>5, <3>1
    <3>3. inbox[1].topic # "Authenticate"
      BY <1>2, <3>2, MsgsDiffer
    <3>4. QED BY <1>2, <1>3, <3>1, <3>2, <3>3, CalledTaken
  <2>6. FInv(v, inbox')
    BY <2>4, <2>5 DEF FInv
  <2>7. QED BY <2>1, <2>6, BecomesF
<1>7. QED BY <1>4, <1>5, <1>6

(* The answer to a renewal is not taken while the flag is ahead.            *)
LEMMA AnswersLate ==
  ASSUME NEW w, NEW m, NEW q, LInv(w, m, q), FInv(w, q), Flagged(w), NEW c \in Certs,
         NEW x \in Answers(c), Len(q) > 0, q[1] = x
  PROVE  ~Open(w, c)
<1>1. Due(w) /\ Called(q, w.nano.id)
  BY DEF FInv
<1>2. /\ q \in Seq(Msgs) /\ Rows(w) /\ Awaits(w, m, q) /\ w.nano.id \in Certs
  BY DEF LInv, Asked, Shape, Recorded
<1>3. c # w.nano.id
  BY <1>1, <1>2, CalledTaken
<1>4. OnTheWay(q, x)
  BY <1>2, TakenFirst
<1>5. SUFFICES ASSUME Open(w, c) PROVE FALSE
  OBVIOUS
<1>6. Expected(w, m, q, c)
  BY <1>4, <1>5 DEF Expected
<1>7. CASE Open(w, w.nano.id)
  BY <1>2, <1>3, <1>5, <1>7 DEF Rows, OneOpen
<1>8. CASE Fresh(w, w.nano.id) /\ Stands(w, w.nano.id)
  BY <1>2, <1>3, <1>6, <1>8 DEF Awaits, Pending
<1>9. QED BY <1>1, <1>7, <1>8 DEF Due

LEMMA CaptureF ==
  ASSUME NEW w, NEW q, FInv(w, q), Based(w), NEW flag PROVE FInv(Capture(w, flag), q)
<1>1. CASE w.nano.token = None
  BY <1>1 DEF Capture
<1>2. CASE w.nano.token # None
  <2>1. ~Flagged(w) /\ Tok(w, Capture(w, flag))
    BY <1>2, TokensTok DEF Flagged
  <2>2. QED BY <2>1, TokF
<1>3. QED BY <1>1, <1>2

LEMMA SavedF ==
  ASSUME NEW w, NEW q, FInv(w, q), Based(w)
  PROVE  LET saved == [w EXCEPT !.dev.state = "enrolled"]
         IN  /\ FInv(saved, q) /\ FInv(Capture(saved, FALSE), q) /\ saved.row = w.row
             /\ Capture(saved, FALSE).row = w.row
<1> DEFINE saved == [w EXCEPT !.dev.state = "enrolled"]
<1>1. Fields(w) /\ Rowed(w) /\ Nanoed(w)
  BY DEF Based, Rowed
<1>2. /\ Fields(saved) /\ saved.row = w.row /\ saved.snapshot = w.snapshot
      /\ saved.nano = w.nano /\ saved.alarm = w.alarm /\ saved.dev.state = "enrolled"
      /\ saved.dev.sealed = w.dev.sealed /\ saved.dev.escrowed = w.dev.escrowed
  BY <1>1 DEF Fields, DevFields
<1>3. Capture(saved, FALSE).row = saved.row
  BY <1>2 DEF Capture, Fields
<1> HIDE DEF saved
<1>4. Based(saved)
  BY <1>1, <1>2 DEF Based, Rowed, Nanoed
<1>5. /\ Assoc(saved) = Assoc(w) /\ Bound(saved) = Bound(w)
      /\ Flagged(saved) <=> Flagged(w)
      /\ \A c : Open(saved, c) <=> Open(w, c)
      /\ \A c : RolledBack(saved, c) <=> RolledBack(w, c)
  BY <1>2 DEF Assoc, Bound, Open, RolledBack, Flagged
<1>6. \A c : (Stands(saved, c) <=> Stands(w, c)) /\ (Fresh(saved, c) <=> Fresh(w, c))
  BY <1>2, <1>5 DEF Stands, Fresh, AlreadyBound
<1>7. Tokened(saved) /\ Redone(saved) /\ (Due(saved) <=> Due(w))
  BY <1>2, <1>5, <1>6 DEF Tokened, Redone, Due, FInv, Enrolled
<1>8. FInv(saved, q)
  BY <1>2, <1>5, <1>7 DEF FInv
<1>9. QED BY <1>2, <1>3, <1>4, <1>8, CaptureF DEF saved

LEMMA TaskTok ==
  ASSUME NEW w, Based(w), NEW c \in Certs, NEW how, how # "open"
  PROVE  Tok(w, [w EXCEPT !.row[c].task = how])
<1> DEFINE v == [w EXCEPT !.row[c].task = how]
<1>1. Rowed(w) /\ Fields(w) /\ Nanoed(w)
  BY DEF Based, Rowed
<1>2. /\ Fields(v) /\ v.dev = w.dev /\ v.nano = w.nano /\ v.alarm = w.alarm
      /\ v.row = [w.row EXCEPT ![c].task = how]
  BY <1>1 DEF Fields, DevFields
<1> HIDE DEF v
<1>3. /\ DOMAIN v.row = Certs
      /\ \A b \in Certs : /\ RowFields \subseteq DOMAIN v.row[b]
                          /\ v.row[b].kind = w.row[b].kind
                          /\ v.row[b].bound = w.row[b].bound
                          /\ v.row[b].holds = w.row[b].holds
                          /\ v.row[b].task \in {w.row[b].task, how}
  BY <1>1, <1>2 DEF Rowed, RowFields
<1>4. Based(v)
  BY <1>1, <1>2, <1>3 DEF Based, Rowed, Nanoed
<1>5. \A b \in Certs : (Open(v, b) => Open(w, b)) /\ (RolledBack(w, b) => RolledBack(v, b))
  BY <1>3 DEF Open, RolledBack
<1>6. QED BY <1>2, <1>3, <1>4, <1>5 DEF Tok, Flagged, v

LEMMA CheckOutF ==
  ASSUME NEW w, Based(w), Tokened(w), Redone(w)
  PROVE  LET f == Fail(w, Certs, "failed")
             v == [f EXCEPT !.dev.state = "unenrolled", !.dev.sealed = None,
                            !.dev.escrowed = FALSE]
         IN  Tokened(v) /\ Redone(v) /\ ~Flagged(v)
<1> DEFINE f == Fail(w, Certs, "failed")
           v == [f EXCEPT !.dev.state = "unenrolled", !.dev.sealed = None,
                          !.dev.escrowed = FALSE]
<1>1. Tok(w, f) /\ Tokened(f) /\ Redone(f)
  BY FailTok, TokKeeps
<1>2. Fields(f)
  BY <1>1 DEF Tok, Based, Rowed
<1> HIDE DEF f
<1>3. /\ v.row = f.row /\ v.nano = f.nano /\ v.alarm = f.alarm /\ v.dev.escrowed = FALSE
  BY <1>2 DEF Fields, DevFields
<1> HIDE DEF v
<1>4. Tokened(v) /\ Redone(v) /\ ~Flagged(v)
  BY <1>1, <1>3 DEF Tokened, Redone, Flagged, RolledBack
<1>5. QED BY <1>4 DEF v, f

LEMMA HandleFlag ==
  ASSUME FlagInv, mishaps' = 0, OnlyItself(World'), Handle PROVE FInv(World', inbox')
<1>1. ASSUME NEW topic \in CheckIns, UpsertUnjudged(topic) PROVE FInv(World', inbox')
  BY <1>1, UpsertsFlag
<1>2. ASSUME NEW topic \in CheckIns, NEW F \in Faults,
             UpsertRefused(topic, F) \/ UpsertBound(topic, F)
      PROVE  FInv(World', inbox')
  BY <1>2, UpsertsFlag
<1>3. CASE SaveUpsert
  <2> DEFINE saved == [World EXCEPT !.dev.state = "enrolled"]
  <2>1. mishaps = 0 /\ inbox' = inbox
    BY <1>3 DEF SaveUpsert
  <2>2. UNCHANGED server \/ Become(saved) \/ Become(Capture(saved, FALSE))
    BY <1>3 DEF SaveUpsert
  <2>3. /\ Based(World) /\ (OnlyItself(World) => FInv(World, inbox))
    BY <2>1, FlagFrom
  <2>4. CASE UNCHANGED server
    <3>1. World' = World
      BY <2>4 DEF World, server
    <3>2. QED BY <2>1, <2>3, <3>1
  <2>5. CASE Become(saved) \/ Become(Capture(saved, FALSE))
    <3>1. row' = row
      <4>1. saved.row = row /\ Capture(saved, FALSE).row = row
        <5>1. saved.row = row /\ {"row", "dev"} \subseteq DOMAIN saved
          BY <2>3, WorldIs DEF Based, Rowed, Fields
        <5> HIDE DEF saved
        <5>2. QED BY <5>1 DEF Capture
      <4> HIDE DEF saved
      <4>2. QED BY <2>5, <4>1 DEF Become
    <3>2. FInv(World, inbox)
      BY <2>3, <3>1, WorldIs DEF OnlyItself
    <3>3. FInv(saved, inbox) /\ FInv(Capture(saved, FALSE), inbox)
      BY <2>3, <3>2, SavedF
    <3> HIDE DEF saved
    <3>4. QED BY <2>1, <2>5, <3>3, BecomesF
  <2>6. QED BY <2>2, <2>4, <2>5
<1>4. ASSUME NEW t \in 1 .. Alien, HandleSetToken(t) PROVE FInv(World', inbox')
  <2>1. /\ mishaps = 0 /\ Len(inbox) > 0 /\ inbox' = RemoveAt(inbox, 1)
        /\ inbox[1] = Msg("SetToken", t)
    BY <1>4, FirstArrives DEF HandleSetToken, FlagInv, LockInv
  <2>2. /\ Fields(World) /\ inbox \in Seq(Msgs)
        /\ OnlyItself(World) => FInv(World, inbox)
    BY <2>1, FlagFrom
  <2>3. /\ row' = row /\ snapshot' = snapshot /\ nano' = nano /\ alarm' = alarm
        /\ \/ dev' = dev
           \/ /\ Enrolled(World) /\ nano.token = t
              /\ dev' = [dev EXCEPT !.sealed = t, !.escrowed = TRUE]
    BY <1>4 DEF HandleSetToken
  <2>4. FInv(World, inbox)
    BY <2>2, <2>3, WorldIs DEF OnlyItself
  <2>5. FInv(World, inbox')
    BY <2>1, <2>2, <2>4, TakenF, MsgsDiffer
  <2>6. CASE dev' = dev
    BY <2>3, <2>5, <2>6, WorldIs, SameF
  <2>7. CASE /\ Enrolled(World) /\ nano.token = t
             /\ dev' = [dev EXCEPT !.sealed = t, !.escrowed = TRUE]
    <3>1. t # None
      BY DEF None
    <3>2. DevFields \subseteq DOMAIN dev
      BY <2>2, WorldIs DEF Fields
    <3>3. dev'.sealed = t /\ dev'.state = dev.state
      BY <2>7, <3>2 DEF DevFields
    <3>4. Tokened(World') /\ ~Flagged(World')
      BY <2>3, <2>7, <3>1, <3>3, WorldIs DEF Tokened, Flagged, Enrolled
    <3>5. Redone(World')
      BY <2>3, <2>4, WorldIs DEF FInv, Redone, RolledBack
    <3>6. QED BY <3>4, <3>5, CuredF
  <2>8. QED BY <2>3, <2>6, <2>7
<1>5. CASE HandleCheckOut
  <2> DEFINE f == Fail(World, Certs, "failed")
             v == [f EXCEPT !.dev.state = "unenrolled", !.dev.sealed = None,
                            !.dev.escrowed = FALSE]
  <2>1. UNCHANGED server \/ Become(v)
    BY <1>5 DEF HandleCheckOut
  <2>2. /\ mishaps = 0 /\ Len(inbox) > 0 /\ inbox' = RemoveAt(inbox, 1)
        /\ inbox[1] = Msg("CheckOut", 0)
    BY <1>5, FirstArrives DEF HandleCheckOut, FlagInv, LockInv
  <2>3. /\ Based(World) /\ inbox \in Seq(Msgs) /\ (OnlyItself(World) => FInv(World, inbox))
    BY <2>2, FlagFrom
  <2>4. CASE UNCHANGED server
    <3>1. World' = World
      BY <2>4 DEF World, server
    <3>2. QED BY <2>2, <2>3, <3>1, TakenF, MsgsDiffer
  <2>5. CASE Become(v)
    <3>1. Tok(World, f)
      BY <2>3, FailTok
    <3>2. v.row = f.row
      <4>1. Fields(f)
        BY <3>1 DEF Tok, Based, Rowed
      <4> HIDE DEF f
      <4>2. QED BY <4>1 DEF Fields
    <3>3. FInv(World, inbox)
      <4> HIDE DEF f, v
      <4>1. QED BY <2>3, <2>5, <3>1, <3>2, StrayBefore DEF Tok
    <3>4. Tokened(v) /\ Redone(v) /\ ~Flagged(v)
      BY <2>3, <3>3, CheckOutF DEF FInv
    <3> HIDE DEF v
    <3>5. QED BY <2>5, <3>4, CuredF, BecomesF
  <2>6. QED BY <2>1, <2>4, <2>5
<1>6. ASSUME NEW c \in Certs, NEW x \in Answers(c), Arrives(x), NEW v, Tok(World, v),
             Become(IF ~Answerable(c) THEN World ELSE v)
      PROVE  FInv(World', inbox')
  <2>1. /\ mishaps = 0 /\ Len(inbox) > 0 /\ inbox' = RemoveAt(inbox, 1) /\ inbox[1] = x
    BY <1>6, FirstArrives DEF FlagInv, LockInv
  <2>2. /\ LInv(World, mac, inbox) /\ Rows(World) /\ inbox \in Seq(Msgs)
        /\ (OnlyItself(World) => FInv(World, inbox))
    BY <2>1, FlagFrom
  <2>3. FInv(World, inbox)
    BY <1>6, <2>2, StrayBefore DEF Tok
  <2>4. Answerable(c) => Open(World, c)
    BY <2>2, WorldIs DEF Rows, Tasks, Answerable, Open
  <2>5. FInv(World, inbox')
    <3>1. inbox[1].topic # "Authenticate"
      BY <2>1, MsgsDiffer DEF Answers
    <3>2. QED BY <2>1, <2>2, <2>3, <3>1, TakenF
  <2>6. CASE ~Answerable(c)
    BY <1>6, <2>5, <2>6, BecomesF
  <2>7. CASE Answerable(c)
    <3>1. ~Flagged(World)
      BY <2>1, <2>2, <2>3, <2>4, <2>7, AnswersLate
    <3>2. FInv(v, inbox')
      BY <1>6, <2>3, <3>1, TokF
    <3>3. QED BY <1>6, <2>7, <3>2, BecomesF
  <2>8. QED BY <2>6, <2>7
<1>7. ASSUME NEW c \in Certs, NEW F \in Faults, HandleAcknowledged(c, F)
      PROVE  FInv(World', inbox')
  <2> DEFINE done == [World EXCEPT !.row[c].task = "done"]
             v == IF row[c].bound = 0 THEN done ELSE Finish(done, c, F)
  <2>1. /\ Arrives(Msg("Acknowledged", c))
        /\ Become(IF ~Answerable(c) THEN World ELSE v)
    BY <1>7 DEF HandleAcknowledged
  <2>2. Based(World)
    BY <2>1, FirstArrives, FlagFrom DEF FlagInv, LockInv
  <2>3. Tok(World, done) /\ Based(done)
    BY <2>2, TaskTok DEF Tok
  <2> HIDE DEF done
  <2>4. Tok(World, v)
    BY <2>3, FinishTok, TokTwice
  <2> HIDE DEF v
  <2>5. Msg("Acknowledged", c) \in Answers(c)
    BY DEF Answers
  <2>6. QED BY <1>6, <2>1, <2>4, <2>5
<1>8. ASSUME NEW c \in Certs, NEW F \in Faults, HandleError(c, F)
      PROVE  FInv(World', inbox')
  <2> DEFINE failed == [World EXCEPT !.row[c].task = "failed"]
             v == RollBack(failed, c, F)
  <2>1. /\ Arrives(Msg("Error", c))
        /\ Become(IF ~Answerable(c) THEN World ELSE v)
    BY <1>8 DEF HandleError
  <2>2. Based(World)
    BY <2>1, FirstArrives, FlagFrom DEF FlagInv, LockInv
  <2>3. Tok(World, failed) /\ Based(failed)
    BY <2>2, TaskTok DEF Tok
  <2> HIDE DEF failed
  <2>4. Tok(World, v)
    BY <2>3, RollBackTok, TokTwice
  <2> HIDE DEF v
  <2>5. Msg("Error", c) \in Answers(c)
    BY DEF Answers
  <2>6. QED BY <1>6, <2>1, <2>4, <2>5
<1>9. QED BY <1>1, <1>2, <1>3, <1>4, <1>5, <1>7, <1>8 DEF Handle

(* The same, but for what the flag has nothing to do with.                  *)
LEMMA AsideF ==
  ASSUME NEW w, NEW v, NEW q, FInv(w, q), v.row = w.row, v.snapshot = w.snapshot,
         v.dev.sealed = w.dev.sealed, v.dev.escrowed = w.dev.escrowed,
         v.dev.state = w.dev.state, v.nano.id = w.nano.id, v.nano.token = w.nano.token,
         v.nano.stamped = w.nano.stamped, "redo" \in DOMAIN v.alarm,
         v.alarm.redo \in {w.alarm.redo, None}, w.nano.id \in Certs,
         \A c \in Certs : v.nano.assoc[c] \in Held <=> w.nano.assoc[c] \in Held
  PROVE  FInv(v, q)
<1>1. /\ Assoc(v) = Assoc(w) /\ Bound(v) = Bound(w) /\ (Enrolled(v) <=> Enrolled(w))
      /\ Flagged(v) <=> Flagged(w)
      /\ \A c : Open(v, c) <=> Open(w, c)
      /\ \A c : RolledBack(v, c) <=> RolledBack(w, c)
  BY DEF Assoc, Bound, Enrolled, Open, RolledBack, Flagged
<1>2. \A c : (Stands(v, c) <=> Stands(w, c)) /\ (Fresh(v, c) <=> Fresh(w, c))
  BY <1>1 DEF Stands, Fresh, AlreadyBound
<1>3. Tokened(v)
  BY <1>1 DEF Tokened, FInv
<1>4. Redone(v)
  BY <1>1 DEF Redone, FInv
<1>5. Due(w) => Due(v)
  <2>1. w.nano.id # None
    BY CertsAssumption DEF None
  <2>2. QED BY <1>1, <1>2, <2>1 DEF Due
<1>6. QED BY <1>1, <1>3, <1>4, <1>5 DEF FInv

LEMMA MinuteFlag ==
  ASSUME FlagInv, mishaps' = 0, OnlyItself(World'), Minute PROVE FInv(World', inbox')
<1>0. /\ mishaps = 0 /\ inbox' = inbox
      /\ LInv(World, mac, inbox) /\ Shaped(World) /\ Based(World) /\ Fields(World)
      /\ Nanoed(World) /\ Recorded(World) /\ nano.id \in Certs /\ World.nano.id = nano.id
      /\ OnlyItself(World) => FInv(World, inbox)
      /\ NanoFields \subseteq DOMAIN nano
  <2>1. mishaps = 0 /\ inbox' = inbox
    BY DEF Minute, Reconcile, RetryRefusalRestore, RetryBootstrapRestore, CaptureToken
  <2>2. QED BY <2>1, FlagFrom, WorldIs DEF Nanoed
<1>1. ASSUME NEW F \in Faults, Reconcile(F) PROVE FInv(World', inbox')
  <2> DEFINE c == nano.id
             v == IF Stands(World, c) /\ ~Takeover(World, c) THEN Accept(World, c, "none", F)
                  ELSE Refuse(World, c, F)
  <2>1. Become(v)
    BY <1>1 DEF Reconcile
  <2>2. CASE Stands(World, c) /\ ~Takeover(World, c)
    <3>1. ~RolledBack(World, c)
      BY <1>0, <2>2 DEF Stands, RolledBack, Shaped, Sound
    <3> DEFINE a == Accept(World, c, "none", F)
    <3>2. /\ Tok(World, a)
          /\ NewInstall(World, c) => ~Flagged(a)
          /\ /\ Tokened(World) /\ World.dev.sealed # None /\ ~NewInstall(World, c)
             /\ SameInstall(World, c, "none")
             => ~Flagged(a)
      BY <1>0, <3>1, AcceptTok
    <3>3. v = a
      BY <2>2
    <3> HIDE DEF a, v
    <3>4. FInv(World, inbox)
      BY <1>0, <2>1, <3>2, <3>3, StrayBefore DEF Tok
    <3>5. ASSUME Flagged(World) PROVE ~Flagged(a)
      <4>1. Due(World) /\ Tokened(World)
        BY <3>4, <3>5 DEF FInv
      <4>2. CASE World.row[c].kind = "renewal" /\ Open(World, c)
        <5>1. Enrolled(World) /\ World.dev.sealed # None
          BY <1>0, <3>5, <4>1, <4>2 DEF Flagged, Tokened
        <5>2. ~NewInstall(World, c) /\ SameInstall(World, c, "none")
          BY <4>2, <5>1 DEF NewInstall, SameInstall
        <5>3. QED BY <3>2, <4>1, <5>1, <5>2
      <4>3. CASE World.row[c].kind \in {"manual", "ade", "rts"} /\ Fresh(World, c)
        BY <3>2, <4>3 DEF NewInstall
      <4>4. QED BY <1>0, <4>1, <4>2, <4>3 DEF Due
    <3>6. FInv(a, inbox)
      BY <3>2, <3>4, <3>5, TokF
    <3>7. QED BY <1>0, <2>1, <3>3, <3>6, BecomesF
  <2>3. CASE ~(Stands(World, c) /\ ~Takeover(World, c))
    <3> DEFINE r == Refuse(World, c, F)
    <3>1. Kept(World, r)
      BY <1>0, RefuseKeeps DEF Based
    <3>2. v = r
      BY <2>3
    <3>3. FInv(World, inbox)
      <4> HIDE DEF r, v
      <4>1. QED BY <1>0, <2>1, <3>1, <3>2, StrayBefore DEF Kept
    <3>4. /\ World.row[c].kind # "free"
          /\ World.row[c].kind = "renewal" => RolledBack(World, c)
      BY <1>0, <2>3 DEF Recorded, Stands, Takeover, RolledBack
    <3>5. Flagged(World) => c \in Assoc(World)
      BY <1>0, <3>3 DEF FInv, Due
    <3>6. Tokened(r) /\ Redone(r) /\ ~Flagged(r)
      BY <1>0, <3>3, <3>4, <3>5, RefuseTok DEF FInv
    <3> HIDE DEF r, v
    <3>7. QED BY <2>1, <3>2, <3>6, CuredF, BecomesF
  <2>4. QED BY <2>2, <2>3
<1>2. CASE RetryRefusalRestore
  <2>1. /\ row' = row /\ dev' = dev /\ snapshot' = snapshot
        /\ alarm' = [alarm EXCEPT !.redo = None]
        /\ \/ nano' = nano
           \/ nano.id = alarm.redo /\ nano' = [nano EXCEPT !.id = dev.pem]
    BY <1>2 DEF RetryRefusalRestore
  <2>2. FInv(World, inbox)
    BY <1>0, <2>1, WorldIs DEF OnlyItself
  <2>3. "redo" \in DOMAIN alarm' /\ alarm'.redo = None
    BY <2>1, <2>2, WorldIs DEF FInv, Redone
  <2>4. CASE nano' = nano
    BY <1>0, <2>1, <2>2, <2>3, <2>4, WorldIs, AsideF
  <2>5. CASE nano.id = alarm.redo /\ nano' = [nano EXCEPT !.id = dev.pem]
    <3>1. ~Flagged(World)
      BY <1>0, <2>2, <2>5, WorldIs DEF FInv, Due
    <3>2. nano'.token = nano.token /\ nano'.stamped = nano.stamped
      BY <1>0, <2>5 DEF NanoFields
    <3>3. Tokened(World') /\ ~Flagged(World')
      BY <2>1, <2>2, <3>1, <3>2, WorldIs DEF FInv, Tokened, Flagged, Enrolled, Open
    <3>4. Redone(World')
      BY <2>3, WorldIs DEF Redone
    <3>5. QED BY <3>3, <3>4, CuredF
  <2>6. QED BY <2>1, <2>4, <2>5
<1>3. CASE RetryBootstrapRestore
  <2> DEFINE v == WriteToken(World)
  <2>1. Become(v) /\ Enrolled(World) /\ World.dev.sealed # None
    BY <1>3, WorldIs DEF RetryBootstrapRestore
  <2>2. Tok(World, v) /\ v.nano.token = World.dev.sealed
    BY <1>0, <2>1, TokensTok, WriteTokenTok
  <2> HIDE DEF v
  <2>3. FInv(World, inbox)
    BY <1>0, <2>1, <2>2, StrayBefore DEF Tok
  <2>4. ~Flagged(v)
    BY <2>1, <2>2 DEF Flagged
  <2>5. FInv(v, inbox)
    BY <2>2, <2>3, <2>4, TokF
  <2>6. QED BY <1>0, <2>1, <2>5, BecomesF
<1>4. CASE CaptureToken
  <2> DEFINE v == Capture(World, FALSE)
  <2>1. Become(v)
    BY <1>4 DEF CaptureToken
  <2>2. Tok(World, v)
    BY <1>0, TokensTok
  <2>3. FInv(World, inbox)
    <3> HIDE DEF v
    <3>1. QED BY <1>0, <2>1, <2>2, StrayBefore DEF Tok
  <2>4. FInv(v, inbox)
    BY <1>0, <2>3, CaptureF
  <2> HIDE DEF v
  <2>5. QED BY <1>0, <2>1, <2>4, BecomesF
<1>5. QED BY <1>1, <1>2, <1>3, <1>4 DEF Minute

LEMMA IssueFlag ==
  ASSUME FlagInv, mishaps' = 0, OnlyItself(World'), Issue PROVE FInv(World', inbox')
<1>0. ASSUME mishaps' = mishaps
      PROVE  /\ LInv(World, mac, inbox) /\ Shaped(World) /\ Based(World) /\ Fields(World)
             /\ Nanoed(World) /\ Recorded(World) /\ nano.id \in Certs
             /\ World.nano.id = nano.id /\ Rowed(World)
             /\ OnlyItself(World) => FInv(World, inbox)
             /\ DevFields \subseteq DOMAIN dev /\ NanoFields \subseteq DOMAIN nano
  <2>1. mishaps = 0
    BY <1>0
  <2>2. QED BY <2>1, FlagFrom, WorldIs DEF Nanoed, Fields, Based
<1>1. ASSUME NEW c \in Certs, Renew(c) PROVE FInv(World', inbox')
  <2> DEFINE k == CopyKept(World)
             r == [FreeRow EXCEPT !.kind = "renewal", !.live = TRUE, !.task = "open",
                                  !.pem = nano.id]
             v == [k EXCEPT !.row[c] = r]
  <2>1. /\ inbox' = inbox /\ mishaps' = mishaps /\ row[c].kind = "free" /\ Become(v)
        /\ Enrolled(World) /\ \A b \in Certs : ~Open(World, b)
    BY <1>1 DEF Renew, NextCert
  <2>2. /\ Fields(k) /\ k.row = row /\ k.nano = nano /\ k.snapshot = snapshot
        /\ k.alarm = alarm /\ k.dev.state = dev.state
        /\ k.dev.escrowed => dev.escrowed /\ k.dev.sealed # None
    <3>1. Fields(World)
      BY <1>0, <2>1
    <3>2. CASE ~dev.escrowed \/ dev.sealed # None
      BY <3>1, <3>2, WorldIs DEF CopyKept
    <3>3. CASE ~(~dev.escrowed \/ dev.sealed # None) /\ nano.token = None
      <4>1. k = [World EXCEPT !.dev.escrowed = FALSE]
        BY <3>3, WorldIs DEF CopyKept
      <4>2. QED BY <3>1, <4>1, WorldIs DEF Fields, DevFields
    <3>4. CASE ~(~dev.escrowed \/ dev.sealed # None) /\ nano.token # None
      <4>1. k = [World EXCEPT !.dev.sealed = nano.token]
        BY <3>4, WorldIs DEF CopyKept
      <4>2. QED BY <3>1, <3>4, <4>1, WorldIs DEF Fields, DevFields
    <3>5. QED BY <3>2, <3>3, <3>4
  <2> HIDE DEF k
  <2>3. /\ v.row = [row EXCEPT ![c] = r] /\ v.dev = k.dev /\ v.nano = nano
        /\ v.snapshot = snapshot /\ v.alarm = alarm
    BY <2>2 DEF Fields
  <2>4. r.kind = "renewal" /\ r.bound = 0
    BY DEF FreeRow
  <2> HIDE DEF r, v
  <2>5. /\ v.row[c] = r /\ \A b \in Certs \ {c} : v.row[b] = row[b]
    BY <1>0, <2>1, <2>3, WorldIs DEF Rowed
  <2>6. FInv(World, inbox)
    <3>1. row' = v.row
      BY <2>1 DEF Become
    <3>2. ASSUME NEW b \in Certs PROVE row[b].kind # "stray"
      <4>1. CASE b = c BY <2>1, <4>1
      <4>2. CASE b # c BY <2>5, <3>1, <4>2, WorldIs DEF OnlyItself
      <4>3. QED BY <4>1, <4>2
    <3>3. QED BY <1>0, <2>1, <3>2, WorldIs DEF OnlyItself
  <2>7. Tokened(v)
    BY <2>1, <2>2, <2>3, <2>6, WorldIs DEF FInv, Tokened, Enrolled
  <2>8. Redone(v)
    <3>1. alarm.redo # c
      BY <2>1, <2>6, WorldIs, CertsAssumption DEF FInv, Redone, None
    <3>2. QED BY <2>3, <2>5, <2>6, <3>1, WorldIs DEF FInv, Redone, RolledBack
  <2>9. ASSUME Flagged(v) PROVE Due(v) /\ Called(inbox, v.nano.id)
    <3>1. Flagged(World)
      BY <2>2, <2>3, <2>9, WorldIs DEF Flagged
    <3>2. Due(World) /\ Called(inbox, nano.id)
      BY <1>0, <2>1, <2>6, <3>1 DEF FInv
    <3>3. nano.id # c
      BY <1>0, <2>1, WorldIs DEF Recorded
    <3>4. v.row[nano.id] = row[nano.id] /\ nano.id \in Certs
      BY <1>0, <2>1, <2>5, <3>3
    <3>5. nano.id \in Bound(v) <=> nano.id \in Bound(World)
      BY <3>4, WorldIs DEF Bound
    <3>6. /\ Assoc(v) = Assoc(World) /\ (Stands(v, nano.id) <=> Stands(World, nano.id))
          /\ Fresh(v, nano.id) <=> Fresh(World, nano.id)
          /\ Open(v, nano.id) <=> Open(World, nano.id)
      BY <2>3, <3>4, <3>5, WorldIs DEF Assoc, Stands, Fresh, AlreadyBound, Open
    <3>7. QED BY <2>3, <3>2, <3>4, <3>6, WorldIs DEF Due
  <2>10. FInv(v, inbox)
    BY <2>7, <2>8, <2>9 DEF FInv
  <2>11. QED BY <2>1, <2>10, BecomesF
<1>2. ASSUME NEW c \in Certs, NEW how, EndTask(c, how) PROVE FALSE
  BY <1>2 DEF EndTask, Mishap, FlagInv, LockInv
<1>3. CASE Allow
  <2>1. /\ UNCHANGED <<row, snapshot, nano, alarm, inbox, mishaps>>
        /\ dev' = [dev EXCEPT !.allowance = TRUE]
    BY <1>3 DEF Allow
  <2>2. FInv(World, inbox)
    BY <1>0, <2>1, WorldIs DEF OnlyItself
  <2>3. dev'.sealed = dev.sealed /\ dev'.escrowed = dev.escrowed /\ dev'.state = dev.state
    BY <1>0, <2>1 DEF DevFields
  <2>4. QED BY <1>0, <2>1, <2>2, <2>3, WorldIs, AsideF DEF FInv, Redone
<1>4. CASE AgeAssociations
  <2> DEFINE assoc == [c \in Certs |-> IF nano.assoc[c] = "young" THEN "aged"
                                       ELSE nano.assoc[c]]
  <2>1. /\ UNCHANGED <<row, dev, snapshot, alarm, inbox, mishaps>>
        /\ nano' = [nano EXCEPT !.assoc = assoc]
    BY <1>4 DEF AgeAssociations
  <2>2. \A b \in Certs : assoc[b] \in Held <=> nano.assoc[b] \in Held
    BY DEF Held
  <2> HIDE DEF assoc
  <2>3. /\ nano'.id = nano.id /\ nano'.token = nano.token /\ nano'.stamped = nano.stamped
        /\ nano'.assoc = assoc
    BY <1>0, <2>1 DEF NanoFields
  <2>4. FInv(World, inbox)
    BY <1>0, <2>1, WorldIs DEF OnlyItself
  <2>5. \A b \in Certs : World'.nano.assoc[b] \in Held <=> World.nano.assoc[b] \in Held
    BY <2>2, <2>3, WorldIs
  <2>6. "redo" \in DOMAIN alarm /\ World.nano.id \in Certs
    BY <1>0, <2>1, <2>4, WorldIs DEF FInv, Redone
  <2>7. QED BY <2>1, <2>3, <2>4, <2>5, <2>6, WorldIs, AsideF
<1>5. CASE RefusalLapses
  <2>1. /\ UNCHANGED <<row, dev, snapshot, nano, inbox, mishaps>>
        /\ alarm' = [alarm EXCEPT !.recent = FALSE]
    BY <1>5 DEF RefusalLapses
  <2>2. FInv(World, inbox)
    BY <1>0, <2>1, WorldIs DEF OnlyItself
  <2>3. "redo" \in DOMAIN alarm' /\ alarm'.redo = alarm.redo
    BY <2>1, <2>2, WorldIs DEF FInv, Redone
  <2>4. QED BY <1>0, <2>1, <2>2, <2>3, WorldIs, AsideF
<1>6. QED BY <1>1, <1>2, <1>3, <1>4, <1>5 DEF Issue

(* A webhook is sent; the world stays.                                      *)
LEMMA SentF ==
  ASSUME NEW q \in Seq(Msgs), NEW x \in Msgs, FInv(World, q), UNCHANGED server
  PROVE  FInv(World', Append(q, x))
<1>1. World' = World
  BY DEF World, server
<1>2. FInv(World, Append(q, x))
  BY CalledSent DEF FInv
<1>3. QED BY <1>1, <1>2

LEMMA MsgsAre ==
  /\ \A topic \in CheckIns \cup {"CheckOut"} : Msg(topic, 0) \in Msgs
  /\ \A c \in Certs : Msg("Acknowledged", c) \in Msgs /\ Msg("Error", c) \in Msgs
  /\ \A t \in Nat : Msg("SetToken", t) \in Msgs
BY CertsAssumption DEF Msg, Msgs, Topics, CheckIns

(* NanoMDM recorded an Authenticate.                                        *)
LEMMA AuthenticatedToken ==
  ASSUME NEW c, NanoFields \subseteq DOMAIN nano
  PROVE  Authenticated(c).token = None /\ Authenticated(c).stamped = FALSE
BY DEF Authenticated, NanoFields

LEMMA OutsideFlag ==
  ASSUME FlagInv, mishaps' = 0, OnlyItself(World'), Outside PROVE FInv(World', inbox')
<1>0. ASSUME mishaps' = mishaps
      PROVE  /\ LInv(World, mac, inbox) /\ Shaped(World) /\ Fields(World)
             /\ Nanoed(World) /\ Recorded(World) /\ nano.id \in Certs /\ Rows(World)
             /\ World.nano.id = nano.id /\ Rowed(World) /\ Asked(World, mac, inbox)
             /\ Shape(mac, inbox) /\ inbox \in Seq(Msgs)
             /\ OnlyItself(World) => FInv(World, inbox)
             /\ DevFields \subseteq DOMAIN dev /\ NanoFields \subseteq DOMAIN nano
             /\ DOMAIN nano.assoc = Certs /\ DOMAIN row = Certs
             /\ \A c \in Certs : RowFields \subseteq DOMAIN row[c]
  <2>1. mishaps = 0
    BY <1>0
  <2>2. QED BY <2>1, FlagFrom, WorldIs DEF Nanoed, Fields, Based, Rowed
<1>1. ASSUME NEW c \in Certs, MacRenews(c) PROVE FInv(World', inbox')
  <2> DEFINE r == [row[c] EXCEPT !.used = TRUE]
  <2>1. /\ row[c].kind = "renewal" /\ row' = [row EXCEPT ![c] = r]
        /\ UNCHANGED <<dev, snapshot, nano, alarm, inbox, mishaps>>
    BY <1>1 DEF MacRenews
  <2>2. /\ r.kind = row[c].kind /\ r.bound = row[c].bound /\ r.holds = row[c].holds
        /\ r.live = row[c].live /\ r.task = row[c].task /\ r.used = TRUE
    BY <1>0, <2>1 DEF RowFields
  <2> HIDE DEF r
  <2>3. \A b \in Certs : /\ row'[b].kind = row[b].kind /\ row'[b].bound = row[b].bound
                         /\ row'[b].holds = row[b].holds /\ row'[b].live = row[b].live
                         /\ row'[b].task = row[b].task
                         /\ row'[b].used = row[b].used \/ row'[b].used = TRUE
    BY <1>0, <2>1, <2>2
  <2>4. FInv(World, inbox)
    BY <1>0, <2>1, <2>3, WorldIs DEF OnlyItself
  <2>5. /\ Bound(World') = Bound(World) /\ Assoc(World') = Assoc(World)
        /\ Enrolled(World') <=> Enrolled(World)
        /\ Flagged(World') <=> Flagged(World)
        /\ \A b \in Certs : /\ Open(World', b) <=> Open(World, b)
                            /\ RolledBack(World', b) <=> RolledBack(World, b)
    BY <2>1, <2>3, WorldIs DEF Bound, Assoc, Enrolled, Flagged, Open, RolledBack
  <2>6. \A b \in Certs : /\ Stands(World, b) => Stands(World', b)
                         /\ Fresh(World', b) <=> Fresh(World, b)
    BY <2>1, <2>3, <2>5, WorldIs DEF Stands, Fresh, AlreadyBound
  <2>7. Tokened(World') /\ Redone(World')
    BY <2>1, <2>3, <2>4, <2>5, WorldIs DEF FInv, Tokened, Redone
  <2>8. Due(World) => Due(World')
    BY <1>0, <2>1, <2>3, <2>5, <2>6, WorldIs DEF Due
  <2>9. QED BY <2>1, <2>4, <2>5, <2>7, <2>8, WorldIs DEF FInv
<1>2. ASSUME NEW c \in Certs, MacFails(c) PROVE FInv(World', inbox')
  <2>1. /\ inbox' = Append(inbox, Msg("Error", c)) /\ UNCHANGED server /\ mishaps' = mishaps
    BY <1>2 DEF MacFails, Send
  <2>2. FInv(World, inbox)
    BY <1>0, <2>1, WorldIs DEF OnlyItself, server
  <2>3. QED BY <1>0, <2>1, <2>2, SentF, MsgsAre
<1>3. ASSUME NEW c \in Certs, MacAcknowledges(c) PROVE FInv(World', inbox')
  <2>1. /\ inbox' = Append(inbox, Msg("Acknowledged", c)) /\ UNCHANGED server
        /\ mishaps' = mishaps
    BY <1>3 DEF MacAcknowledges, Send
  <2>2. FInv(World, inbox)
    BY <1>0, <2>1, WorldIs DEF OnlyItself, server
  <2>3. QED BY <1>0, <2>1, <2>2, SentF, MsgsAre
<1>4. ASSUME NEW c \in Certs, OtherAuthenticates(c) PROVE FALSE
  <2>1. row' = [row EXCEPT ![c].kind = "stray"] /\ mishaps' = mishaps
    BY <1>4 DEF OtherAuthenticates
  <2>2. row'[c].kind = "stray"
    BY <1>0, <2>1 DEF RowFields
  <2>3. QED BY <2>2, WorldIs DEF OnlyItself
<1>5. ASSUME NEW c \in Certs, OtherSetsToken(c) PROVE FALSE
  BY <1>5, WorldIs DEF OtherSetsToken, OnlyItself
<1>6. ASSUME NEW c \in Certs, NEW kind \in LaterKinds, NEW erased \in BOOLEAN,
             MacEnrolls(c, kind, erased)
      PROVE  FInv(World', inbox')
  <2> DEFINE r == [FreeRow EXCEPT !.kind = kind, !.used = TRUE]
  <2>1. /\ row[c].kind = "free" /\ kind \in {"manual", "ade", "rts"} /\ inbox = <<>>
        /\ row' = [row EXCEPT ![c] = r] /\ dev' = [dev EXCEPT !.erased = @ \/ erased]
        /\ nano' = Authenticated(c) /\ inbox' = Append(inbox, Msg("Authenticate", 0))
        /\ UNCHANGED <<snapshot, alarm, mishaps>>
    BY <1>6 DEF MacEnrolls, NextCert, Quiet, Send
  <2>2. r.kind = kind /\ r.used = TRUE /\ r.bound = 0 /\ r.task = "none" /\ r.holds = FALSE
    BY DEF FreeRow
  <2> HIDE DEF r
  <2>3. row'[c] = r /\ \A b \in Certs \ {c} : row'[b] = row[b]
    BY <1>0, <2>1
  <2>4. FInv(World, inbox)
    <3>1. ASSUME NEW b \in Certs PROVE row[b].kind # "stray"
      <4>1. CASE b = c BY <2>1, <4>1
      <4>2. CASE b # c BY <2>3, <4>2, WorldIs DEF OnlyItself
      <4>3. QED BY <4>1, <4>2
    <3>2. QED BY <1>0, <2>1, <3>1, WorldIs DEF OnlyItself
  <2>5. dev'.sealed = dev.sealed /\ dev'.escrowed = dev.escrowed /\ dev'.state = dev.state
    BY <1>0, <2>1 DEF DevFields
  <2>6. /\ nano'.id = c /\ nano'.assoc[c] \in Held
        /\ nano'.token = None /\ nano'.stamped = FALSE
    BY <1>0, <2>1, AuthenticatedIs, AuthenticatedToken
  <2>7. \A b \in Certs : Open(World', b) => Open(World, b)
    BY <2>2, <2>3, WorldIs DEF Open
  <2>8. Tokened(World')
    BY <2>4, <2>5, <2>6, <2>7, WorldIs DEF FInv, Tokened, Enrolled
  <2>9. alarm.redo # c
    BY <2>1, <2>4, WorldIs, CertsAssumption DEF FInv, Redone, None
  <2>10. Redone(World')
    BY <2>1, <2>3, <2>4, <2>9, WorldIs DEF FInv, Redone, RolledBack
  <2>11. Due(World')
    <3>1. c \in Assoc(World') /\ Stands(World', c)
      BY <2>1, <2>2, <2>3, <2>6, WorldIs DEF Assoc, Stands
    <3>2. Fresh(World', c)
      BY <2>1, <2>2, <2>3, WorldIs DEF Fresh, AlreadyBound, Bound
    <3>3. QED BY <2>1, <2>2, <2>3, <2>6, <2>9, <3>1, <3>2, WorldIs DEF Due
  <2>12. Called(inbox', c)
    <3>1. \A y : ~OnTheWay(inbox, y)
      BY <2>1 DEF OnTheWay
    <3>2. Msg("Authenticate", 0) \in Msgs /\ Msg("Authenticate", 0).topic = "Authenticate"
      BY MsgsAre, MsgsDiffer DEF CheckIns
    <3>3. QED BY <1>0, <2>1, <3>1, <3>2, CalledSent
  <2>13. QED BY <2>6, <2>8, <2>10, <2>11, <2>12, WorldIs DEF FInv
<1>7. CASE MacAuthenticates
  <2> DEFINE c == mac.trying
  <2>1. /\ c # None /\ nano.assoc[c] = "no" /\ nano' = Authenticated(c)
        /\ inbox' = Append(inbox, Msg("Authenticate", 0))
        /\ UNCHANGED <<row, dev, snapshot, alarm, mishaps>>
    BY <1>7 DEF MacAuthenticates, Send
  <2>2. FInv(World, inbox)
    BY <1>0, <2>1, WorldIs DEF OnlyItself
  <2>3. /\ c \in Certs /\ row[c].kind = "renewal" /\ row[c].used /\ Open(World, c)
        /\ c \notin mac.answered
    BY <1>0, <2>1, WorldIs DEF Asked, Shape, Tries
  <2> HIDE DEF c
  <2>4. /\ nano'.id = c /\ nano'.assoc[c] \in Held
        /\ nano'.token = None /\ nano'.stamped = FALSE
    BY <1>0, <2>1, <2>3, AuthenticatedIs, AuthenticatedToken
  <2>5. Open(World', c) /\ \A b \in Certs : Open(World', b) => Open(World, b)
    BY <2>1, <2>3, WorldIs DEF Open
  <2>6. Tokened(World') /\ Redone(World')
    BY <2>1, <2>2, <2>4, <2>5, WorldIs DEF FInv, Tokened, Redone, RolledBack, Enrolled
  <2>7. row[c].bound > 0 => row[c].holds
    <3>1. Tasks(World)
      BY <1>0, <2>1 DEF Rows
    <3>2. QED BY <2>3, <3>1, WorldIs DEF Tasks
  <2>8. alarm.redo # c
    BY <2>1, <2>2, <2>3, <2>7, WorldIs DEF FInv, Redone, RolledBack
  <2>9. c \in Assoc(World') /\ Stands(World', c)
    BY <2>1, <2>3, <2>4, <2>7, WorldIs DEF Assoc, Stands
  <2>10. Due(World')
    BY <2>1, <2>3, <2>4, <2>5, <2>8, <2>9, WorldIs DEF Due
  <2>11. Called(inbox', c)
    <3>1. \A y \in Answers(c) : ~OnTheWay(inbox, y)
      BY <1>0, <2>1, <2>3 DEF Asked, Answered, Answers
    <3>2. Msg("Authenticate", 0) \in Msgs /\ Msg("Authenticate", 0).topic = "Authenticate"
      BY MsgsAre, MsgsDiffer DEF CheckIns
    <3>3. QED BY <1>0, <2>1, <3>1, <3>2, CalledSent
  <2>12. QED BY <2>4, <2>6, <2>10, <2>11, WorldIs DEF FInv
<1>8. CASE MacConfirms \/ MacTokenUpdate
  <2>1. /\ inbox' = Append(inbox, Msg("TokenUpdate", 0)) /\ UNCHANGED server
        /\ mishaps' = mishaps
    BY <1>8 DEF MacConfirms, MacTokenUpdate, Send
  <2>2. FInv(World, inbox)
    BY <1>0, <2>1, WorldIs DEF OnlyItself, server
  <2>3. QED BY <1>0, <2>1, <2>2, SentF, MsgsAre DEF CheckIns
<1>9. CASE MacSetsToken
  <2> DEFINE t == mac.tokens + 1
  <2>1. /\ nano' = [nano EXCEPT !.token = t, !.stamped = TRUE]
        /\ UNCHANGED <<row, dev, snapshot, alarm, mishaps>>
    BY <1>9 DEF MacSetsToken
  <2>2. FInv(World, inbox)
    BY <1>0, <2>1, WorldIs DEF OnlyItself
  <2>3. t # None
    BY <1>0, <2>1 DEF Shape, None
  <2> HIDE DEF t
  <2>4. nano'.token = t
    BY <1>0, <2>1 DEF NanoFields
  <2>5. Tokened(World') /\ Redone(World') /\ ~Flagged(World')
    BY <2>1, <2>2, <2>3, <2>4, WorldIs
       DEF FInv, Tokened, Redone, RolledBack, Flagged, Enrolled, Open
  <2>6. QED BY <2>5, CuredF
<1>10. CASE MacChecksOut
  <2>1. /\ inbox' = Append(inbox, Msg("CheckOut", 0)) /\ UNCHANGED server
        /\ mishaps' = mishaps
    BY <1>10 DEF MacChecksOut, Send
  <2>2. FInv(World, inbox)
    BY <1>0, <2>1, WorldIs DEF OnlyItself, server
  <2>3. QED BY <1>0, <2>1, <2>2, SentF, MsgsAre
<1>11. CASE LoseWebhook
  BY <1>11 DEF LoseWebhook, Mishap, FlagInv, LockInv
<1>12. QED BY <1>1, <1>2, <1>3, <1>4, <1>5, <1>6, <1>7, <1>8, <1>9, <1>10, <1>11 DEF Outside

(* The flag of the escrowed token is only set while NanoMDM holds a token,  *)
(* once the webhooks are handled: a renewal clears the token there, and its *)
(* check-in puts the sealed copy back or takes the flag down; so do         *)
(* refusals, rollbacks and enrollments (identity.py apply_acceptance,       *)
(* apply_refusal; bootstrap.py).                                            *)
THEOREM FlagIsTrue == Spec => []FlagTrue
<1>1. Init => FlagInv
  <2> SUFFICES ASSUME Init PROVE FInv(World, inbox)
    BY InitLock DEF FlagInv
  <2>1. PICK known \in BOOLEAN, t \in {None, MaxTokens} :
           /\ dev = [state |-> "enrolled", id |-> IF known THEN 1 ELSE None,
                     pem |-> IF known THEN 1 ELSE None, sealed |-> None,
                     escrowed |-> t # None, erased |-> FALSE, allowance |-> FALSE]
           /\ nano = [id |-> 1, assoc |-> [c \in Certs |-> IF c = 1 THEN "aged" ELSE "no"],
                      token |-> t, stamped |-> t # None]
    BY DEF Init
  <2>2. alarm = [recent |-> FALSE, redo |-> None]
    BY DEF Init
  <2>3. \A c \in Certs : ~Open(World, c)
    <3>1. \A c \in Certs : row[c].task = "none"
      BY DEF Init, FreeRow
    <3>2. QED BY <3>1, WorldIs DEF Open
  <2>4. dev.state = "enrolled" /\ dev.escrowed = (t # None) /\ nano.token = t
        /\ nano.stamped = (t # None)
    BY <2>1
  <2>5. Tokened(World) /\ ~Flagged(World)
    BY <2>3, <2>4, WorldIs DEF Tokened, Flagged, Enrolled
  <2>6. Redone(World)
    BY <2>2, WorldIs DEF Redone
  <2>7. QED BY <2>5, <2>6, CuredF
<1>2. FlagInv /\ [Next]_vars => FlagInv'
  <2> SUFFICES ASSUME FlagInv, [Next]_vars PROVE FlagInv'
    OBVIOUS
  <2>1. mishaps' \in Nat /\ (mishaps' = 0 => mishaps = 0)
    BY MishapsCount DEF FlagInv, LockInv
  <2>2. LockInv'
    BY LockStays DEF FlagInv
  <2>3. ASSUME mishaps' = 0, OnlyItself(World') PROVE FInv(World', inbox')
    <3>1. CASE Next
      BY <2>3, <3>1, HandleFlag, MinuteFlag, IssueFlag, OutsideFlag DEF Next
    <3>2. CASE UNCHANGED vars
      <4>1. World' = World /\ inbox' = inbox
        BY <3>2 DEF vars, World
      <4>2. QED BY <2>1, <2>3, <4>1 DEF FlagInv
    <3>3. QED BY <3>1, <3>2
  <2>4. QED BY <2>2, <2>3 DEF FlagInv
<1>3. FlagInv => FlagTrue
  <2> SUFFICES ASSUME FlagInv, dev.escrowed, Quiet, mishaps = 0,
                      \A c \in Certs : row[c].kind # "stray", nano.token = None
               PROVE  FALSE
    BY DEF FlagTrue
  <2>1. FInv(World, inbox)
    BY WorldIs DEF FlagInv, OnlyItself
  <2>2. Called(inbox, nano.id)
    BY <2>1, WorldIs DEF FInv, Flagged
  <2>3. inbox = <<>>
    BY DEF Quiet
  <2>4. QED BY <2>2, <2>3 DEF Called
<1>4. QED BY <1>1, <1>2, <1>3, PTL DEF Spec

----------------------------------------------------------------------------
(* The sealed copy of the token.                                            *)
LEMMA CopiesTwice ==
  ASSUME NEW w, NEW v, NEW x, NEW m, Copies(w, v, m), Copies(v, x, m) PROVE Copies(w, x, m)
BY DEF Copies

(* The tokens stay, or the copy is dropped.                                 *)
LEMMA SameCopies ==
  ASSUME NEW w, NEW v, NEW m, Based(v), v.nano.token = w.nano.token,
         v.dev.sealed \in {w.dev.sealed, None}, v.dev.state = w.dev.state,
         IsFun(w.nano) /\ IsFun(w.nano.assoc) => IsFun(v.nano) /\ IsFun(v.nano.assoc)
  PROVE  Copies(w, v, m)
<1>1. SUFFICES ASSUME Copied(w, m) PROVE Copied(v, m) /\ (Mixed(v, m) => Mixed(w, m))
  BY DEF Copies
<1>2. Own(v, m) => Own(w, m) /\ v.dev.sealed = w.dev.sealed
  BY DEF Own
<1>3. /\ m.tokens \in 0 .. MaxTokens /\ m.token \in 0 .. m.tokens
      /\ v.nano.token \in 0 .. m.tokens \cup {Alien}
      /\ v.dev.sealed \in 0 .. m.tokens \cup {Alien}
  BY <1>1, BoundsAssumption DEF Copied, None
<1>4. QED BY <1>1, <1>2, <1>3 DEF Copied, Mixed, Enrolled

(* NanoMDM's row stays a function.                                          *)
LEMMA FunKept ==
  ASSUME NEW f, NEW a, NEW x
  PROVE  IsFun([f EXCEPT ![a] = x])
BY DEF IsFun

LEMMA PruneCopies ==
  ASSUME NEW w, Based(w), NEW keep, NEW F, NEW m
  PROVE  Copies(w, Prune(w, keep, F), m)
<1> DEFINE assoc == [c \in Certs |-> IF c \in Assoc(w) \ keep THEN "no" ELSE w.nano.assoc[c]]
           v == Prune(w, keep, F)
<1>1. Fields(v) /\ Nanoed(v) /\ Rest(w, v) /\ Rowed(w) /\ Fields(w) /\ Nanoed(w)
  BY PruneDoes DEF Based, Rowed
<1>2. v = w \/ v = [w EXCEPT !.nano.assoc = assoc]
  BY DEF Prune
<1>3. IsFun(assoc)
  BY DEF IsFun
<1> HIDE DEF assoc, v
<1>4. IsFun(w.nano) /\ IsFun(w.nano.assoc) => IsFun(v.nano) /\ IsFun(v.nano.assoc)
  <2>1. SUFFICES ASSUME v = [w EXCEPT !.nano.assoc = assoc] PROVE IsFun(v.nano) /\ IsFun(v.nano.assoc)
    BY <1>2
  <2>2. v.nano = [w.nano EXCEPT !.assoc = assoc]
    BY <1>1, <2>1 DEF Fields
  <2>3. v.nano.assoc = assoc
    BY <1>1, <2>2 DEF Nanoed, NanoFields
  <2>4. QED BY <1>3, <2>2, <2>3, FunKept
<1>5. Based(v)
  BY <1>1 DEF Rest, Based, Rowed
<1>6. QED BY <1>1, <1>4, <1>5, SameCopies DEF Rest, v

LEMMA ParkCopies ==
  ASSUME NEW w, Based(w), NEW S, NEW F, NEW m
  PROVE  Copies(w, Park(w, S, F), m)
<1> DEFINE assoc == [c \in Certs |-> IF c \in S THEN "parked" ELSE w.nano.assoc[c]]
           v == Park(w, S, F)
<1>1. Fields(v) /\ Nanoed(v) /\ Rest(w, v) /\ Rowed(w) /\ Fields(w) /\ Nanoed(w)
  BY ParkDoes DEF Based, Rowed
<1>2. v = w \/ v = [w EXCEPT !.nano.assoc = assoc]
  BY DEF Park
<1>3. IsFun(assoc)
  BY DEF IsFun
<1> HIDE DEF assoc, v
<1>4. IsFun(w.nano) /\ IsFun(w.nano.assoc) => IsFun(v.nano) /\ IsFun(v.nano.assoc)
  <2>1. SUFFICES ASSUME v = [w EXCEPT !.nano.assoc = assoc] PROVE IsFun(v.nano) /\ IsFun(v.nano.assoc)
    BY <1>2
  <2>2. v.nano = [w.nano EXCEPT !.assoc = assoc]
    BY <1>1, <2>1 DEF Fields
  <2>3. v.nano.assoc = assoc
    BY <1>1, <2>2 DEF Nanoed, NanoFields
  <2>4. QED BY <1>3, <2>2, <2>3, FunKept
<1>5. Based(v)
  BY <1>1 DEF Rest, Based, Rowed
<1>6. QED BY <1>1, <1>4, <1>5, SameCopies DEF Rest, v

LEMMA WriteTokenCopies ==
  ASSUME NEW w, Based(w), w.dev.sealed # None, NEW m
  PROVE  Copies(w, WriteToken(w), m) /\ (Copied(w, m) => ~Mixed(WriteToken(w), m))
<1> DEFINE v == WriteToken(w)
<1>1. /\ Fields(v) /\ Nanoed(v) /\ v.row = w.row /\ v.dev.state = w.dev.state
      /\ v.dev.sealed = w.dev.sealed /\ v.nano.token = w.dev.sealed
      /\ v.nano.assoc = w.nano.assoc /\ Fields(w) /\ Nanoed(w) /\ Rowed(w)
  BY WriteTokenTok DEF Based, Rowed
<1>2. v.nano = [[w.nano EXCEPT !.token = w.dev.sealed] EXCEPT !.stamped = TRUE]
  BY <1>1 DEF WriteToken, Fields
<1> HIDE DEF v
<1>3. Based(v)
  BY <1>1 DEF Based, Rowed
<1>4. IsFun(v.nano)
  <2> DEFINE n == [w.nano EXCEPT !.token = w.dev.sealed]
  <2>1. v.nano = [n EXCEPT !.stamped = TRUE]
    BY <1>2
  <2> HIDE DEF n
  <2>2. QED BY <2>1, FunKept
<1>5. ASSUME Copied(w, m) PROVE Copied(v, m) /\ ~Mixed(v, m)
  <2>1. m.token # Alien
    BY <1>5, BoundsAssumption DEF Copied, Alien
  <2>2. Own(v, m) => v.nano.token = m.token
    BY <1>1 DEF Own
  <2>3. ~Mixed(v, m)
    BY <2>1, <2>2 DEF Mixed
  <2>4. QED BY <1>1, <1>4, <1>5, <2>2, <2>3 DEF Copied, Enrolled
<1>6. QED BY <1>3, <1>5 DEF Copies, v

(* What is sealed is what NanoMDM holds.                                    *)
LEMMA SealedCopies ==
  ASSUME NEW w, NEW v, NEW m, Based(v), v.nano = w.nano, v.dev.sealed = w.nano.token,
         v.dev.state = w.dev.state, Enrolled(w)
  PROVE  Copies(w, v, m)
<1>1. SUFFICES ASSUME Copied(w, m) PROVE Copied(v, m) /\ ~Mixed(v, m)
  BY DEF Copies
<1>2. m.token # Alien
  BY <1>1, BoundsAssumption DEF Copied, Alien
<1>3. Own(v, m) => v.nano.token = m.token
  BY DEF Own
<1>4. QED BY <1>1, <1>2, <1>3 DEF Copied, Mixed, Enrolled

LEMMA CaptureCopies ==
  ASSUME NEW w, Based(w), NEW flag, NEW m PROVE Copies(w, Capture(w, flag), m)
<1> DEFINE v == [w EXCEPT !.dev.sealed = w.nano.token, !.dev.escrowed = TRUE]
<1>1. Rowed(w) /\ Fields(w) /\ Nanoed(w)
  BY DEF Based, Rowed
<1>2. /\ Fields(v) /\ v.row = w.row /\ v.nano = w.nano /\ v.dev.state = w.dev.state
      /\ v.dev.sealed = w.nano.token
  BY <1>1 DEF Fields, DevFields
<1>3. Capture(w, flag) = w \/ (Enrolled(w) /\ Capture(w, flag) = v)
  BY DEF Capture
<1> HIDE DEF v
<1>4. Based(v)
  BY <1>1, <1>2 DEF Based, Rowed, Nanoed
<1>5. Copies(w, w, m)
  BY DEF Copies
<1>6. QED BY <1>2, <1>3, <1>4, <1>5, SealedCopies

LEMMA RestoreTokenCopies ==
  ASSUME NEW w, Based(w), NEW F, NEW m PROVE Copies(w, RestoreToken(w, F), m)
<1> DEFINE v == [w EXCEPT !.dev.escrowed = FALSE]
<1>1. Rowed(w) /\ Fields(w) /\ Nanoed(w)
  BY DEF Based, Rowed
<1>2. /\ Fields(v) /\ v.row = w.row /\ v.nano = w.nano /\ v.dev.state = w.dev.state
      /\ v.dev.sealed = w.dev.sealed
  BY <1>1 DEF Fields, DevFields
<1>3. RestoreToken(w, F) \in {w, v} \/ (w.dev.sealed # None /\ RestoreToken(w, F) = WriteToken(w))
  BY DEF RestoreToken, Restores
<1> HIDE DEF v
<1>4. Based(v)
  BY <1>1, <1>2 DEF Based, Rowed, Nanoed
<1>5. Copies(w, v, m) /\ Copies(w, w, m)
  BY <1>2, <1>4, SameCopies DEF Copies
<1>6. QED BY <1>3, <1>5, WriteTokenCopies

(* Worlds whose NanoMDM row is the same, but for what it says of c.         *)
LEMMA SameNanoCopies ==
  ASSUME NEW w, NEW v, NEW m, Based(v), v.nano = w.nano,
         v.dev.sealed \in {w.dev.sealed, None}, v.dev.state = w.dev.state
  PROVE  Copies(w, v, m)
BY SameCopies

LEMMA TaskCopies ==
  ASSUME NEW w, Based(w), NEW c \in Certs, NEW how, how # "open", NEW m
  PROVE  Copies(w, [w EXCEPT !.row[c].task = how], m)
<1> DEFINE v == [w EXCEPT !.row[c].task = how]
<1>1. Tok(w, v)
  BY TaskTok
<1>2. v.dev = w.dev /\ v.nano = w.nano
  BY DEF Based, Rowed, Fields
<1> HIDE DEF v
<1>3. QED BY <1>1, <1>2, SameNanoCopies DEF Tok, v

LEMMA FinishCopies ==
  ASSUME NEW w, Based(w), NEW c \in Certs, NEW F, NEW m
  PROVE  Copies(w, Finish(w, c, F), m) /\ Finish(w, c, F).dev = w.dev
         /\ Finish(w, c, F).nano.token = w.nano.token
<1> DEFINE cleared == [w EXCEPT !.row[c].pem = None]
           bare == [cleared EXCEPT !.snapshot = {}]
           p == Prune(bare, {c}, F)
<1>1. Rowed(w) /\ Fields(w) /\ Nanoed(w)
  BY DEF Based, Rowed
<1>2. /\ Fields(cleared) /\ Fields(bare)
      /\ cleared.dev = w.dev /\ bare.dev = w.dev /\ cleared.nano = w.nano /\ bare.nano = w.nano
      /\ cleared.row = [w.row EXCEPT ![c].pem = None] /\ bare.row = cleared.row
  BY <1>1 DEF Fields, DevFields
<1>3. Finish(w, c, F) \in {cleared, p}
  BY DEF Finish
<1> HIDE DEF cleared, bare
<1>4. /\ DOMAIN cleared.row = Certs
      /\ \A b \in Certs : RowFields \subseteq DOMAIN cleared.row[b]
  BY <1>1, <1>2 DEF Rowed, RowFields
<1>5. Based(cleared) /\ Based(bare)
  BY <1>1, <1>2, <1>4 DEF Based, Rowed, Nanoed
<1>6. Copies(w, cleared, m) /\ Copies(w, bare, m)
  BY <1>2, <1>5, SameNanoCopies
<1>7. Copies(w, p, m)
  <2>1. Copies(bare, p, m)
    BY <1>5, PruneCopies
  <2> HIDE DEF p
  <2>2. QED BY <1>6, <2>1, CopiesTwice
<1>8. p.dev = w.dev /\ p.nano.token = w.nano.token
  <2>1. Rest(bare, p)
    BY <1>2, <1>5, PruneDoes DEF Based
  <2> HIDE DEF p
  <2>2. QED BY <1>2, <2>1 DEF Rest
<1> HIDE DEF p
<1>9. QED BY <1>2, <1>3, <1>6, <1>7, <1>8

LEMMA ReenrollCopies ==
  ASSUME NEW w, Based(w), NEW c \in Certs, NEW same, NEW m
  PROVE  LET v == Reenroll(w, c, same)
         IN  /\ Copies(w, v, m) /\ v.nano = w.nano /\ v.dev.id = w.dev.id
             /\ v.row = Fail(w, IF w.row[c].kind = "renewal" THEN Certs \ {c} ELSE Certs,
                             "failed").row
             /\ v.snapshot = w.snapshot /\ v.dev.pem = w.dev.pem
             /\ w.row[c].kind = "renewal" => v.dev.sealed = w.dev.sealed
<1> DEFINE S == IF w.row[c].kind = "renewal" THEN Certs \ {c} ELSE Certs
           f == Fail(w, S, "failed")
           v == Reenroll(w, c, same)
<1>1. Tok(w, f) /\ f.dev = w.dev /\ f.nano = w.nano
  BY FailTok
<1>2. v = IF w.row[c].kind = "renewal"
          THEN [f EXCEPT !.dev.escrowed = @ /\ same /\ w.dev.sealed # None]
          ELSE [f EXCEPT !.dev.escrowed = FALSE, !.dev.sealed = None]
  BY DEF Reenroll
<1>3. Based(f) /\ Rowed(f) /\ Fields(f) /\ Nanoed(f) /\ f.snapshot = w.snapshot
  BY <1>1 DEF Tok, Based, Rowed, Fields, Fail
<1> HIDE DEF S, f, v
<1>4. /\ Fields(v) /\ v.row = f.row /\ v.nano = f.nano /\ v.snapshot = f.snapshot
      /\ v.dev.state = f.dev.state /\ v.dev.id = f.dev.id /\ v.dev.pem = f.dev.pem
      /\ v.dev.sealed \in {f.dev.sealed, None}
      /\ w.row[c].kind = "renewal" => v.dev.sealed = f.dev.sealed
  BY <1>2, <1>3 DEF Fields, DevFields
<1>5. Based(v)
  BY <1>3, <1>4 DEF Based, Rowed, Nanoed
<1>6. Copies(w, v, m)
  BY <1>1, <1>4, <1>5, SameNanoCopies DEF Tok
<1>7. QED BY <1>1, <1>3, <1>4, <1>6 DEF f, v, S

LEMMA RollBackCopies ==
  ASSUME NEW w, Based(w), NEW c \in Certs, NEW F, NEW m
  PROVE  LET v == RollBack(w, c, F)
         IN  /\ Copies(w, v, m) /\ v.dev.sealed = w.dev.sealed
             /\ v.nano.token = w.nano.token
<1> DEFINE expired == [w EXCEPT !.row[c].live = FALSE]
           before == BoundBefore(w, c)
           previous == IF before = None /\ Cardinality(w.snapshot) = 1
                       THEN CHOOSE b \in w.snapshot : TRUE ELSE before
           pem == IF w.row[c].pem = previous THEN previous ELSE None
           mine == w.dev.id = c
           forgotten == [expired EXCEPT !.row[c].holds = FALSE, !.row[c].pem = None]
           id == IF pem # None /\ forgotten.nano.id = w.dev.pem /\ "pem" \notin F
                 THEN pem ELSE forgotten.nano.id
           own == [forgotten EXCEPT !.dev.id = previous, !.dev.pem = pem, !.nano.id = id]
           restored == IF ~mine THEN forgotten ELSE own
           keep == {IF restored.dev.id \in {None, c, previous} THEN previous ELSE restored.dev.id}
                      \cup w.snapshot
           v == Prune(restored, keep \ {c}, F)
<1>1. Rowed(w) /\ Fields(w) /\ Nanoed(w)
  BY DEF Based, Rowed
<1>2. RollBack(w, c, F) \in {expired, v}
  BY DEF RollBack
<1> HIDE DEF previous, pem
<1>3. /\ Fields(expired) /\ expired.dev = w.dev /\ expired.nano = w.nano
      /\ expired.row = [w.row EXCEPT ![c].live = FALSE]
      /\ Fields(forgotten) /\ forgotten.dev = w.dev /\ forgotten.nano = w.nano
      /\ forgotten.row = [[expired.row EXCEPT ![c].holds = FALSE] EXCEPT ![c].pem = None]
  BY <1>1 DEF Fields, DevFields
<1> HIDE DEF expired, forgotten, id
<1>4. /\ DOMAIN expired.row = Certs
      /\ \A b \in Certs : RowFields \subseteq DOMAIN expired.row[b]
  BY <1>1, <1>3 DEF Rowed, RowFields
<1>5. /\ DOMAIN forgotten.row = Certs
      /\ \A b \in Certs : RowFields \subseteq DOMAIN forgotten.row[b]
  <2> DEFINE r1 == [expired.row EXCEPT ![c].holds = FALSE]
  <2>1. /\ DOMAIN r1 = Certs /\ \A b \in Certs : RowFields \subseteq DOMAIN r1[b]
    BY <1>4 DEF RowFields
  <2>2. forgotten.row = [r1 EXCEPT ![c].pem = None]
    BY <1>3
  <2> HIDE DEF r1
  <2>3. QED BY <2>1, <2>2 DEF RowFields
<1>6. Based(expired) /\ Based(forgotten)
  BY <1>1, <1>3, <1>4, <1>5 DEF Based, Rowed, Nanoed
<1>7. Copies(w, expired, m) /\ Copies(w, forgotten, m)
  BY <1>3, <1>6, SameNanoCopies
<1>8. Copies(forgotten, own, m) /\ own.dev.sealed = w.dev.sealed
      /\ own.nano.token = w.nano.token
  <2>1. Fields(forgotten) /\ Nanoed(forgotten) /\ Rowed(forgotten)
    BY <1>6 DEF Based, Rowed
  <2>2. /\ Fields(own) /\ Nanoed(own) /\ own.row = forgotten.row
        /\ own.dev.state = forgotten.dev.state
        /\ own.dev.sealed = forgotten.dev.sealed
        /\ own.nano.token = forgotten.nano.token /\ own.nano.assoc = forgotten.nano.assoc
        /\ own.nano = [forgotten.nano EXCEPT !.id = id]
    BY <2>1 DEF Fields, DevFields, Nanoed, NanoFields
  <2> HIDE DEF own
  <2>3. Based(own)
    BY <2>1, <2>2 DEF Based, Rowed
  <2>4. IsFun(own.nano)
    BY <2>2, FunKept
  <2>5. QED BY <1>3, <2>2, <2>3, <2>4, SameCopies
<1>9. Copies(w, restored, m) /\ restored.dev.sealed = w.dev.sealed
      /\ restored.nano.token = w.nano.token /\ Based(restored)
  <2> HIDE DEF own
  <2>1. Copies(w, own, m) /\ Based(own)
    BY <1>7, <1>8, CopiesTwice DEF Copies
  <2>2. QED BY <1>3, <1>6, <1>7, <1>8, <2>1
<1>10. Copies(restored, v, m) /\ Rest(restored, v)
  <2> HIDE DEF restored, keep
  <2>1. Fields(restored) /\ Nanoed(restored)
    BY <1>9 DEF Based, Rowed
  <2>2. QED BY <1>9, <2>1, PruneDoes, PruneCopies
<1> HIDE DEF restored, v
<1>11. Copies(w, v, m) /\ v.dev.sealed = w.dev.sealed /\ v.nano.token = w.nano.token
  BY <1>9, <1>10, CopiesTwice DEF Rest
<1>12. QED BY <1>2, <1>3, <1>7, <1>11

(* What is allowed follows from what the rows say of their binding.         *)
LEMMA SameWordAllowed ==
  ASSUME NEW w, NEW v, \A b \in Certs : SameWord(w, v, b), v.snapshot = w.snapshot,
         v.dev.id = w.dev.id, Ranked(w)
  PROVE  Allowed(v) = Allowed(w) /\ (\A c \in Certs : Open(v, c) <=> Open(w, c))
         /\ Bound(v) = Bound(w)
<1>1. /\ Bound(v) = Bound(w) /\ Unacknowledged(v) = Unacknowledged(w)
      /\ \A c \in Certs : Open(v, c) <=> Open(w, c)
  BY DEF SameWord, Bound, Unacknowledged, Renewals, Open
<1>2. Unacknowledged(w) \subseteq Certs /\ Bound(w) \subseteq Certs
  BY DEF Unacknowledged, Bound
<1>3. Newest(v, Unacknowledged(v)) = Newest(w, Unacknowledged(w))
  <2>1. \A b \in Unacknowledged(w) : v.row[b].bound = w.row[b].bound
    BY <1>2 DEF SameWord
  <2>2. QED BY <1>1, <2>1, NewestSame
<1>4. ASSUME NEW c \in Certs PROVE BoundBefore(v, c) = BoundBefore(w, c)
  <2> DEFINE B == {b \in Bound(w) : w.row[b].bound < w.row[c].bound}
  <2>1. {b \in Bound(v) : v.row[b].bound < v.row[c].bound} = B
    BY <1>1, <1>2 DEF SameWord
  <2>2. \A b \in B : v.row[b].bound = w.row[b].bound
    BY <1>2 DEF SameWord
  <2>3. Newest(v, B) = Newest(w, B)
    <3> HIDE DEF B
    <3>1. QED BY <2>2, NewestSame
  <2>4. QED BY <2>1, <2>3 DEF BoundBefore
<1>5. PreviousOfOpen(v) = PreviousOfOpen(w)
  <2> DEFINE c == Newest(w, Unacknowledged(w))
  <2>1. c = None \/ c \in Certs
    BY <1>2, NewestIs
  <2>2. PreviousOfOpen(v) = IF c = None THEN None ELSE BoundBefore(v, c)
    BY <1>3 DEF PreviousOfOpen
  <2>3. PreviousOfOpen(w) = IF c = None THEN None ELSE BoundBefore(w, c)
    BY DEF PreviousOfOpen
  <2> HIDE DEF c
  <2>4. QED BY <1>4, <2>1, <2>2, <2>3
<1>6. QED BY <1>1, <1>5 DEF Allowed

(* What is allowed is of the cutover, or was bound.                         *)
LEMMA AllowedKnown ==
  ASSUME NEW w, Rows(w), Identified(w), NEW x \in Allowed(w)
  PROVE  x \in Certs /\ Accepted(w, x)
<1>1. CASE x = w.dev.id
  BY <1>1, IdentityIs DEF Allowed
<1>2. CASE x \in w.snapshot
  BY <1>2 DEF Rows, Shaped, Sound, Accepted
<1>3. CASE x = PreviousOfOpen(w) /\ x # None
  <2>1. PICK c : x = BoundBefore(w, c)
    BY <1>3 DEF PreviousOfOpen
  <2>2. x \in Bound(w)
    BY <1>3, <2>1, BoundBeforeIs DEF Rows, Shaped
  <2>3. QED BY <2>2 DEF Bound, Accepted
<1>4. QED BY <1>1, <1>2, <1>3 DEF Allowed

LEMMA NoStrayAllowed ==
  ASSUME NEW w, Rows(w), Identified(w), StraysUnbound(w), NEW x \in Allowed(w)
  PROVE  w.row[x].kind # "stray"
<1>1. x \in Certs /\ Accepted(w, x)
  BY AllowedKnown
<1>2. QED BY <1>1 DEF Accepted, StraysUnbound

(* Who is settled is no newcomer.                                           *)
LEMMA SettledKnown ==
  ASSUME NEW w, Rows(w), Identified(w), Settled(w) PROVE ~Newcomer(w)
<1>1. w.nano.id \in Allowed(w) \/ w.nano.id \in Renewing(w)
  BY DEF Settled
<1>2. ASSUME w.nano.id \in Allowed(w) PROVE ~Newcomer(w)
  BY <1>2, AllowedKnown DEF Accepted, Newcomer
<1>3. QED BY <1>1, <1>2 DEF Renewing, Renewals, Newcomer

(* A write of what was there.                                               *)
LEMMA ExceptSame ==
  ASSUME NEW f, NEW a, IsFun(f) PROVE [f EXCEPT ![a] = f[a]] = f
BY DEF IsFun

(* A prune that is carried out.                                             *)
LEMMA PruneExact ==
  ASSUME NEW w, Fields(w), Nanoed(w), NEW keep, keep # {}
  PROVE  LET v == Prune(w, keep, {})
         IN  /\ Assoc(v) = Assoc(w) \cap keep
             /\ IsFun(w) /\ IsFun(w.nano) /\ IsFun(w.nano.assoc) /\ Assoc(w) \subseteq keep
                => v = w
<1> DEFINE assoc == [c \in Certs |-> IF c \in Assoc(w) \ keep THEN "no" ELSE w.nano.assoc[c]]
           v == Prune(w, keep, {})
<1>1. v = [w EXCEPT !.nano.assoc = assoc]
  BY DEF Prune
<1> HIDE DEF v
<1>2. v.nano.assoc = assoc
  <2> HIDE DEF assoc
  <2>1. QED BY <1>1 DEF Fields, Nanoed, NanoFields
<1>3. Assoc(v) = Assoc(w) \cap keep
  BY <1>2 DEF Assoc, Held
<1>4. ASSUME IsFun(w), IsFun(w.nano), IsFun(w.nano.assoc), Assoc(w) \subseteq keep PROVE v = w
  <2>1. assoc = [c \in Certs |-> w.nano.assoc[c]]
    BY <1>4
  <2>2. assoc = w.nano.assoc
    BY <1>4, <2>1 DEF IsFun, Nanoed
  <2>3. [w.nano EXCEPT !.assoc = w.nano.assoc] = w.nano
    BY <1>4, ExceptSame
  <2>4. v = [w EXCEPT !.nano = [w.nano EXCEPT !.assoc = assoc]]
    BY <1>1
  <2>5. v = [w EXCEPT !.nano = w.nano]
    BY <2>2, <2>3, <2>4
  <2>6. QED BY <1>4, <2>5, ExceptSame
<1>5. QED BY <1>3, <1>4 DEF v

LEMMA AcceptCopies ==
  ASSUME NEW w, Shaped(w), NEW c \in Certs, NEW topic, NEW m
  PROVE  LET v == Accept(w, c, topic, {})
         IN  /\ Copies(w, v, m) /\ v.alarm = w.alarm
             /\ Assoc(v) \subseteq Allowed(v) \cup {c}
                                     \cup (IF w.row[c].kind = "renewal" THEN {w.dev.id} ELSE {})
             /\ \/ v.dev.sealed = w.dev.sealed
                \/ NewInstall(w, c)
                \/ Captured(w, v, c, topic)
<1> DEFINE written == [BindRow(w, c) EXCEPT !.dev = WriteDevice(w, c)]
           same == SameInstall(w, c, topic)
           renewal == w.row[c].kind = "renewal"
           restored == IF same THEN RestoreToken(written, {}) ELSE written
           more == {c} \cup (IF renewal THEN {w.dev.id} ELSE {})
           keep == (Allowed(restored) \cup more) \ {None}
           pruned == Prune(restored, keep, {})
           v == Accept(w, c, topic, {})
           b1 == BindRow(w, c)
<1>1. /\ Shaped(b1) /\ b1.dev = w.dev /\ b1.nano = w.nano /\ b1.alarm = w.alarm
  <2>1. b1.alarm = w.alarm
    BY ShapedFields DEF BindRow, Fields
  <2>2. QED BY <2>1, BindRowDoes
<1>2. /\ Based(written) /\ written.alarm = w.alarm /\ written.nano = w.nano
      /\ written.dev = WriteDevice(w, c)
  <2>1. Fields(w) /\ Rowed(b1) /\ Fields(b1) /\ Nanoed(b1)
    BY <1>1, ShapedFields
  <2>2. DevFields \subseteq DOMAIN WriteDevice(w, c)
    BY <2>1 DEF WriteDevice, Fields, DevFields
  <2> HIDE DEF b1
  <2>3. written = [b1 EXCEPT !.dev = WriteDevice(w, c)]
    BY DEF b1
  <2> HIDE DEF written
  <2>4. /\ {"row", "dev", "snapshot", "nano", "alarm"} \subseteq DOMAIN written
        /\ written.row = b1.row /\ written.nano = b1.nano /\ written.alarm = b1.alarm
        /\ written.dev = WriteDevice(w, c)
    BY <2>1, <2>3 DEF Fields
  <2>5. Fields(written) /\ Nanoed(written)
    BY <1>1, <2>1, <2>2, <2>4 DEF Fields, Nanoed
  <2>6. QED BY <1>1, <2>1, <2>4, <2>5 DEF Based, Rowed
<1>3. /\ written.dev.state = w.dev.state
      /\ written.dev.sealed = (IF NewInstall(w, c) THEN None ELSE w.dev.sealed)
  <2> HIDE DEF written
  <2>1. QED BY <1>2, ShapedFields DEF WriteDevice, Fields, DevFields
<1>4. Copies(w, written, m)
  <2> HIDE DEF written
  <2>1. QED BY <1>2, <1>3, SameNanoCopies
<1>5. /\ Copies(written, restored, m) /\ Based(restored)
      /\ restored.alarm = w.alarm /\ restored.dev.sealed = written.dev.sealed
      /\ ~Restores(written, {}) => restored.nano.token = w.nano.token
  <2> HIDE DEF written
  <2>1. Copies(written, written, m) /\ Copies(written, RestoreToken(written, {}), m)
    BY <1>2, RestoreTokenCopies DEF Copies
  <2>2. RestoreToken(written, {}) = IF Restores(written, {}) THEN WriteToken(written) ELSE written
    BY DEF RestoreToken
  <2>3. Restores(written, {}) => /\ WriteToken(written).alarm = w.alarm
                                 /\ WriteToken(written).dev.sealed = written.dev.sealed
    BY <1>2, WriteTokenTok DEF Restores
  <2>4. QED BY <1>2, <2>1, <2>2, <2>3 DEF Copies
<1>6. c \in keep
  <2>1. c # None
    BY CertsAssumption DEF None
  <2>2. QED BY <2>1
<1>7. /\ Copies(restored, pruned, m) /\ Rest(restored, pruned) /\ Based(pruned)
      /\ Assoc(pruned) \subseteq keep
  <2> HIDE DEF restored, keep
  <2>1. Fields(restored) /\ Nanoed(restored) /\ keep # {}
    BY <1>5, <1>6 DEF Based, Rowed
  <2>2. QED BY <1>5, <2>1, PruneCopies, PruneDoes, PruneExact DEF Copies
<1>8. Allowed(pruned) = Allowed(restored)
  <2> HIDE DEF restored, pruned
  <2>1. QED BY <1>7, SameAllowed DEF Rest
<1>9. \/ v = pruned
      \/ v = Capture(pruned, TRUE) /\ renewal /\ topic = "Authenticate" /\ ~Restores(written, {})
  BY DEF Accept
<1>10. Assoc(pruned) \subseteq Allowed(pruned) \cup more
  <2> HIDE DEF restored, pruned, more
  <2>1. QED BY <1>7, <1>8
<1>11. CASE v = pruned
  <2> HIDE DEF written, restored, pruned, v, more
  <2>1. Copies(w, v, m)
    BY <1>4, <1>5, <1>7, <1>11, CopiesTwice
  <2>2. v.alarm = w.alarm /\ (v.dev.sealed = w.dev.sealed \/ NewInstall(w, c))
    BY <1>3, <1>5, <1>7, <1>11 DEF Rest
  <2>3. Assoc(v) \subseteq Allowed(v) \cup more
    BY <1>10, <1>11
  <2>4. QED BY <2>1, <2>2, <2>3 DEF v, more
<1>12. CASE /\ v = Capture(pruned, TRUE) /\ renewal /\ topic = "Authenticate"
            /\ ~Restores(written, {})
  <2> HIDE DEF written, restored, pruned, v, more
  <2>1. /\ Copies(pruned, v, m) /\ Aside(pruned, v)
    <3>1. Fields(pruned) /\ Nanoed(pruned)
      BY <1>7 DEF Based, Rowed
    <3>2. QED BY <1>7, <1>12, <3>1, CaptureCopies, TokensAside
  <2>2. Copies(w, v, m)
    BY <1>4, <1>5, <1>7, <2>1, CopiesTwice
  <2>3. Assoc(v) \subseteq Allowed(v) \cup more
    <3>1. Allowed(v) = Allowed(pruned) /\ Assoc(v) = Assoc(pruned)
      BY <2>1, SameAllowed DEF Aside, Assoc
    <3>2. QED BY <1>10, <3>1
  <2>4. /\ v.alarm = pruned.alarm
        /\ \/ v.dev.sealed = pruned.dev.sealed
           \/ /\ ~pruned.alarm.recent /\ v.dev.sealed = pruned.nano.token
              /\ pruned.nano.token # None
    <3> DEFINE x == [pruned EXCEPT !.dev.sealed = pruned.nano.token, !.dev.escrowed = TRUE]
    <3>1. x.alarm = pruned.alarm /\ x.dev.sealed = pruned.nano.token
      BY <1>7 DEF Based, Rowed, Fields, DevFields
    <3>2. v = pruned \/ (v = x /\ ~pruned.alarm.recent /\ pruned.nano.token # None)
      BY <1>12 DEF Capture
    <3> HIDE DEF x
    <3>3. QED BY <3>1, <3>2
  <2>5. pruned.alarm = w.alarm /\ pruned.nano.token = w.nano.token
        /\ pruned.dev.sealed = written.dev.sealed
    BY <1>5, <1>7, <1>12 DEF Rest
  <2>6. v.dev.sealed = w.dev.sealed \/ NewInstall(w, c) \/ Captured(w, v, c, topic)
    BY <1>3, <1>12, <2>4, <2>5 DEF Captured
  <2>7. QED BY <2>2, <2>3, <2>4, <2>5, <2>6 DEF v, more
<1>13. QED BY <1>9, <1>11, <1>12

(* The Authenticate of a renewal that is the device's already seals what    *)
(* NanoMDM holds, or puts the sealed token back: they are not mixed.        *)
LEMMA AcceptCaptures ==
  ASSUME NEW w, Shaped(w), NEW c \in Certs, NEW m, Copied(w, m), Mixed(w, m),
         w.row[c].kind = "renewal", ~Fresh(w, c), ~w.alarm.recent,
         w.dev.id = c, w.nano.id = c, Assoc(w) \subseteq Allowed(w)
  PROVE  ~Mixed(Accept(w, c, "Authenticate", {}), m)
<1> DEFINE written == [BindRow(w, c) EXCEPT !.dev = WriteDevice(w, c)]
           restored == RestoreToken(written, {})
           keep == (Allowed(restored) \cup {c} \cup {w.dev.id}) \ {None}
           pruned == Prune(restored, keep, {})
           v == Accept(w, c, "Authenticate", {})
<1>1. Enrolled(w) /\ SameInstall(w, c, "Authenticate") /\ ~NewInstall(w, c)
  BY DEF Copied, Mixed, Own, SameInstall, NewInstall
<1>2. written = [w EXCEPT !.dev = WriteDevice(w, c)]
  BY DEF BindRow
<1>3. /\ v = IF /\ written.dev.sealed # None /\ ~Restores(written, {})
                /\ pruned = restored
             THEN Capture(pruned, TRUE) ELSE pruned
  BY <1>1 DEF Accept
<1>4. Fields(w) /\ Nanoed(w) /\ Rowed(w) /\ Sound(w)
  BY ShapedFields DEF Shaped
<1>5. /\ written.row = w.row /\ written.nano = w.nano /\ written.alarm = w.alarm
      /\ written.snapshot = w.snapshot /\ written.dev = WriteDevice(w, c) /\ IsFun(written)
  <2> HIDE DEF written
  <2>1. QED BY <1>2, <1>4, FunKept DEF Fields
<1>6. /\ written.dev.id = c /\ written.dev.state = w.dev.state
      /\ written.dev.sealed = w.dev.sealed /\ DevFields \subseteq DOMAIN written.dev
  <2>1. /\ WriteDevice(w, c).id = c /\ WriteDevice(w, c).state = w.dev.state
        /\ WriteDevice(w, c).sealed = w.dev.sealed
        /\ DevFields \subseteq DOMAIN WriteDevice(w, c)
    BY <1>1, <1>4 DEF WriteDevice, Fields, DevFields
  <2> HIDE DEF written
  <2>2. QED BY <1>5, <2>1
<1>7. Based(written) /\ Fields(written) /\ Nanoed(written)
  <2>1. {"row", "dev", "snapshot", "nano", "alarm"} \subseteq DOMAIN written
    BY <1>4 DEF BindRow, Fields
  <2> HIDE DEF written
  <2>2. Fields(written) /\ Nanoed(written)
    BY <1>4, <1>5, <1>6, <2>1 DEF Fields, Nanoed
  <2>3. QED BY <1>4, <1>5, <2>2 DEF Based, Rowed
<1>8. Copied(written, m)
  <2> HIDE DEF written
  <2>1. QED BY <1>5, <1>6, <1>7, SameNanoCopies DEF Copies
<1>9. Allowed(written) = Allowed(w) /\ Assoc(written) = Assoc(w)
  <2> HIDE DEF written
  <2>1. QED BY <1>5, <1>6, SameAllowed DEF Assoc
<1> HIDE DEF written
<1>10. CASE Restores(written, {})
  <2>1. restored = WriteToken(written) /\ written.dev.sealed # None
    BY <1>10 DEF RestoreToken, Restores
  <2>2. Copied(restored, m) /\ ~Mixed(restored, m) /\ Based(restored)
    BY <1>7, <1>8, <2>1, WriteTokenCopies DEF Copies
  <2>3. v = pruned
    BY <1>3, <1>10
  <2> HIDE DEF restored, keep
  <2>4. Copies(restored, pruned, m)
    BY <2>2, PruneCopies
  <2>5. QED BY <2>2, <2>3, <2>4 DEF Copies, v
<1>11. CASE ~Restores(written, {})
  <2>1. restored = written
    BY <1>11 DEF RestoreToken
  <2>2. c \in keep /\ Assoc(written) \subseteq keep
    <3>1. c # None
      BY CertsAssumption DEF None
    <3>2. None \notin Allowed(written)
      BY DEF Allowed
    <3>3. QED BY <1>9, <2>1, <3>1, <3>2
  <2>3. pruned = written
    <3> HIDE DEF keep
    <3>1. IsFun(written.nano) /\ IsFun(written.nano.assoc)
      BY <1>5 DEF Copied
    <3>2. QED BY <1>5, <1>7, <2>1, <2>2, <3>1, PruneExact
  <2>4. w.dev.sealed # None /\ w.nano.token = Alien /\ w.nano.token # None
    BY BoundsAssumption DEF Mixed, Own, Alien, None
  <2>5. Enrolled(written) /\ ~written.alarm.recent
    BY <1>1, <1>5, <1>6 DEF Enrolled
  <2>6. Settled(written)
    <3>1. c \in Allowed(written) /\ c # None
      BY <1>6, CertsAssumption DEF Allowed, None
    <3>2. QED BY <1>5, <1>9, <3>1 DEF Settled
  <2>7. v = [written EXCEPT !.dev.sealed = written.nano.token, !.dev.escrowed = TRUE]
    <3>1. v = Capture(written, TRUE)
      BY <1>3, <1>6, <1>11, <2>1, <2>3, <2>4
    <3>2. QED BY <1>5, <2>4, <2>5, <2>6, <3>1 DEF Capture
  <2>8. v.dev.sealed = Alien
    <3> HIDE DEF v
    <3>1. QED BY <1>5, <1>7, <2>4, <2>7 DEF Fields, DevFields
  <2>9. m.token # Alien
    BY BoundsAssumption DEF Copied, Alien
  <2>10. QED BY <2>8, <2>9 DEF Mixed, Own, v
<1>12. QED BY <1>10, <1>11

LEMMA CalmerStrays ==
  ASSUME NEW w, NEW v, Calmer(w, v)
  PROVE  /\ Strays(v) \subseteq Strays(w) /\ (StraysUnbound(w) => StraysUnbound(v))
         /\ v.nano.id = w.nano.id /\ w.nano.id \in Certs => (Newcomer(v) <=> Newcomer(w))
BY DEF Calmer, Strays, StraysUnbound, Newcomer, Assoc

LEMMA FinishCalmer ==
  ASSUME NEW w, Based(w), NEW c \in Certs, NEW F
  PROVE  LET v == Finish(w, c, F)
         IN  Calmer(w, v) /\ v.nano.id = w.nano.id /\ v.alarm = w.alarm
<1> DEFINE cleared == [w EXCEPT !.row[c].pem = None]
           bare == [cleared EXCEPT !.snapshot = {}]
           p == Prune(bare, {c}, F)
<1>1. Rowed(w) /\ Fields(w) /\ Nanoed(w)
  BY DEF Based, Rowed
<1>2. /\ Fields(cleared) /\ Fields(bare) /\ cleared.alarm = w.alarm /\ bare.alarm = w.alarm
      /\ cleared.nano = w.nano /\ bare.nano = w.nano
      /\ cleared.row = [w.row EXCEPT ![c].pem = None] /\ bare.row = cleared.row
  BY <1>1 DEF Fields, DevFields
<1>3. Finish(w, c, F) \in {cleared, p}
  BY DEF Finish
<1> HIDE DEF cleared, bare
<1>4. /\ \A b \in Certs : /\ cleared.row[b].kind = w.row[b].kind
                          /\ cleared.row[b].bound = w.row[b].bound
      /\ Nanoed(bare)
  BY <1>1, <1>2 DEF Rowed, RowFields, Nanoed
<1>5. Calmer(w, cleared) /\ Calmer(w, bare)
  BY <1>2, <1>4 DEF Calmer, Assoc
<1>6. Calmer(w, p) /\ p.nano.id = w.nano.id /\ p.alarm = w.alarm
  <2>1. Rest(bare, p) /\ Loses(bare, p, {c})
    BY <1>2, <1>4, PruneDoes
  <2> HIDE DEF p
  <2>2. Assoc(p) \subseteq Assoc(bare)
    BY <2>1 DEF Loses, Assoc, Held
  <2>3. QED BY <1>2, <1>5, <2>1, <2>2 DEF Rest, Calmer
<1> HIDE DEF p
<1>7. QED BY <1>2, <1>3, <1>5, <1>6

(* A certificate that NanoMDM recorded and that stands is bound.            *)
LEMMA AcceptClears ==
  ASSUME NEW w, NEW m, NEW q, LInv(w, m, q), Stands(w, w.nano.id), StraysUnbound(w),
         NEW topic
  PROVE  LET c == w.nano.id
             v == Accept(w, c, topic, {})
         IN  /\ Strays(v) = {} /\ StraysUnbound(v)
             /\ w.row[c].kind = "renewal" /\ Open(w, c) =>
                  Open(v, c) /\ v.row[c].bound > 0 /\ Assoc(v) \subseteq Allowed(v)
<1> DEFINE c == w.nano.id
           v == Accept(w, c, topic, {})
           renewal == w.row[c].kind = "renewal"
<1>1. /\ c \in Certs /\ Shaped(w) /\ Rows(w) /\ Identified(w) /\ Recorded(w) /\ None \notin Certs
  BY CertsAssumption DEF LInv, Recorded, Rows, None
<1>2. /\ Shaped(v) /\ Accepts(w, v, c)
      /\ Assoc(v) \subseteq Allowed(v) \cup {c} \cup (IF renewal THEN {w.dev.id} ELSE {})
  BY <1>1, AcceptDoes, AcceptCopies
<1> HIDE DEF v
<1>3. LInv(v, m, q) /\ Rows(v) /\ Identified(v)
  BY <1>2, AcceptedKeeps DEF LInv
<1>4. StraysUnbound(v) /\ \A b \in Certs : v.row[b].kind = w.row[b].kind
  <2>1. w.row[c].kind # "stray"
    BY DEF Stands
  <2>2. QED BY <1>2, <2>1 DEF Accepts, SameRow, StraysUnbound
<1>5. Strays(v) = {}
  <2>1. SUFFICES ASSUME NEW s \in Assoc(v), v.row[s].kind = "stray" PROVE FALSE
    BY DEF Strays
  <2>2. s \in Certs
    BY DEF Assoc
  <2>3. s \notin Allowed(v)
    BY <1>3, <1>4, <2>1, NoStrayAllowed
  <2>4. s # c
    BY <1>1, <1>4, <2>1 DEF Stands
  <2>5. s # w.dev.id
    <3>1. w.dev.id \in Certs => Accepted(w, w.dev.id)
      BY <1>1, IdentityIs
    <3>2. w.row[s].kind = "stray"
      BY <1>4, <2>1, <2>2
    <3>3. QED BY <2>2, <3>1, <3>2 DEF Accepted, StraysUnbound
  <2>6. QED BY <1>2, <2>1, <2>3, <2>4, <2>5
<1>6. ASSUME renewal, Open(w, c)
      PROVE  Open(v, c) /\ v.row[c].bound > 0 /\ Assoc(v) \subseteq Allowed(v)
  <2>1. v.dev.id = c /\ Open(v, c) /\ v.row[c].kind = "renewal" /\ v.snapshot = w.snapshot
    BY <1>2, <1>6 DEF Accepts, Open, SameRow
  <2>2. v.row[c].bound > 0
    <3>1. CASE Fresh(w, c)
      BY <1>1, <1>2, <3>1, FreshBinds
    <3>2. CASE ~Fresh(w, c)
      BY <1>1, <1>2, <1>6, <3>2 DEF Accepts, SameRow, Fresh, AlreadyBound, Bound
    <3>3. QED BY <3>1, <3>2
  <2>3. c \in Allowed(v)
    BY <1>1, <2>1 DEF Allowed
  <2>4. w.dev.id \in Assoc(v) => w.dev.id \in Allowed(v)
    <3>1. SUFFICES ASSUME w.dev.id \in Certs, w.dev.id # c PROVE w.dev.id \in Allowed(v)
      BY <2>3 DEF Assoc
    <3>2. Fresh(w, c)
      BY <1>1, <3>1 DEF Recorded
    <3>3. /\ Bound(v) = Bound(w) \cup {c} /\ c \notin Bound(w)
          /\ \A b \in Certs : w.row[b].bound \in Nat /\ w.row[b].bound < v.row[c].bound
      BY <1>1, <1>2, <3>2, FreshBinds
    <3>4. \A b \in Certs \ {c} : v.row[b].bound = w.row[b].bound
      BY <1>2 DEF Accepts, SameRow
    <3>5. Precedes(v, w.dev.id, c)
      <4>1. CASE Latest(w, w.dev.id)
        <5>1. w.dev.id \in Bound(v) /\ v.row[w.dev.id].bound < v.row[c].bound
          BY <3>1, <3>3, <3>4, <4>1 DEF Latest
        <5>2. ASSUME NEW b \in Bound(v), v.row[b].bound < v.row[c].bound
              PROVE  v.row[b].bound <= v.row[w.dev.id].bound
          <6>1. v.row[c].bound \in Nat /\ \A x \in Certs : v.row[x].bound \in Nat
            BY <1>2, <1>1, BoundsAre DEF Shaped
          <6>2. b # c
            BY <5>2, <6>1
          <6>3. b \in Bound(w) /\ b \in Certs
            BY <3>3, <5>2, <6>2 DEF Bound
          <6>4. QED BY <3>1, <3>4, <4>1, <6>2, <6>3 DEF Latest
        <5>3. QED BY <5>1, <5>2 DEF Precedes
      <4>2. CASE Bound(w) = {} /\ w.dev.id \in w.snapshot
        <5>1. v.row[c].bound \in Nat
          BY <1>2, <1>1, BoundsAre DEF Shaped
        <5>2. QED BY <2>1, <3>3, <4>2, <5>1 DEF Precedes
      <4>3. QED BY <1>1, <3>1, <4>1, <4>2 DEF Identified
    <3>6. Safe(v, [using |-> w.dev.id])
      BY <1>1, <2>1, <3>5 DEF Safe
    <3>7. QED BY <1>3, <3>1, <3>6, SafeAllowed
  <2>5. QED BY <1>2, <2>1, <2>2, <2>3, <2>4
<1>7. QED BY <1>4, <1>5, <1>6 DEF v

LEMMA BindCopies ==
  ASSUME NEW w, NEW m, NEW q, LInv(w, m, q), Stands(w, w.nano.id), StraysUnbound(w),
         NEW topic
  PROVE  LET c == w.nano.id
             v == Bind(w, c, topic, {})
         IN  /\ Copies(w, v, m) /\ v.alarm = w.alarm
             /\ Strays(v) = {} /\ StraysUnbound(v)
             /\ w.row[c].kind = "renewal" /\ Open(w, c) =>
                  Open(v, c) /\ v.row[c].bound > 0 /\ Assoc(v) \subseteq Allowed(v)
             /\ v.dev.sealed = w.dev.sealed \/ NewInstall(w, c) \/ Captured(w, v, c, topic)
             /\ Copies(Accept(w, c, topic, {}), v, m)
<1> DEFINE c == w.nano.id
           a == Accept(w, c, topic, {})
           anew == Fresh(w, c) \/ NewInstall(w, c)
           same == SameInstall(w, c, topic)
           e == IF anew THEN Reenroll(a, c, same) ELSE a
           r == IF anew /\ w.row[c].kind = "rts" THEN Capture(e, FALSE) ELSE e
           v == Bind(w, c, topic, {})
           renewal == w.row[c].kind = "renewal"
<1>1. c \in Certs /\ Shaped(w) /\ Rows(w)
  BY DEF LInv, Recorded, Rows
<1>2. /\ Copies(w, a, m) /\ Based(a) /\ a.alarm = w.alarm
      /\ a.dev.sealed = w.dev.sealed \/ NewInstall(w, c) \/ Captured(w, a, c, topic)
  BY <1>1, AcceptCopies DEF Copies
<1>3. /\ Strays(a) = {} /\ StraysUnbound(a)
      /\ renewal /\ Open(w, c) =>
           Open(a, c) /\ a.row[c].bound > 0 /\ Assoc(a) \subseteq Allowed(a)
  BY AcceptClears
<1>4. /\ \A b \in Certs : a.row[b].kind = w.row[b].kind /\ (Open(a, b) <=> Open(w, b))
      /\ Ranked(a) /\ Shaped(a)
  <2>1. Shaped(a) /\ Accepts(w, a, c)
    BY <1>1, AcceptDoes
  <2> HIDE DEF a
  <2>2. QED BY <1>1, <2>1 DEF Accepts, SameRow, Open, Shaped, Sound
<1>5. v = IF topic = "TokenUpdate" /\ renewal THEN FinishOnTokenUpdate(r, c, {}) ELSE r
  BY DEF Bind
<1> HIDE DEF a, v
<1>6. /\ Copies(a, e, m) /\ Based(e) /\ e.nano = a.nano /\ e.alarm = a.alarm
      /\ e.snapshot = a.snapshot /\ e.dev.id = a.dev.id
      /\ Calmer(a, e)
      /\ e.dev.sealed = a.dev.sealed \/ (~renewal /\ NewInstall(w, c))
      /\ renewal /\ Open(w, c) => \A b \in Certs : SameWord(a, e, b)
  <2>1. CASE ~anew
    <3>1. e = a
      BY <2>1
    <3>2. Copies(a, a, m) /\ Calmer(a, a) /\ \A b \in Certs : SameWord(a, a, b)
      BY <1>2 DEF Copies, Calmer, SameWord
    <3> HIDE DEF e, renewal
    <3>3. QED BY <1>2, <3>1, <3>2
  <2>2. CASE anew
    <3> DEFINE S == IF renewal THEN Certs \ {c} ELSE Certs
               f == Fail(a, S, "failed")
               x == Reenroll(a, c, same)
    <3>1. /\ Copies(a, x, m) /\ x.nano = a.nano /\ x.dev.id = a.dev.id
          /\ x.row = f.row /\ x.snapshot = a.snapshot
          /\ renewal => x.dev.sealed = a.dev.sealed
      <4>1. a.row[c].kind = w.row[c].kind
        BY <1>1, <1>4
      <4> HIDE DEF same, c
      <4>2. S = IF a.row[c].kind = "renewal" THEN Certs \ {c} ELSE Certs
        BY <4>1
      <4> HIDE DEF S
      <4>3. QED BY <1>1, <1>2, <4>1, <4>2, ReenrollCopies
    <3>2. Failed(a, f, S)
      <4> HIDE DEF S
      <4>1. QED BY <1>4, FailDoes
    <3>3. x.alarm = a.alarm
      <4>1. Tok(a, x)
        <5> HIDE DEF same
        <5>1. QED BY <1>1, <1>2, ReenrollTok
      <4>2. QED BY <4>1 DEF Tok
    <3>4. e = x
      BY <2>2
    <3> HIDE DEF x, f, S, e
    <3>5. Calmer(a, e)
      BY <3>1, <3>2, <3>4 DEF Calmer, Failed, Assoc
    <3>6. ~renewal => NewInstall(w, c)
      BY <2>2 DEF NewInstall
    <3>7. ASSUME renewal, Open(w, c), NEW b \in Certs PROVE SameWord(a, e, b)
      <4>1. ~(b \in S /\ Open(a, b))
        BY <1>1, <1>4, <3>7 DEF Rows, OneOpen, S
      <4>2. QED BY <3>1, <3>2, <3>4, <4>1 DEF Failed, SameWord
    <3>8. Based(e)
      BY <3>1, <3>4 DEF Copies
    <3> HIDE DEF renewal
    <3>9. QED BY <3>1, <3>3, <3>4, <3>5, <3>6, <3>7, <3>8
  <2>3. QED BY <2>1, <2>2
<1> HIDE DEF e
<1>7. /\ Copies(e, r, m) /\ Based(r) /\ r.alarm = e.alarm /\ r.row = e.row
      /\ r.snapshot = e.snapshot /\ r.dev.id = e.dev.id
      /\ r.nano.id = e.nano.id /\ r.nano.assoc = e.nano.assoc
      /\ r.dev.sealed = e.dev.sealed \/ (~renewal /\ NewInstall(w, c))
  <2>1. Fields(e) /\ Nanoed(e)
    BY <1>6 DEF Based, Rowed
  <2>2. Aside(e, Capture(e, FALSE)) /\ Copies(e, Capture(e, FALSE), m) /\ Tok(e, Capture(e, FALSE))
    BY <1>6, <2>1, TokensAside, CaptureCopies, TokensTok
  <2>3. r = e \/ r = Capture(e, FALSE)
    OBVIOUS
  <2>4. r # e => ~renewal /\ NewInstall(w, c)
    BY DEF NewInstall
  <2> HIDE DEF r
  <2>5. Copies(e, e, m)
    BY <1>6 DEF Copies
  <2>6. QED BY <1>6, <2>2, <2>3, <2>4, <2>5 DEF Aside, Copies, Tok
<1> HIDE DEF r
<1>8. Calmer(a, r)
  BY <1>6, <1>7 DEF Calmer, Assoc
<1>9. /\ Copies(r, v, m) /\ v.alarm = r.alarm /\ Calmer(r, v) /\ v.dev.sealed = r.dev.sealed
      /\ r.row[c].task = "open" => v = r
  <2>1. Copies(r, r, m) /\ Calmer(r, r)
    BY <1>7 DEF Copies, Calmer
  <2>2. /\ Copies(r, Finish(r, c, {}), m) /\ Calmer(r, Finish(r, c, {}))
        /\ Finish(r, c, {}).alarm = r.alarm /\ Finish(r, c, {}).dev = r.dev
    BY <1>1, <1>7, FinishCopies, FinishCalmer
  <2>3. v \in {r, Finish(r, c, {})} /\ (r.row[c].task = "open" => v = r)
    BY <1>5 DEF FinishOnTokenUpdate
  <2>4. QED BY <2>1, <2>2, <2>3
<1>10. Copies(w, v, m) /\ Copies(a, v, m) /\ v.alarm = w.alarm
  <2>1. Copies(a, v, m)
    BY <1>6, <1>7, <1>9, CopiesTwice
  <2>2. QED BY <1>2, <1>6, <1>7, <1>9, <2>1, CopiesTwice
<1>11. Strays(v) = {} /\ StraysUnbound(v)
  BY <1>3, <1>8, <1>9, CalmerStrays
<1>12. ASSUME renewal, Open(w, c)
       PROVE  Open(v, c) /\ v.row[c].bound > 0 /\ Assoc(v) \subseteq Allowed(v)
  <2>1. \A b \in Certs : SameWord(a, r, b)
    BY <1>6, <1>7, <1>12 DEF SameWord
  <2>2. Allowed(r) = Allowed(a) /\ Open(r, c)
    <3>1. r.snapshot = a.snapshot /\ r.dev.id = a.dev.id
      BY <1>6, <1>7
    <3>2. QED BY <1>1, <1>3, <1>4, <1>12, <2>1, <3>1, SameWordAllowed
  <2>3. v = r
    BY <1>9, <2>2 DEF Open
  <2>4. r.row[c].bound > 0 /\ Assoc(r) = Assoc(a)
    BY <1>1, <1>3, <1>6, <1>7, <1>12, <2>1 DEF SameWord, Assoc
  <2>5. QED BY <1>3, <1>12, <2>2, <2>3, <2>4
<1>13. v.dev.sealed = w.dev.sealed \/ NewInstall(w, c) \/ Captured(w, v, c, topic)
  BY <1>2, <1>6, <1>7, <1>9 DEF Captured
<1>14. QED BY <1>10, <1>11, <1>12, <1>13 DEF v, a

(* A refusal parks what is not allowed and leaves the sealed token alone.   *)
LEMMA RefuseCopies ==
  ASSUME NEW w, Rows(w), Identified(w), StraysUnbound(w), NEW c \in Certs, NEW m
  PROVE  LET v == Refuse(w, c, {})
         IN  /\ Copies(w, v, m) /\ Strays(v) = {} /\ v.row = w.row
             /\ v.dev.sealed = w.dev.sealed
             /\ v.alarm = [recent |-> TRUE, redo |-> None]
             /\ v.nano.id = w.nano.id \/ (w.dev.id # None /\ v.nano.id = w.dev.id)
<1> DEFINE S == ({c} \cup Assoc(w)) \ Allowed(w)
           parked == Park(w, S, {})
           live == Enrolled(w) /\ c \in Assoc(w)
           bare == [parked EXCEPT !.nano.token = None, !.nano.stamped = FALSE]
           t == IF ~live THEN parked
                ELSE IF w.dev.sealed # None THEN WriteToken(parked) ELSE bare
           owed == w.dev.pem # None /\ c # w.dev.id
           e == IF c \in Assoc(w) /\ (w.dev.sealed = None \/ ~live)
                THEN FALSE ELSE t.dev.escrowed
           n == IF owed THEN w.dev.pem ELSE t.nano.id
           a == [recent |-> TRUE, redo |-> None]
           v == Refuse(w, c, {})
<1>1. Rowed(w) /\ Fields(w) /\ Nanoed(w) /\ Based(w)
  BY ShapedFields DEF Rows, Based
<1>2. /\ Fields(parked) /\ Nanoed(parked) /\ Rest(w, parked) /\ Based(parked)
      /\ Copies(w, parked, m) /\ Assoc(parked) \subseteq Allowed(w)
  <2>1. Fields(parked) /\ Nanoed(parked) /\ Rest(w, parked) /\ Copies(w, parked, m)
    BY <1>1, ParkDoes, ParkCopies
  <2>2. parked = [w EXCEPT !.nano.assoc = [b \in Certs |-> IF b \in S THEN "parked"
                                                           ELSE w.nano.assoc[b]]]
    BY DEF Park
  <2>3. parked.nano.assoc = [b \in Certs |-> IF b \in S THEN "parked" ELSE w.nano.assoc[b]]
    <3> DEFINE x == [b \in Certs |-> IF b \in S THEN "parked" ELSE w.nano.assoc[b]]
    <3> HIDE DEF x, parked
    <3>1. parked = [w EXCEPT !.nano.assoc = x]
      BY <2>2 DEF x
    <3>2. parked.nano.assoc = x
      BY <1>1, <3>1 DEF Fields, Nanoed, NanoFields
    <3>3. QED BY <3>2 DEF x
  <2> HIDE DEF parked
  <2>4. Assoc(parked) \subseteq Allowed(w)
    BY <2>3 DEF Assoc, Held
  <2>5. QED BY <1>1, <2>1, <2>4 DEF Copies
<1>3. v = [t EXCEPT !.dev.escrowed = e, !.nano.id = n, !.alarm = a]
  <2> HIDE DEF parked
  <2>1. QED BY DEF Refuse, parked
<1> HIDE DEF parked, v
<1>4. /\ Fields(bare) /\ Nanoed(bare) /\ bare.row = parked.row /\ bare.dev = parked.dev
      /\ bare.nano.token = None /\ bare.nano.id = parked.nano.id
      /\ bare.nano.assoc = parked.nano.assoc /\ IsFun(bare.nano)
  <2> DEFINE n1 == [parked.nano EXCEPT !.token = None]
  <2>1. bare.nano = [n1 EXCEPT !.stamped = FALSE]
    BY <1>2 DEF Fields
  <2>2. IsFun(bare.nano)
    <3> HIDE DEF n1, bare
    <3>1. QED BY <2>1, FunKept
  <2>3. QED BY <1>2, <2>2 DEF Fields, DevFields, Nanoed, NanoFields
<1> HIDE DEF bare
<1>5. Copies(parked, bare, m)
  <2>1. Based(bare)
    BY <1>2, <1>4 DEF Based, Rowed
  <2>2. ASSUME Copied(parked, m) PROVE Copied(bare, m) /\ ~Mixed(bare, m)
    <3>1. None # Alien
      BY BoundsAssumption DEF None, Alien
    <3>2. bare.nano.token \in 0 .. m.tokens
      BY <1>4, <2>2, BoundsAssumption DEF Copied, None
    <3>3. QED BY <1>4, <2>2, <3>1, <3>2 DEF Copied, Own, Mixed, Enrolled
  <2>3. QED BY <2>1, <2>2 DEF Copies
<1>6. /\ Copies(parked, t, m) /\ Fields(t) /\ Nanoed(t) /\ t.row = w.row
      /\ t.dev.sealed = w.dev.sealed /\ t.nano.id = w.nano.id
      /\ t.nano.assoc = parked.nano.assoc /\ Based(t)
  <2>1. parked.dev = w.dev /\ parked.row = w.row /\ parked.nano.id = w.nano.id
    BY <1>2 DEF Rest
  <2> HIDE DEF live
  <2>2. CASE t = parked
    <3> HIDE DEF t
    <3>1. Copies(parked, parked, m)
      BY <1>2 DEF Copies
    <3>2. QED BY <1>2, <2>1, <2>2, <3>1
  <2>3. CASE t = WriteToken(parked) /\ w.dev.sealed # None
    <3> HIDE DEF t
    <3>1. QED BY <1>2, <2>1, <2>3, WriteTokenTok, WriteTokenCopies DEF Copies
  <2>4. CASE t = bare
    <3> HIDE DEF t
    <3>1. QED BY <1>4, <1>5, <2>1, <2>4 DEF Copies
  <2>5. QED BY <2>2, <2>3, <2>4
<1> HIDE DEF t, e, n
<1>7. /\ Fields(v) /\ Nanoed(v) /\ v.row = t.row /\ v.dev.state = t.dev.state
      /\ v.dev.sealed = t.dev.sealed /\ v.nano.token = t.nano.token /\ v.alarm = a
      /\ v.nano.id = n /\ v.nano.assoc = t.nano.assoc /\ v.nano = [t.nano EXCEPT !.id = n]
  <2> HIDE DEF a
  <2>1. QED BY <1>3, <1>6 DEF Fields, DevFields, Nanoed, NanoFields
<1>8. Copies(t, v, m)
  <2>1. Based(v)
    BY <1>6, <1>7 DEF Based, Rowed
  <2>2. IsFun(t.nano) /\ IsFun(t.nano.assoc) => IsFun(v.nano) /\ IsFun(v.nano.assoc)
    <3> HIDE DEF a
    <3>1. IsFun(v.nano)
      <4>1. v.nano = [t.nano EXCEPT !.id = n]
        BY <1>7
      <4>2. QED BY <4>1 DEF IsFun
    <3>2. QED BY <1>7, <3>1
  <2>3. QED BY <1>7, <2>1, <2>2, SameCopies
<1>9. Copies(w, v, m)
  BY <1>2, <1>6, <1>8, CopiesTwice
<1>10. Strays(v) = {}
  <2>1. Assoc(v) = Assoc(parked)
    BY <1>6, <1>7 DEF Assoc
  <2>2. QED BY <1>2, <1>6, <1>7, <2>1, NoStrayAllowed DEF Strays
<1>11. n = w.nano.id \/ (w.dev.id # None /\ n = w.dev.id)
  <2>1. w.dev.pem \in {None, w.dev.id}
    BY DEF Identified
  <2>2. QED BY <1>6, <2>1 DEF n
<1>12. QED BY <1>6, <1>7, <1>9, <1>10, <1>11 DEF v, a

----------------------------------------------------------------------------
(* When another machine's token may sit beside the Mac's sealed one.        *)
LEMMA PendsTaken ==
  ASSUME NEW q \in Seq(Msgs), Len(q) > 0, NEW c
  PROVE  LET r == RemoveAt(q, 1)
         IN  /\ Pends(q, c, 1) => q[1] \notin Answers(c)
             /\ Pends(q, c, 2) => Pends(q, c, 1) /\ Pends(r, c, 1)
             /\ Pends(q, c, 1) /\ q[1] # Authenticate => Pends(r, c, 1)
<1> DEFINE r == RemoveAt(q, 1)
<1>1. r \in Seq(Msgs) /\ Len(r) = Len(q) - 1 /\ Len(q) \in Nat
      /\ \A i \in 1 .. Len(r) : r[i] = q[i + 1]
  BY TailIs
<1> HIDE DEF r
<1>2. Pends(q, c, 1) => q[1] \notin Answers(c)
  BY <1>1 DEF Pends
<1>3. ASSUME NEW i \in 2 .. Len(q), q[i] = Authenticate, \A j \in 1 .. i : q[j] \notin Answers(c)
      PROVE  Pends(r, c, 1)
  <2>1. i - 1 \in 1 .. Len(r) /\ r[i - 1] = q[i]
    BY <1>1
  <2>2. ASSUME NEW j \in 1 .. (i - 1) PROVE r[j] \notin Answers(c)
    <3>1. j \in 1 .. Len(r) /\ j + 1 \in 1 .. i
      BY <1>1
    <3>2. QED BY <1>1, <1>3, <3>1
  <2>3. QED BY <1>3, <2>1, <2>2 DEF Pends
<1>4. Pends(q, c, 2) => Pends(q, c, 1) /\ Pends(r, c, 1)
  BY <1>1, <1>3 DEF Pends
<1>5. Pends(q, c, 1) /\ q[1] # Authenticate => Pends(q, c, 2)
  BY <1>1 DEF Pends
<1>6. QED BY <1>2, <1>4, <1>5 DEF r

LEMMA PendsSent ==
  ASSUME NEW q \in Seq(Msgs), NEW x \in Msgs, NEW c, NEW n \in {1, 2}
  PROVE  /\ Pends(q, c, n) => Pends(Append(q, x), c, n)
         /\ x = Authenticate /\ Len(q) > 0 /\ (\A y \in Answers(c) : ~OnTheWay(q, y))
            => Pends(Append(q, x), c, 2)
<1> DEFINE r == Append(q, x)
<1>1. r \in Seq(Msgs) /\ Len(r) = Len(q) + 1 /\ Len(q) \in Nat /\ r[Len(q) + 1] = x
      /\ \A i \in 1 .. Len(q) : r[i] = q[i]
  OBVIOUS
<1> HIDE DEF r
<1>2. ASSUME NEW i \in n .. Len(q), q[i] = Authenticate, \A j \in 1 .. i : q[j] \notin Answers(c)
      PROVE  Pends(r, c, n)
  <2>1. i \in n .. Len(r) /\ r[i] = Authenticate
    BY <1>1, <1>2
  <2>2. \A j \in 1 .. i : r[j] \notin Answers(c)
    BY <1>1, <1>2
  <2>3. QED BY <2>1, <2>2 DEF Pends
<1>3. ASSUME x = Authenticate, Len(q) > 0, \A y \in Answers(c) : ~OnTheWay(q, y)
      PROVE  Pends(r, c, 2)
  <2>1. Len(r) \in 2 .. Len(r) /\ r[Len(r)] = Authenticate
    BY <1>1, <1>3
  <2>2. ASSUME NEW j \in 1 .. Len(r) PROVE r[j] \notin Answers(c)
    <3>1. CASE j \in 1 .. Len(q)
      BY <1>1, <1>3, <3>1 DEF OnTheWay
    <3>2. CASE j = Len(q) + 1
      <4>1. Authenticate \notin Answers(c)
        BY MsgsDiffer DEF Authenticate
      <4>2. QED BY <1>1, <1>3, <3>2, <4>1
    <3>3. QED BY <1>1, <3>1, <3>2
  <2>3. QED BY <2>1, <2>2 DEF Pends
<1>4. QED BY <1>2, <1>3 DEF Pends, r

(* The same rows, as to their binding, and the same associations.           *)
LEMMA SideC ==
  ASSUME NEW w, NEW v, NEW m, NEW n, NEW q, CInv(w, m, q), Copied(v, n), Ranked(w),
         w.nano.id \in Certs,
         {"recent", "redo"} \subseteq DOMAIN v.alarm, v.alarm.redo = None,
         w.alarm.recent => v.alarm.recent, \A b \in Certs : SameWord(w, v, b),
         v.snapshot = w.snapshot, v.dev.id = w.dev.id, v.nano.id = w.nano.id,
         Assoc(v) = Assoc(w), n.using = None => n.token = None,
         Mixed(v, n) => Mixed(w, m), Newcomer(v) => ~Own(v, n)
  PROVE  CInv(v, n, q)
<1>1. /\ Allowed(v) = Allowed(w) /\ \A c \in Certs : Open(v, c) <=> Open(w, c)
  BY SameWordAllowed
<1>2. Strays(v) = Strays(w) /\ StraysUnbound(v)
  BY DEF CInv, StraysUnbound, Strays, SameWord, Assoc
<1>3. \A c : Underway(v, c) <=> Underway(w, c)
  BY <1>1 DEF Underway, SameWord
<1>4. Announced(v, q)
  BY <1>2, <1>3 DEF CInv, Announced, Late
<1>5. Returning(w, q) => Returning(v, q)
  BY <1>1, <1>3 DEF Returning, SameWord
<1>6. Over(w, q) => Over(v, q)
  BY <1>2 DEF Over
<1>7. Explained(v, n, q)
  BY <1>2, <1>5, <1>6 DEF CInv, Explained
<1>8. QED BY <1>2, <1>4, <1>7 DEF CInv

LEMMA SameC ==
  ASSUME NEW w, NEW v, NEW m, NEW q, CInv(w, m, q), Ranked(w), w.nano.id \in Certs,
         v.row = w.row, v.dev = w.dev, v.snapshot = w.snapshot, v.nano = w.nano,
         v.alarm = w.alarm
  PROVE  CInv(v, m, q)
<1>1. Copied(v, m) /\ Mixed(v, m) = Mixed(w, m) /\ Own(v, m) = Own(w, m)
  BY DEF CInv, Copied, Mixed, Own, Enrolled
<1>2. /\ \A b \in Certs : SameWord(w, v, b)
      /\ Assoc(v) = Assoc(w) /\ Newcomer(v) = Newcomer(w)
  BY DEF SameWord, Assoc, Newcomer
<1>3. QED BY <1>1, <1>2, SideC DEF CInv

(* The first webhook is taken.                                              *)
LEMMA TakenC ==
  ASSUME NEW w, NEW m, NEW q \in Seq(Msgs), CInv(w, m, q), Len(q) > 0, q[1] # Authenticate
  PROVE  Strays(w) = {} /\ CInv(w, m, RemoveAt(q, 1))
<1> DEFINE r == RemoveAt(q, 1)
<1>1. Len(r) = Len(q) - 1 /\ Len(q) \in Nat /\ \A i \in 1 .. Len(r) : r[i] = q[i + 1]
  BY TailIs
<1>2. Strays(w) = {}
  BY DEF CInv, Announced
<1>3. Returning(w, q) => Returning(w, r)
  BY PendsTaken DEF Returning
<1> HIDE DEF r
<1>4. Over(w, q) => Over(w, r)
  BY <1>1 DEF Over
<1>5. Announced(w, r) /\ Explained(w, m, r)
  BY <1>2, <1>3, <1>4 DEF CInv, Announced, Explained
<1>6. QED BY <1>2, <1>5 DEF CInv, r

LEMMA SentC ==
  ASSUME NEW w, NEW m, NEW q \in Seq(Msgs), CInv(w, m, q), NEW x \in Msgs,
         x # Authenticate, x # Msg("SetToken", Alien)
  PROVE  CInv(w, m, Append(q, x))
<1> DEFINE r == Append(q, x)
<1>1. r \in Seq(Msgs) /\ Len(r) = Len(q) + 1 /\ Len(q) \in Nat /\ r[Len(q) + 1] = x
      /\ \A i \in 1 .. Len(q) : r[i] = q[i]
  OBVIOUS
<1>2. \A c, n : n \in {1, 2} /\ Pends(q, c, n) => Pends(r, c, n)
  BY PendsSent
<1> HIDE DEF r
<1>3. Returning(w, q) => Returning(w, r)
  BY <1>2 DEF Returning
<1>4. Over(w, q) => Over(w, r)
  BY <1>1 DEF Over
<1>5. Announced(w, r)
  BY <1>1, <1>2 DEF CInv, Announced, Late
<1>6. Explained(w, m, r)
  BY <1>3, <1>4 DEF CInv, Explained
<1>7. QED BY <1>5, <1>6 DEF CInv, r

(* The answer to a renewal's task is taken, and the task ends.              *)
LEMMA AnsweredC ==
  ASSUME NEW w, NEW v, NEW m, NEW q \in Seq(Msgs), CInv(w, m, q), Len(q) > 0, OneOpen(w),
         NEW c \in Certs, q[1] \in Answers(c), Open(w, c),
         Copies(w, v, m), Calmer(w, v), v.dev.sealed = w.dev.sealed, v.alarm = w.alarm,
         Newcomer(v) => ~Own(v, m)
  PROVE  CInv(v, m, RemoveAt(q, 1))
<1> DEFINE r == RemoveAt(q, 1)
<1>1. q[1] # Authenticate
  BY MsgsDiffer DEF Authenticate
<1>2. Strays(w) = {} /\ CInv(w, m, r)
  BY <1>1, TakenC
<1>3. Strays(v) = {} /\ StraysUnbound(v)
  BY <1>2, CalmerStrays DEF CInv
<1>4. Copied(v, m) /\ (Mixed(v, m) => Mixed(w, m))
  BY DEF CInv, Copies
<1>5. ~Returning(w, q)
  BY PendsTaken DEF Returning, Underway, OneOpen
<1>6. Over(w, q) => Over(v, r)
  <2>1. Len(r) = Len(q) - 1 /\ Len(q) \in Nat /\ \A i \in 1 .. Len(r) : r[i] = q[i + 1]
    BY TailIs
  <2> HIDE DEF r
  <2>2. QED BY <1>3, <2>1 DEF Over
<1>7. Announced(v, r) /\ Explained(v, m, r)
  BY <1>2, <1>3, <1>4, <1>5, <1>6 DEF CInv, Announced, Explained
<1>8. QED BY <1>2, <1>3, <1>4, <1>7 DEF CInv

(* The device's own certificate, recorded by NanoMDM, is no newcomer.       *)
LEMMA OwnKnown ==
  ASSUME NEW w, NEW m, NEW q, LInv(w, m, q), w.dev.id = w.nano.id PROVE ~Newcomer(w)
<1>1. w.dev.id # None /\ Rows(w) /\ Identified(w)
  BY CertsAssumption DEF LInv, Recorded, None
<1>2. QED BY <1>1, IdentityIs DEF Accepted, Newcomer

LEMMA NoNewInstall ==
  ASSUME NEW w, NEW m, NEW q, LInv(w, m, q), CInv(w, m, q), Own(w, m),
         Stands(w, w.nano.id)
  PROVE  ~NewInstall(w, w.nano.id)
<1> DEFINE c == w.nano.id
<1>1. SUFFICES ASSUME NewInstall(w, c) PROVE FALSE
  OBVIOUS
<1>2. Enrolled(w) /\ ~Newcomer(w) /\ c \in Certs /\ Sound(w)
  BY DEF CInv, Copied, Own, LInv, Recorded, Rows, Shaped
<1>3. w.row[c].kind \notin {"renewal", "legacy"} /\ Fresh(w, c)
  BY <1>1, <1>2 DEF NewInstall, Fresh
<1>4. w.row[c].kind \in {"manual", "ade", "rts"} /\ ~(w.row[c].bound > 0 /\ w.row[c].holds)
  BY <1>2, <1>3 DEF Stands, Fresh, AlreadyBound, Bound
<1>5. w.row[c].bound \in Nat
  BY <1>2, BoundsAre
<1>6. w.row[c].bound = 0
  BY <1>2, <1>3, <1>4, <1>5 DEF Sound, RolledBack
<1>7. QED BY <1>2, <1>4, <1>6 DEF Newcomer

LEMMA CapturedSame ==
  ASSUME NEW w, NEW v, NEW m, NEW q, CInv(w, m, q), Own(w, m), ~Spared(w),
         w.nano.id \in Certs, Captured(w, v, w.nano.id, "Authenticate"),
         Len(q) \in Nat, Len(q) > 0, q[1] = Authenticate
  PROVE  v.dev.sealed = w.dev.sealed
<1>1. w.nano.token \in {None, Alien, m.token} /\ w.nano.token # None
      /\ v.dev.sealed = w.nano.token /\ w.dev.sealed = m.token
  BY DEF CInv, Copied, Own, Captured
<1>2. ASSUME w.nano.token = Alien PROVE FALSE
  <2>1. Mixed(w, m) /\ ~w.alarm.recent
    BY <1>2 DEF Mixed, Captured
  <2>2. ~Over(w, q)
    BY DEF Over
  <2>3. ~Open(w, w.nano.id)
    BY <1>2 DEF Spared
  <2>4. ~Returning(w, q) /\ ~Late(w, q)
    BY <2>3 DEF Returning, Late, Underway
  <2>5. w.nano.id \in Strays(w)
    BY <2>1, <2>2, <2>4 DEF CInv, Explained, Announced
  <2>6. QED BY <2>5 DEF Strays, Captured
<1>3. QED BY <1>1, <1>2

(* A check-in is bound.                                                     *)
LEMMA BoundC ==
  ASSUME NEW w, NEW m, NEW q, LInv(w, m, q), CInv(w, m, q), Stands(w, w.nano.id),
         NEW topic \in CheckIns, Len(q) > 0, q[1] = Msg(topic, 0)
  PROVE  LET v == Bind(w, w.nano.id, topic, {})
         IN  /\ CInv(v, m, RemoveAt(q, 1))
             /\ Own(w, m) /\ ~Spared(w) => v.dev.sealed = w.dev.sealed
<1> DEFINE c == w.nano.id
           a == Accept(w, c, topic, {})
           v == Bind(w, c, topic, {})
           r == RemoveAt(q, 1)
           renewal == w.row[c].kind = "renewal"
<1>1. /\ c \in Certs /\ Rows(w) /\ Shaped(w) /\ q \in Seq(Msgs) /\ Len(q) \in Nat
      /\ StraysUnbound(w)
  BY DEF LInv, Recorded, Rows, Asked, Shape, CInv
<1>2. /\ Copies(w, v, m) /\ v.alarm = w.alarm /\ Strays(v) = {} /\ StraysUnbound(v)
      /\ renewal /\ Open(w, c) =>
           Open(v, c) /\ v.row[c].bound > 0 /\ Assoc(v) \subseteq Allowed(v)
      /\ v.dev.sealed = w.dev.sealed \/ NewInstall(w, c) \/ Captured(w, v, c, topic)
      /\ Copies(a, v, m)
  BY <1>1, BindCopies
<1>3. LInv(v, m, q) /\ v.dev.id = v.nano.id
  BY BindKeeps
<1>4. v.dev.id = c /\ \A b \in Certs : v.row[b].kind = w.row[b].kind
  <2>1. v.dev.id = c
    BY <1>1, BindSound DEF Shaped
  <2>2. Tok(w, v)
    BY <1>1, BindTok
  <2>3. QED BY <2>1, <2>2 DEF Tok
<1>5. Copied(w, m) /\ Copied(v, m) /\ (Mixed(v, m) => Mixed(w, m))
  BY <1>2 DEF CInv, Copies
<1>6. Copies(w, a, m)
  BY <1>1, AcceptCopies
<1>7. ~Newcomer(v)
  BY <1>3, OwnKnown
<1> HIDE DEF a, v
<1>8. Announced(v, r)
  BY <1>2 DEF Announced
<1>9. ASSUME renewal, Open(w, c), Pends(r, c, 1) PROVE Returning(v, r)
  <2>1. Underway(v, c)
    BY <1>1, <1>2, <1>4, <1>9 DEF Underway
  <2>2. QED BY <1>2, <1>3, <1>4, <1>9, <2>1 DEF Returning
<1>10. Explained(v, m, r)
  <2>1. SUFFICES ASSUME Mixed(v, m), ~v.alarm.recent PROVE Returning(v, r) \/ Over(v, r)
    BY DEF Explained
  <2>2. Mixed(w, m) /\ ~w.alarm.recent
    BY <1>2, <1>5, <2>1
  <2>3. CASE Strays(w) # {}
    <3>1. c \notin Strays(w)
      BY DEF Stands, Strays
    <3>2. Late(w, q)
      BY <2>3, <3>1 DEF CInv, Announced
    <3>3. Pends(r, c, 1)
      BY <1>1, <3>2, PendsTaken DEF Late
    <3>4. QED BY <1>9, <3>2, <3>3 DEF Late, Underway
  <2>4. CASE Returning(w, q)
    <3>1. renewal /\ Open(w, c) /\ w.dev.id = c /\ w.row[c].bound > 0
          /\ Assoc(w) \subseteq Allowed(w) /\ Pends(q, c, 1)
      BY <2>4 DEF Returning, Underway
    <3>2. CASE topic = "Authenticate"
      <4>1. ~Fresh(w, c)
        BY <1>1, <3>1 DEF Stands, Fresh, AlreadyBound, Bound
      <4>2. ~Mixed(a, m)
        BY <1>1, <1>5, <2>2, <3>1, <3>2, <4>1, AcceptCaptures DEF a
      <4>3. Copied(a, m)
        BY <1>5, <1>6 DEF Copies
      <4>4. QED BY <1>2, <2>1, <4>2, <4>3 DEF Copies
    <3>3. CASE topic = "TokenUpdate"
      <4>1. q[1] # Authenticate
        BY <3>3, MsgsDiffer DEF Authenticate
      <4>2. Pends(r, c, 1)
        BY <1>1, <3>1, <4>1, PendsTaken
      <4>3. QED BY <1>9, <3>1, <4>2
    <3>4. QED BY <3>2, <3>3 DEF CheckIns
  <2>5. CASE Over(w, q)
    <3>1. Len(r) = Len(q) - 1 /\ \A i \in 1 .. Len(r) : r[i] = q[i + 1]
      BY <1>1, TailIs
    <3> HIDE DEF r
    <3>2. QED BY <1>1, <1>2, <2>5, <3>1 DEF Over
  <2>6. QED BY <2>2, <2>3, <2>4, <2>5 DEF CInv, Explained
<1>11. CInv(v, m, r)
  BY <1>2, <1>5, <1>7, <1>8, <1>10 DEF CInv
<1>12. ASSUME Own(w, m), ~Spared(w) PROVE v.dev.sealed = w.dev.sealed
  <2>1. ~NewInstall(w, c)
    BY <1>12, NoNewInstall
  <2>2. ASSUME Captured(w, v, c, topic) PROVE v.dev.sealed = w.dev.sealed
    <3>1. topic = "Authenticate" /\ q[1] = Authenticate
      BY <2>2 DEF Captured, Authenticate
    <3>2. QED BY <1>1, <1>12, <2>2, <3>1, CapturedSame
  <2>3. QED BY <1>2, <2>1, <2>2
<1>13. QED BY <1>11, <1>12 DEF v

(* The reconciler accepts what NanoMDM recorded.                            *)
LEMMA AcceptedC ==
  ASSUME NEW w, NEW m, NEW q, LInv(w, m, q), CInv(w, m, q), Stands(w, w.nano.id)
  PROVE  LET v == Accept(w, w.nano.id, "none", {})
         IN  CInv(v, m, q) /\ (Own(w, m) => v.dev.sealed = w.dev.sealed)
<1> DEFINE c == w.nano.id
           v == Accept(w, c, "none", {})
           renewal == w.row[c].kind = "renewal"
<1>1. /\ c \in Certs /\ Rows(w) /\ Shaped(w) /\ q \in Seq(Msgs) /\ Len(q) \in Nat
      /\ StraysUnbound(w)
  BY DEF LInv, Recorded, Rows, Asked, Shape, CInv
<1>2. /\ Copies(w, v, m) /\ v.alarm = w.alarm
      /\ v.dev.sealed = w.dev.sealed \/ NewInstall(w, c) \/ Captured(w, v, c, "none")
  BY <1>1, AcceptCopies
<1>3. /\ Strays(v) = {} /\ StraysUnbound(v)
      /\ renewal /\ Open(w, c) =>
           Open(v, c) /\ v.row[c].bound > 0 /\ Assoc(v) \subseteq Allowed(v)
  BY <1>1, AcceptClears
<1>4. Shaped(v) /\ Accepts(w, v, c)
  BY <1>1, AcceptDoes
<1> HIDE DEF v
<1>5. LInv(v, m, q) /\ v.dev.id = c /\ v.nano.id = c /\ v.row[c].kind = w.row[c].kind
  BY <1>4, AcceptedKeeps DEF Accepts
<1>6. Copied(v, m) /\ (Mixed(v, m) => Mixed(w, m))
  BY <1>2 DEF CInv, Copies
<1>7. ~Newcomer(v)
  BY <1>5, OwnKnown
<1>8. Announced(v, q)
  BY <1>3 DEF Announced
<1>9. ASSUME renewal, Open(w, c), Pends(q, c, 1) PROVE Returning(v, q)
  BY <1>1, <1>3, <1>5, <1>9 DEF Returning, Underway
<1>10. Explained(v, m, q)
  <2>1. SUFFICES ASSUME Mixed(v, m), ~v.alarm.recent PROVE Returning(v, q) \/ Over(v, q)
    BY DEF Explained
  <2>2. Mixed(w, m) /\ ~w.alarm.recent
    BY <1>2, <1>6, <2>1
  <2>3. CASE Strays(w) # {}
    <3>1. c \notin Strays(w)
      BY DEF Stands, Strays
    <3>2. Late(w, q) /\ Len(q) > 0
      BY <2>3, <3>1 DEF CInv, Announced
    <3>3. Pends(q, c, 1)
      BY <1>1, <3>2, PendsTaken DEF Late
    <3>4. QED BY <1>9, <3>2, <3>3 DEF Late, Underway
  <2>4. CASE Returning(w, q)
    BY <1>9, <2>4 DEF Returning, Underway
  <2>5. CASE Over(w, q)
    BY <1>3, <2>5 DEF Over
  <2>6. QED BY <2>2, <2>3, <2>4, <2>5 DEF CInv, Explained
<1>11. CInv(v, m, q)
  BY <1>2, <1>3, <1>6, <1>7, <1>8, <1>10 DEF CInv
<1>12. Own(w, m) => v.dev.sealed = w.dev.sealed
  BY <1>2, NoNewInstall DEF Captured
<1>13. QED BY <1>11, <1>12 DEF v

(* A refusal, by a check-in or by the reconciler.                           *)
LEMMA RefusedC ==
  ASSUME NEW w, NEW m, NEW q, LInv(w, m, q), CInv(w, m, q), NEW r
  PROVE  LET v == Refuse(w, w.nano.id, {})
         IN  CInv(v, m, r) /\ v.dev.sealed = w.dev.sealed
<1> DEFINE v == Refuse(w, w.nano.id, {})
<1>1. w.nano.id \in Certs /\ Rows(w) /\ Identified(w) /\ StraysUnbound(w)
  BY DEF LInv, Recorded, CInv
<1>2. /\ Copies(w, v, m) /\ Strays(v) = {} /\ v.row = w.row /\ v.dev.sealed = w.dev.sealed
      /\ v.alarm = [recent |-> TRUE, redo |-> None]
      /\ v.nano.id = w.nano.id \/ (w.dev.id # None /\ v.nano.id = w.dev.id)
  BY <1>1, RefuseCopies
<1> HIDE DEF v
<1>3. Newcomer(v) => ~Own(v, m)
  <2>1. CASE v.nano.id = w.nano.id
    BY <1>2, <2>1 DEF CInv, Newcomer, Own
  <2>2. CASE w.dev.id # None /\ v.nano.id = w.dev.id
    BY <1>1, <1>2, <2>2, IdentityIs DEF Newcomer, Accepted
  <2>3. QED BY <1>2, <2>1, <2>2
<1>4. {"recent", "redo"} \subseteq DOMAIN v.alarm /\ v.alarm.redo = None /\ v.alarm.recent
  BY <1>2
<1>5. QED BY <1>1, <1>2, <1>3, <1>4 DEF CInv, Copies, StraysUnbound, Announced, Explained, v

(* No write fails where the count of the failed ones stays at none.         *)
LEMMA NoFaults ==
  ASSUME NEW F \in Faults, Failing(F), faults \in Nat, faults' = 0
  PROVE  F = {} /\ faults = 0
<1>1. ASSUME NEW f, F = {f} PROVE FALSE
  <2>1. Cardinality(F) = 1
    BY <1>1, FS_Singleton
  <2>2. QED BY <2>1 DEF Failing
<1>2. F = {}
  BY <1>1 DEF Faults
<1>3. Cardinality(F) = 0
  BY <1>2, FS_EmptySet
<1>4. QED BY <1>2, <1>3 DEF Failing

LEMMA FaultsCount ==
  ASSUME [Next]_vars, faults \in Nat
  PROVE  faults' \in Nat /\ (faults' = 0 => faults = 0)
<1>1. ASSUME NEW F \in Faults, Failing(F) PROVE faults' \in Nat /\ (faults' = 0 => faults = 0)
  <2>1. Cardinality(F) \in {0, 1}
    BY FS_Singleton, FS_EmptySet DEF Faults
  <2>2. QED BY <1>1, <2>1 DEF Failing
<1>2. CASE Handle
  BY <1>1, <1>2 DEF Handle, UpsertUnjudged, UpsertRefused, UpsertBound, SaveUpsert,
     HandleSetToken, HandleCheckOut, HandleAcknowledged, HandleError
<1>3. CASE Minute
  BY <1>1, <1>3 DEF Minute, Reconcile, RetryRefusalRestore, RetryBootstrapRestore, CaptureToken
<1>4. CASE Issue
  BY <1>4 DEF Issue, Renew, EndTask, Allow, AgeAssociations, RefusalLapses
<1>5. CASE Outside
  BY <1>5 DEF Outside, MacRenews, MacFails, MacAcknowledges, OtherAuthenticates,
     OtherSetsToken, MacEnrolls, MacAuthenticates, MacConfirms, MacTokenUpdate,
     MacSetsToken, MacChecksOut, LoseWebhook
<1>6. CASE UNCHANGED vars
  BY <1>6 DEF vars
<1>7. QED BY <1>2, <1>3, <1>4, <1>5, <1>6 DEF Next

(* What a step starts from.                                                 *)
LEMMA CopyFrom ==
  ASSUME COInv, mishaps = 0, faults = 0
  PROVE  /\ LInv(World, mac, inbox) /\ CInv(World, mac, inbox) /\ Shaped(World)
         /\ Based(World) /\ Fields(World) /\ Nanoed(World) /\ Recorded(World)
         /\ Rows(World) /\ Identified(World) /\ Ranked(World) /\ Sound(World)
         /\ Asked(World, mac, inbox) /\ Shape(mac, inbox) /\ inbox \in Seq(Msgs)
         /\ nano.id \in Certs /\ World.nano.id = nano.id /\ Rowed(World)
         /\ DevFields \subseteq DOMAIN dev /\ NanoFields \subseteq DOMAIN nano
         /\ DOMAIN nano.assoc = Certs /\ DOMAIN row = Certs
         /\ \A c \in Certs : RowFields \subseteq DOMAIN row[c]
         /\ MacFields \subseteq DOMAIN mac /\ Copied(World, mac)
         /\ Strays(World) \subseteq Certs
<1>1. LInv(World, mac, inbox) /\ CInv(World, mac, inbox)
  BY DEF COInv, LockInv
<1>2. /\ Shaped(World) /\ Recorded(World) /\ Rows(World) /\ Asked(World, mac, inbox)
      /\ Identified(World)
  BY <1>1 DEF LInv, Rows
<1>3. /\ Based(World) /\ Fields(World) /\ Nanoed(World) /\ Sound(World) /\ Rowed(World)
      /\ Ranked(World)
  BY <1>2, ShapedBased, ShapedFields DEF Shaped, Sound
<1>4. Shape(mac, inbox) /\ MacFields \subseteq DOMAIN mac /\ inbox \in Seq(Msgs)
  BY <1>2 DEF Asked, Shape
<1>5. QED BY <1>1, <1>2, <1>3, <1>4, WorldIs
   DEF Recorded, Nanoed, Fields, Rowed, CInv, Strays, Assoc

(* A handler's world is the next one.                                       *)
LEMMA NextC ==
  ASSUME NEW v, NEW n, NEW q, Become(v), CInv(v, n, q), LInv(World', n, q)
  PROVE  CInv(World', n, q)
<1>1. Ranked(World') /\ World'.nano.id \in Certs
  BY DEF LInv, Rows, Shaped, Sound, Recorded
<1>2. /\ World'.row = v.row /\ World'.dev = v.dev /\ World'.snapshot = v.snapshot
      /\ World'.nano = v.nano /\ World'.alarm = v.alarm
  BY WorldIs DEF Become
<1>3. Ranked(v) /\ v.nano.id \in Certs
  BY <1>1, <1>2 DEF Ranked
<1>4. QED BY <1>2, <1>3, SameC

LEMMA UpsertsCopy ==
  ASSUME COInv, faults' = 0, mishaps' = 0, LInv(World', mac', inbox'),
         NEW topic \in CheckIns, NEW F \in Faults,
         UpsertUnjudged(topic) \/ UpsertRefused(topic, F) \/ UpsertBound(topic, F)
  PROVE  CInv(World', mac', inbox') /\ KeepsCopy
<1> DEFINE c == nano.id
<1>1. Arrives(Msg(topic, 0)) /\ mac' = mac
  BY DEF UpsertUnjudged, UpsertRefused, UpsertBound
<1>2. /\ mishaps = 0 /\ Len(inbox) > 0 /\ inbox[1] = Msg(topic, 0)
      /\ inbox' = RemoveAt(inbox, 1)
  BY <1>1, FirstArrives DEF COInv, LockInv
<1>3. /\ faults = 0 /\ (F = {} \/ UpsertUnjudged(topic))
  BY NoFaults DEF UpsertUnjudged, UpsertRefused, UpsertBound, COInv
<1>4. /\ LInv(World, mac, inbox) /\ CInv(World, mac, inbox) /\ inbox \in Seq(Msgs)
      /\ c \in Certs /\ World.nano.id = c
  BY <1>2, <1>3, CopyFrom
<1>5. CASE UpsertUnjudged(topic)
  <2>1. UNCHANGED server /\ topic = "TokenUpdate"
    BY <1>5 DEF UpsertUnjudged, Stale
  <2>2. World' = World /\ dev' = dev
    BY <2>1 DEF World, server
  <2>3. inbox[1] # Authenticate
    BY <1>2, <2>1, MsgsDiffer DEF Authenticate
  <2>4. QED BY <1>1, <1>2, <1>4, <2>2, <2>3, TakenC DEF KeepsCopy
<1>6. CASE UpsertRefused(topic, F) /\ F = {}
  <2> DEFINE v == Refuse(World, c, {})
  <2>1. Become(v)
    BY <1>6 DEF UpsertRefused
  <2>2. CInv(v, mac, inbox') /\ v.dev.sealed = World.dev.sealed
    BY <1>4, RefusedC
  <2> HIDE DEF v
  <2>3. CInv(World', mac', inbox')
    BY <1>1, <2>1, <2>2, NextC
  <2>4. QED BY <2>1, <2>2, <2>3, WorldIs DEF KeepsCopy, Become
<1>7. CASE UpsertBound(topic, F) /\ F = {}
  <2> DEFINE v == Bind(World, c, topic, {})
  <2>1. Become(v) /\ Stands(World, c)
    BY <1>7 DEF UpsertBound, MayBind
  <2>2. /\ CInv(v, mac, inbox')
        /\ Own(World, mac) /\ ~Spared(World) => v.dev.sealed = World.dev.sealed
    BY <1>2, <1>4, <2>1, BoundC
  <2> HIDE DEF v
  <2>3. CInv(World', mac', inbox')
    BY <1>1, <2>1, <2>2, NextC
  <2>4. QED BY <2>1, <2>2, <2>3, WorldIs DEF KeepsCopy, Become
<1>8. QED BY <1>3, <1>5, <1>6, <1>7

(* The save of an upsert: a fresh enrollment seals what was stored before.  *)
LEMMA SavedC ==
  ASSUME NEW w, NEW m, NEW q, LInv(w, m, q), CInv(w, m, q)
  PROVE  LET saved == [w EXCEPT !.dev.state = "enrolled"]
         IN  /\ CInv(saved, m, q) /\ saved.dev.sealed = w.dev.sealed
             /\ LInv(saved, m, q)
<1> DEFINE saved == [w EXCEPT !.dev.state = "enrolled"]
<1>1. Fields(w) /\ Ranked(w) /\ w.nano.id \in Certs /\ LInv(saved, m, q)
  <2>1. LInv(saved, m, q)
    BY SavedKeeps
  <2> HIDE DEF saved
  <2>2. QED BY <2>1, ShapedFields DEF LInv, Rows, Shaped, Sound, Recorded
<1>2. /\ saved.row = w.row /\ saved.snapshot = w.snapshot /\ saved.nano = w.nano
      /\ saved.alarm = w.alarm /\ saved.dev.sealed = w.dev.sealed
      /\ saved.dev.id = w.dev.id /\ saved.dev.state = "enrolled"
  BY <1>1 DEF Fields, DevFields
<1> HIDE DEF saved
<1>3. /\ Copied(saved, m) /\ (Mixed(saved, m) <=> Mixed(w, m))
      /\ (Newcomer(saved) <=> Newcomer(w)) /\ (Own(saved, m) <=> Own(w, m))
      /\ Assoc(saved) = Assoc(w) /\ \A b \in Certs : SameWord(w, saved, b)
  BY <1>2 DEF CInv, Copied, Mixed, Newcomer, Own, Assoc, SameWord, Enrolled
<1>4. CInv(saved, m, q)
  BY <1>1, <1>2, <1>3, SideC DEF CInv
<1>5. QED BY <1>1, <1>2, <1>4 DEF saved

(* A capture seals for the device's own identity.                           *)
LEMMA CaptureC ==
  ASSUME NEW w, NEW m, NEW q, LInv(w, m, q), CInv(w, m, q)
  PROVE  LET v == Capture(w, FALSE)
         IN  CInv(v, m, q) /\ (Own(w, m) => v.dev.sealed = w.dev.sealed)
<1> DEFINE v == Capture(w, FALSE)
<1>1. /\ Shaped(w) /\ Based(w) /\ Fields(w) /\ Nanoed(w) /\ Ranked(w) /\ w.nano.id \in Certs
      /\ Rows(w) /\ Identified(w)
  BY ShapedFields, ShapedBased DEF LInv, Rows, Shaped, Sound, Recorded
<1>2. Copies(w, v, m) /\ Aside(w, v) /\ Tok(w, v)
  BY <1>1, CaptureCopies, TokensAside, TokensTok
<1>3. \/ v = w
      \/ /\ Settled(w) /\ w.dev.sealed \in {None, w.nano.token}
         /\ v = [w EXCEPT !.dev.sealed = w.nano.token, !.dev.escrowed = TRUE]
  BY DEF Capture
<1>4. Own(w, m) => v.dev.sealed = w.dev.sealed
  BY <1>1, <1>3 DEF Own, Fields, DevFields
<1>5. /\ \A b \in Certs : SameWord(w, v, b)
      /\ v.snapshot = w.snapshot /\ v.dev.id = w.dev.id /\ v.nano.id = w.nano.id
      /\ Assoc(v) = Assoc(w) /\ v.alarm = w.alarm /\ (Newcomer(v) <=> Newcomer(w))
  <2> HIDE DEF v
  <2>1. QED BY <1>2 DEF Aside, Tok, SameWord, Assoc, Newcomer
<1>6. Newcomer(v) => ~Own(v, m)
  <2>1. Settled(w) => ~Newcomer(w)
    BY <1>1, SettledKnown
  <2> HIDE DEF v
  <2>2. QED BY <1>3, <1>5, <2>1 DEF CInv
<1> HIDE DEF v
<1>7. CInv(v, m, q)
  BY <1>1, <1>2, <1>5, <1>6, SideC DEF CInv, Copies
<1>8. QED BY <1>4, <1>7 DEF v

(* A task is marked as ended.                                               *)
LEMMA TaskC ==
  ASSUME NEW w, Based(w), NEW c \in Certs, NEW how, how # "open", NEW m
  PROVE  LET v == [w EXCEPT !.row[c].task = how]
         IN  /\ Copies(w, v, m) /\ Calmer(w, v) /\ Based(v)
             /\ v.nano = w.nano /\ v.dev = w.dev /\ v.alarm = w.alarm
<1> DEFINE v == [w EXCEPT !.row[c].task = how]
<1>1. Rowed(w) /\ Fields(w)
  BY DEF Based, Rowed
<1>2. Copies(w, v, m) /\ Tok(w, v)
  BY TaskCopies, TaskTok
<1>3. /\ v.dev = w.dev /\ v.nano = w.nano /\ v.alarm = w.alarm
      /\ v.row = [w.row EXCEPT ![c].task = how]
  BY <1>1 DEF Fields
<1> HIDE DEF v
<1>4. \A b \in Certs : v.row[b].kind = w.row[b].kind /\ v.row[b].bound = w.row[b].bound
  BY <1>1, <1>3 DEF Rowed, RowFields
<1>5. Calmer(w, v) /\ Based(v)
  BY <1>2, <1>3, <1>4 DEF Calmer, Assoc, Tok
<1>6. QED BY <1>2, <1>3, <1>5 DEF v

(* The renewal succeeded, or failed.                                        *)
LEMMA AcknowledgedC ==
  ASSUME NEW w, NEW m, NEW q, LInv(w, m, q), CInv(w, m, q), Len(q) > 0, NEW c \in Certs,
         q[1] = Msg("Acknowledged", c), Open(w, c)
  PROVE  LET done == [w EXCEPT !.row[c].task = "done"]
             v == IF w.row[c].bound = 0 THEN done ELSE Finish(done, c, {})
         IN  CInv(v, m, RemoveAt(q, 1)) /\ v.dev.sealed = w.dev.sealed
<1> DEFINE done == [w EXCEPT !.row[c].task = "done"]
           fin == Finish(done, c, {})
           v == IF w.row[c].bound = 0 THEN done ELSE fin
<1>1. /\ Based(w) /\ OneOpen(w) /\ q \in Seq(Msgs) /\ q[1] \in Answers(c)
      /\ w.nano.id \in Certs
  BY ShapedBased DEF LInv, Rows, Asked, Shape, Answers, Recorded
<1>2. /\ Copies(w, done, m) /\ Calmer(w, done) /\ Based(done)
      /\ done.nano = w.nano /\ done.dev = w.dev /\ done.alarm = w.alarm
  BY <1>1, TaskC
<1> HIDE DEF done
<1>3. /\ Copies(done, fin, m) /\ fin.dev = done.dev /\ Calmer(done, fin)
      /\ fin.nano.id = done.nano.id /\ fin.alarm = done.alarm
  BY <1>2, FinishCopies, FinishCalmer
<1> HIDE DEF fin
<1>4. /\ Copies(w, v, m) /\ Calmer(w, v) /\ v.dev.sealed = w.dev.sealed
      /\ v.alarm = w.alarm /\ v.nano.id = w.nano.id
  <2>1. CASE w.row[c].bound = 0
    BY <1>2, <2>1
  <2>2. CASE w.row[c].bound # 0
    <3>1. Copies(w, fin, m)
      BY <1>2, <1>3, CopiesTwice
    <3>2. Calmer(w, fin)
      BY <1>2, <1>3 DEF Calmer
    <3>3. QED BY <1>2, <1>3, <2>2, <3>1, <3>2
  <2>3. QED BY <2>1, <2>2
<1> HIDE DEF v
<1>5. Newcomer(v) => ~Own(v, m)
  BY <1>1, <1>4, CalmerStrays DEF CInv, Own
<1>6. CInv(v, m, RemoveAt(q, 1))
  BY <1>1, <1>4, <1>5, AnsweredC
<1>7. QED BY <1>4, <1>6 DEF v, fin, done

LEMMA RolledBackC ==
  ASSUME NEW w, NEW m, NEW q, LInv(w, m, q), CInv(w, m, q), Len(q) > 0, NEW c \in Certs,
         q[1] = Msg("Error", c), Open(w, c)
  PROVE  LET v == RollBack([w EXCEPT !.row[c].task = "failed"], c, {})
         IN  CInv(v, m, RemoveAt(q, 1)) /\ v.dev.sealed = w.dev.sealed
<1> DEFINE failed == [w EXCEPT !.row[c].task = "failed"]
           v == RollBack(failed, c, {})
           p == BackTo(w, c)
<1>1. /\ Shaped(w) /\ Rows(w) /\ Identified(w) /\ Asked(w, m, q) /\ Awaits(w, m, q)
      /\ OnTheWay(q, q[1]) /\ w.row[c].kind = "renewal"
      /\ Based(w) /\ OneOpen(w) /\ q \in Seq(Msgs) /\ q[1] \in Answers(c)
      /\ w.nano.id \in Certs
  BY TakenFirst, ShapedBased
     DEF LInv, Rows, Asked, Shape, Shaped, Sound, Open, Answers, Recorded
<1>2. w.dev.id = c \/ c \notin Bound(w)
  <2>1. Expected(w, m, q, c)
    BY <1>1 DEF Expected
  <2>2. QED BY <1>1, <2>1 DEF Awaits, Bound
<1>3. \/ Ended(w, v, c, "failed")
      \/ p # None /\ Returns(w, v, c, p)
  BY <1>1, <1>2, RollBackDoes
<1>4. p # None => p \in Certs /\ Precedes(w, p, c)
  BY <1>1, BackToIs
<1>5. /\ Copies(w, failed, m) /\ Based(failed) /\ failed.dev = w.dev
      /\ failed.alarm = w.alarm /\ failed.nano = w.nano
  BY <1>1, TaskC
<1> HIDE DEF failed, p
<1>6. Copies(failed, v, m) /\ v.dev.sealed = failed.dev.sealed /\ v.alarm = failed.alarm
  BY <1>5, RollBackCopies, RollBackTok DEF Tok
<1> HIDE DEF v
<1>7. Copies(w, v, m) /\ v.dev.sealed = w.dev.sealed /\ v.alarm = w.alarm
  BY <1>5, <1>6, CopiesTwice
<1>8. CASE Ended(w, v, c, "failed")
  <2>1. Calmer(w, v) /\ v.nano.id = w.nano.id
    BY <1>8 DEF Ended, Calmer, SameRow, Assoc
  <2>2. Newcomer(v) => ~Own(v, m)
    BY <1>1, <1>7, <2>1, CalmerStrays DEF CInv, Own
  <2>3. CInv(v, m, RemoveAt(q, 1))
    BY <1>1, <1>7, <2>1, <2>2, AnsweredC
  <2>4. QED BY <1>7, <2>3 DEF v, failed
<1>9. CASE p # None /\ Returns(w, v, c, p)
  <2>1. Calmer(w, v)
    BY <1>9 DEF Returns, Calmer, SameRow, Assoc, Loses, Held
  <2>2. Newcomer(v) => ~Own(v, m)
    <3>1. CASE v.nano.id = w.nano.id
      BY <1>1, <1>7, <2>1, <3>1, CalmerStrays DEF CInv, Own
    <3>2. CASE v.nano.id = p
      <4>1. p \in Certs /\ Accepted(w, p)
        BY <1>1, <1>4, <1>9 DEF Precedes, Bound, Shaped, Sound, Accepted
      <4>2. QED BY <2>1, <3>2, <4>1 DEF Newcomer, Accepted, Calmer
    <3>3. QED BY <1>9, <3>1, <3>2 DEF Returns
  <2>3. CInv(v, m, RemoveAt(q, 1))
    BY <1>1, <1>7, <2>1, <2>2, AnsweredC
  <2>4. QED BY <1>7, <2>3 DEF v, failed
<1>10. QED BY <1>3, <1>8, <1>9

(* A check-out that is taken: the Mac has no token any more.                *)
LEMMA CheckedOutC ==
  ASSUME NEW w, NEW m, NEW q, LInv(w, m, q), CInv(w, m, q), Len(q) > 0, q[1] = Out
  PROVE  LET r == RemoveAt(q, 1)
             v == [Fail(w, Certs, "failed") EXCEPT
                     !.dev.state = "unenrolled", !.dev.sealed = None,
                     !.dev.escrowed = FALSE]
         IN  CInv(w, m, r) /\ CInv(v, m, r) /\ ~Own(w, m)
<1> DEFINE r == RemoveAt(q, 1)
           f == Fail(w, Certs, "failed")
           v == [f EXCEPT !.dev.state = "unenrolled", !.dev.sealed = None,
                          !.dev.escrowed = FALSE]
<1>1. Based(w) /\ Shaped(w) /\ q \in Seq(Msgs) /\ Asked(w, m, q) /\ w.nano.id \in Certs
  BY ShapedBased DEF LInv, Rows, Asked, Shape, Recorded
<1>2. m.token = None
  <2>1. OnTheWay(q, Out)
    BY <1>1, TakenFirst
  <2>2. QED BY <1>1, <2>1 DEF Asked, Answered, CInv
<1>3. Strays(w) = {} /\ CInv(w, m, r)
  <2>1. q[1] # Authenticate
    BY MsgsDiffer DEF Authenticate, Out
  <2>2. QED BY <1>1, <2>1, TakenC
<1>4. /\ Fields(f) /\ f.nano = w.nano /\ f.alarm = w.alarm
      /\ \A b \in Certs : f.row[b].kind = w.row[b].kind /\ f.row[b].bound = w.row[b].bound
  <2>1. Shaped(f) /\ Failed(w, f, Certs)
    BY <1>1, FailDoes
  <2>2. Tok(w, f) /\ f.nano = w.nano
    BY <1>1, FailTok
  <2> HIDE DEF f
  <2>3. QED BY <2>1, <2>2, ShapedFields DEF Tok, Failed
<1> HIDE DEF f
<1>5. /\ v.row = f.row /\ v.nano = f.nano /\ v.alarm = f.alarm
      /\ v.dev.sealed = None /\ v.dev.state = "unenrolled"
  BY <1>4 DEF Fields, DevFields
<1> HIDE DEF v
<1>6. Copied(v, m) /\ ~Own(v, m)
  BY <1>4, <1>5, BoundsAssumption DEF CInv, Copied, Own, Enrolled, None
<1>7. Strays(v) = {} /\ StraysUnbound(v)
  BY <1>3, <1>4, <1>5 DEF CInv, Strays, StraysUnbound, Assoc
<1>8. CInv(v, m, r)
  BY <1>4, <1>5, <1>6, <1>7 DEF CInv, Announced, Explained, Mixed
<1>9. QED BY <1>2, <1>3, <1>8 DEF Own, v, f

(* A token is sealed by its webhook.                                        *)
LEMMA TokenSealedC ==
  ASSUME COInv, mishaps = 0, faults = 0, NEW t \in 1 .. Alien, Len(inbox) > 0,
         inbox[1] = Msg("SetToken", t), mac' = mac, inbox' = RemoveAt(inbox, 1),
         LInv(World', mac, inbox'), Enrolled(World), Settled(World), nano.token = t,
         dev' = [dev EXCEPT !.sealed = t, !.escrowed = TRUE],
         UNCHANGED <<row, snapshot, nano, alarm>>
  PROVE  CInv(World', mac', inbox') /\ KeepsCopy
<1>0. /\ LInv(World, mac, inbox) /\ CInv(World, mac, inbox) /\ inbox \in Seq(Msgs)
      /\ Rows(World) /\ Identified(World) /\ Ranked(World) /\ World.nano.id \in Certs
      /\ DevFields \subseteq DOMAIN dev /\ Copied(World, mac)
  BY CopyFrom
<1>1. inbox[1] # Authenticate
  BY MsgsDiffer DEF Authenticate
<1>2. Strays(World) = {} /\ CInv(World, mac, inbox')
  BY <1>0, <1>1, TakenC
<1>3. dev'.sealed = t /\ dev'.state = dev.state /\ dev'.id = dev.id
  BY <1>0 DEF DevFields
<1>4. Based(World')
  BY ShapedBased DEF LInv, Rows
<1>5. Copies(World, World', mac)
  BY <1>3, <1>4, SealedCopies, WorldIs
<1>6. /\ \A b \in Certs : SameWord(World, World', b)
      /\ Assoc(World') = Assoc(World) /\ ~Newcomer(World')
  BY <1>0, SettledKnown, WorldIs DEF SameWord, Assoc, Newcomer
<1>7. CInv(World', mac, inbox')
  BY <1>0, <1>2, <1>3, <1>5, <1>6, SideC, WorldIs DEF CInv, Copies
<1>8. ASSUME Own(World, mac), ~Spared(World) PROVE t = dev.sealed
  <2>1. t # None /\ (t = Alien \/ t = dev.sealed)
    BY <1>0, <1>8, WorldIs DEF Copied, Own, None
  <2>2. ASSUME t = Alien PROVE FALSE
    <3>1. Mixed(World, mac) /\ ~World.alarm.recent
      BY <1>8, <2>2, WorldIs DEF Mixed, Spared
    <3>2. ~Returning(World, inbox)
      BY <1>8, <2>2, WorldIs DEF Spared, Returning, Underway
    <3>3. 1 \in 1 .. Len(inbox)
      BY <1>0
    <3>4. ~Over(World, inbox)
      BY <2>2, <3>3 DEF Over
    <3>5. QED BY <1>0, <1>2, <3>1, <3>2, <3>4 DEF CInv, Explained
  <2>3. QED BY <2>1, <2>2
<1>9. QED BY <1>3, <1>7, <1>8 DEF KeepsCopy

LEMMA HandleCopy ==
  ASSUME COInv, faults' = 0, mishaps' = 0, LInv(World', mac', inbox'), Handle
  PROVE  CInv(World', mac', inbox') /\ KeepsCopy
<1>1. ASSUME NEW topic \in CheckIns, UpsertUnjudged(topic)
      PROVE  CInv(World', mac', inbox') /\ KeepsCopy
  <2>1. {} \in Faults
    BY DEF Faults
  <2>2. QED BY <1>1, <2>1, UpsertsCopy
<1>2. ASSUME NEW topic \in CheckIns, NEW F \in Faults,
             UpsertRefused(topic, F) \/ UpsertBound(topic, F)
      PROVE  CInv(World', mac', inbox') /\ KeepsCopy
  BY <1>2, UpsertsCopy
<1>3. CASE SaveUpsert
  <2> DEFINE saved == [World EXCEPT !.dev.state = "enrolled"]
             sealed == Capture(saved, FALSE)
  <2>1. mishaps = 0 /\ faults = 0 /\ inbox' = inbox /\ mac' = mac
    BY <1>3 DEF SaveUpsert
  <2>2. UNCHANGED server \/ Become(saved) \/ Become(sealed)
    BY <1>3 DEF SaveUpsert
  <2>3. LInv(World, mac, inbox) /\ CInv(World, mac, inbox)
    BY <2>1, CopyFrom
  <2>4. /\ CInv(saved, mac, inbox) /\ LInv(saved, mac, inbox)
        /\ saved.dev.sealed = World.dev.sealed
    BY <2>3, SavedC
  <2> HIDE DEF saved
  <2>5. /\ CInv(sealed, mac, inbox)
        /\ Own(saved, mac) => sealed.dev.sealed = saved.dev.sealed
    BY <2>4, CaptureC
  <2>6. Own(World, mac) => sealed.dev.sealed = World.dev.sealed
    BY <2>4, <2>5 DEF Own
  <2> HIDE DEF sealed
  <2>7. CASE UNCHANGED server
    BY <2>1, <2>3, <2>7 DEF World, server, KeepsCopy
  <2>8. CASE Become(saved)
    <3>1. CInv(World', mac', inbox')
      BY <2>1, <2>4, <2>8, NextC
    <3>2. QED BY <2>4, <2>8, <3>1, WorldIs DEF KeepsCopy, Become
  <2>9. CASE Become(sealed)
    <3>1. CInv(World', mac', inbox')
      BY <2>1, <2>5, <2>9, NextC
    <3>2. QED BY <2>6, <2>9, <3>1, WorldIs DEF KeepsCopy, Become
  <2>10. QED BY <2>2, <2>7, <2>8, <2>9
<1>4. ASSUME NEW t \in 1 .. Alien, HandleSetToken(t)
      PROVE  CInv(World', mac', inbox') /\ KeepsCopy
  <2>1. /\ mishaps = 0 /\ faults = 0 /\ Len(inbox) > 0 /\ inbox' = RemoveAt(inbox, 1)
        /\ inbox[1] = Msg("SetToken", t) /\ mac' = mac
    BY <1>4, FirstArrives DEF HandleSetToken, COInv, LockInv
  <2>2. /\ UNCHANGED <<row, snapshot, nano, alarm>>
        /\ \/ dev' = dev
           \/ /\ Enrolled(World) /\ Settled(World) /\ nano.token = t
              /\ dev' = [dev EXCEPT !.sealed = t, !.escrowed = TRUE]
    BY <1>4 DEF HandleSetToken
  <2>3. CASE dev' = dev
    <3>1. World' = World
      BY <2>2, <2>3 DEF World
    <3>2. inbox[1] # Authenticate
      BY <2>1, MsgsDiffer DEF Authenticate
    <3>3. CInv(World, mac, inbox')
      BY <2>1, <3>2, CopyFrom, TakenC
    <3>4. QED BY <2>1, <2>3, <3>1, <3>3 DEF KeepsCopy
  <2>4. CASE /\ Enrolled(World) /\ Settled(World) /\ nano.token = t
             /\ dev' = [dev EXCEPT !.sealed = t, !.escrowed = TRUE]
    BY <2>1, <2>2, <2>4, TokenSealedC
  <2>5. QED BY <2>2, <2>3, <2>4
<1>5. CASE HandleCheckOut
  <2> DEFINE f == Fail(World, Certs, "failed")
             v == [f EXCEPT !.dev.state = "unenrolled", !.dev.sealed = None,
                            !.dev.escrowed = FALSE]
  <2>1. UNCHANGED server \/ Become(v)
    BY <1>5 DEF HandleCheckOut
  <2>2. /\ mishaps = 0 /\ faults = 0 /\ Len(inbox) > 0 /\ inbox' = RemoveAt(inbox, 1)
        /\ inbox[1] = Out /\ mac' = mac
    BY <1>5, FirstArrives DEF HandleCheckOut, COInv, LockInv, Out
  <2>3. CInv(World, mac, inbox') /\ CInv(v, mac, inbox') /\ ~Own(World, mac)
    <3>1. LInv(World, mac, inbox) /\ CInv(World, mac, inbox)
      BY <2>2, CopyFrom
    <3>2. QED BY <2>2, <3>1, CheckedOutC
  <2> HIDE DEF v
  <2>4. CASE UNCHANGED server
    BY <2>2, <2>3, <2>4 DEF World, server, KeepsCopy
  <2>5. CASE Become(v)
    BY <2>2, <2>3, <2>5, NextC DEF KeepsCopy
  <2>6. QED BY <2>1, <2>4, <2>5
<1>6. ASSUME NEW c \in Certs, NEW x \in Answers(c), Arrives(x), NEW v,
             mac' = mac, faults = 0,
             Become(IF ~Answerable(c) THEN World ELSE v),
             /\ Len(inbox) > 0 /\ inbox[1] = x /\ Open(World, c)
             => CInv(v, mac, RemoveAt(inbox, 1)) /\ v.dev.sealed = World.dev.sealed
      PROVE  CInv(World', mac', inbox') /\ KeepsCopy
  <2>1. /\ mishaps = 0 /\ Len(inbox) > 0 /\ inbox' = RemoveAt(inbox, 1) /\ inbox[1] = x
    BY <1>6, FirstArrives DEF COInv, LockInv
  <2>2. /\ CInv(World, mac, inbox) /\ Rows(World) /\ inbox \in Seq(Msgs)
    BY <1>6, <2>1, CopyFrom
  <2>3. CASE ~Answerable(c)
    <3>1. Become(World)
      BY <1>6, <2>3
    <3>2. inbox[1] # Authenticate
      BY <2>1, MsgsDiffer DEF Answers, Authenticate
    <3>3. CInv(World, mac, inbox')
      BY <2>1, <2>2, <3>2, TakenC
    <3>4. CInv(World', mac', inbox')
      BY <1>6, <3>1, <3>3, NextC
    <3>5. QED BY <3>1, <3>4, WorldIs DEF KeepsCopy, Become
  <2>4. CASE Answerable(c)
    <3>1. Open(World, c)
      BY <2>2, <2>4, WorldIs DEF Rows, Tasks, Answerable, Open
    <3>2. Become(v) /\ CInv(v, mac, inbox') /\ v.dev.sealed = World.dev.sealed
      BY <1>6, <2>1, <2>4, <3>1
    <3>3. CInv(World', mac', inbox')
      BY <1>6, <3>2, NextC
    <3>4. QED BY <3>2, <3>3, WorldIs DEF KeepsCopy, Become
  <2>5. QED BY <2>3, <2>4
<1>7. ASSUME NEW c \in Certs, NEW F \in Faults, HandleAcknowledged(c, F)
      PROVE  CInv(World', mac', inbox') /\ KeepsCopy
  <2> DEFINE x == Msg("Acknowledged", c)
             done == [World EXCEPT !.row[c].task = "done"]
             v == IF row[c].bound = 0 THEN done ELSE Finish(done, c, {})
  <2>1. F = {} /\ faults = 0
    BY <1>7, NoFaults DEF HandleAcknowledged, COInv
  <2>2. /\ Arrives(x) /\ mac' = mac
        /\ Become(IF ~Answerable(c) THEN World ELSE v)
    BY <1>7, <2>1 DEF HandleAcknowledged
  <2>3. LInv(World, mac, inbox) /\ CInv(World, mac, inbox)
    BY <2>1, <2>2, FirstArrives, CopyFrom DEF COInv, LockInv
  <2>4. ASSUME Len(inbox) > 0, inbox[1] = x, Open(World, c)
        PROVE  CInv(v, mac, RemoveAt(inbox, 1)) /\ v.dev.sealed = World.dev.sealed
    <3>1. row[c].bound = World.row[c].bound
      BY WorldIs
    <3>2. QED BY <2>3, <2>4, <3>1, AcknowledgedC
  <2>5. x \in Answers(c)
    BY DEF Answers
  <2> HIDE DEF v, x
  <2>6. QED BY <1>6, <2>1, <2>2, <2>4, <2>5
<1>8. ASSUME NEW c \in Certs, NEW F \in Faults, HandleError(c, F)
      PROVE  CInv(World', mac', inbox') /\ KeepsCopy
  <2> DEFINE x == Msg("Error", c)
             v == RollBack([World EXCEPT !.row[c].task = "failed"], c, {})
  <2>1. F = {} /\ faults = 0
    BY <1>8, NoFaults DEF HandleError, COInv
  <2>2. /\ Arrives(x) /\ mac' = mac
        /\ Become(IF ~Answerable(c) THEN World ELSE v)
    BY <1>8, <2>1 DEF HandleError
  <2>3. LInv(World, mac, inbox) /\ CInv(World, mac, inbox)
    BY <2>1, <2>2, FirstArrives, CopyFrom DEF COInv, LockInv
  <2>4. ASSUME Len(inbox) > 0, inbox[1] = x, Open(World, c)
        PROVE  CInv(v, mac, RemoveAt(inbox, 1)) /\ v.dev.sealed = World.dev.sealed
    BY <2>3, <2>4, RolledBackC
  <2>5. x \in Answers(c)
    BY DEF Answers
  <2> HIDE DEF v, x
  <2>6. QED BY <1>6, <2>1, <2>2, <2>4, <2>5
<1>9. QED BY <1>1, <1>2, <1>3, <1>4, <1>5, <1>7, <1>8 DEF Handle

LEMMA MinuteCopy ==
  ASSUME COInv, faults' = 0, mishaps' = 0, LInv(World', mac', inbox'), Minute
  PROVE  CInv(World', mac', inbox') /\ KeepsCopy
<1>1. mishaps = 0 /\ inbox' = inbox /\ mac' = mac
  BY DEF Minute, Reconcile, RetryRefusalRestore, RetryBootstrapRestore, CaptureToken
<1>2. ASSUME faults = 0
      PROVE  /\ LInv(World, mac, inbox) /\ CInv(World, mac, inbox) /\ nano.id \in Certs
             /\ World.nano.id = nano.id /\ Based(World) /\ Ranked(World)
             /\ Fields(World) /\ Nanoed(World)
  BY <1>1, <1>2, CopyFrom
<1>3. ASSUME NEW v, faults = 0, Become(v), CInv(v, mac, inbox),
             Own(World, mac) => v.dev.sealed = World.dev.sealed
      PROVE  CInv(World', mac', inbox') /\ KeepsCopy
  <2>1. CInv(World', mac', inbox')
    BY <1>1, <1>3, NextC
  <2>2. QED BY <1>3, <2>1, WorldIs DEF KeepsCopy, Become
<1>4. ASSUME NEW F \in Faults, Reconcile(F) PROVE CInv(World', mac', inbox') /\ KeepsCopy
  <2> DEFINE c == nano.id
             a == Accept(World, c, "none", {})
             r == Refuse(World, c, {})
  <2>1. F = {} /\ faults = 0
    BY <1>4, NoFaults DEF Reconcile, COInv
  <2>2. IF Stands(World, c) /\ ~Takeover(World, c) THEN Become(a) ELSE Become(r)
    BY <1>4, <2>1 DEF Reconcile
  <2>3. CInv(r, mac, inbox) /\ r.dev.sealed = World.dev.sealed
    BY <1>2, <2>1, RefusedC
  <2>4. Stands(World, c) => /\ CInv(a, mac, inbox)
                            /\ Own(World, mac) => a.dev.sealed = World.dev.sealed
    BY <1>2, <2>1, AcceptedC
  <2> HIDE DEF a, r
  <2>5. QED BY <1>3, <2>1, <2>2, <2>3, <2>4
<1>5. CASE RetryRefusalRestore
  <2>1. faults = 0 /\ alarm.redo # None
    BY <1>5 DEF RetryRefusalRestore
  <2>2. QED BY <1>2, <2>1, WorldIs DEF CInv
<1>6. CASE RetryBootstrapRestore
  <2> DEFINE v == WriteToken(World)
  <2>1. faults = 0 /\ Become(v) /\ World.dev.sealed # None
    BY <1>6, WorldIs DEF RetryBootstrapRestore
  <2>2. /\ Copies(World, v, mac) /\ Aside(World, v) /\ v.alarm = World.alarm
        /\ v.dev.sealed = World.dev.sealed
    BY <1>2, <2>1, WriteTokenCopies, TokensAside, WriteTokenTok
  <2> HIDE DEF v
  <2>3. /\ \A b \in Certs : SameWord(World, v, b)
        /\ v.snapshot = World.snapshot /\ v.dev.id = World.dev.id
        /\ v.nano.id = World.nano.id /\ Assoc(v) = Assoc(World)
        /\ (Newcomer(v) <=> Newcomer(World)) /\ (Own(v, mac) <=> Own(World, mac))
    BY <2>2 DEF Aside, SameWord, Assoc, Newcomer, Own
  <2>4. CInv(v, mac, inbox)
    BY <1>2, <2>1, <2>2, <2>3, SideC DEF CInv, Copies
  <2>5. QED BY <1>3, <2>1, <2>2, <2>4
<1>7. CASE CaptureToken
  <2> DEFINE v == Capture(World, FALSE)
  <2>1. faults = 0 /\ Become(v)
    BY <1>7 DEF CaptureToken
  <2>2. CInv(v, mac, inbox) /\ (Own(World, mac) => v.dev.sealed = World.dev.sealed)
    BY <1>2, <2>1, CaptureC
  <2> HIDE DEF v
  <2>3. QED BY <1>3, <2>1, <2>2
<1>8. QED BY <1>4, <1>5, <1>6, <1>7 DEF Minute

(* A renewal is sent: what is sealed for it is the device's own.            *)
LEMMA RenewedC ==
  ASSUME COInv, mishaps = 0, faults = 0, NEW c \in Certs, Renew(c)
  PROVE  CInv(World', mac', inbox') /\ KeepsCopy
<1> DEFINE k == CopyKept(World)
           r == [FreeRow EXCEPT !.kind = "renewal", !.live = TRUE, !.task = "open",
                                !.pem = nano.id]
           v == [k EXCEPT !.row[c] = r]
<1>0. /\ LInv(World, mac, inbox) /\ CInv(World, mac, inbox) /\ Fields(World)
      /\ Rows(World) /\ Identified(World) /\ Recorded(World) /\ DOMAIN row = Certs
      /\ Copied(World, mac)
  BY CopyFrom
<1>1. /\ inbox' = inbox /\ mac' = mac /\ row[c].kind = "free" /\ Become(v)
      /\ Enrolled(World) /\ \A b \in Certs : ~Open(World, b)
      /\ Assoc(World) = {nano.id} /\ MayCopy(World)
  BY DEF Renew, NextCert
<1>2. /\ Fields(k) /\ k.row = row /\ k.nano = nano /\ k.snapshot = snapshot
      /\ k.alarm = alarm /\ k.dev.state = dev.state
      /\ \/ k.dev.sealed = dev.sealed
         \/ dev.sealed = None /\ k.dev.sealed = nano.token /\ Settled(World)
  <2>1. CASE ~dev.escrowed \/ dev.sealed # None
    BY <1>0, <2>1, WorldIs DEF CopyKept
  <2>2. CASE ~(~dev.escrowed \/ dev.sealed # None) /\ nano.token = None
    <3>1. k = [World EXCEPT !.dev.escrowed = FALSE]
      BY <2>2, WorldIs DEF CopyKept
    <3>2. QED BY <1>0, <3>1, WorldIs DEF Fields, DevFields
  <2>3. CASE ~(~dev.escrowed \/ dev.sealed # None) /\ nano.token # None
    <3>1. k = [World EXCEPT !.dev.sealed = nano.token]
      BY <2>3, WorldIs DEF CopyKept
    <3>2. Settled(World)
      BY <1>1, <2>3, WorldIs DEF MayCopy
    <3>3. QED BY <1>0, <2>3, <3>1, <3>2, WorldIs DEF Fields, DevFields
  <2>4. QED BY <2>1, <2>2, <2>3
<1> HIDE DEF k
<1>3. /\ v.row = [row EXCEPT ![c] = r] /\ v.dev = k.dev /\ v.nano = nano
      /\ v.snapshot = snapshot /\ v.alarm = alarm
  BY <1>2 DEF Fields
<1>4. r.kind = "renewal" /\ r.bound = 0
  BY DEF FreeRow
<1> HIDE DEF r, v
<1>5. /\ row' = v.row /\ dev' = k.dev /\ nano' = nano /\ snapshot' = snapshot /\ alarm' = alarm
      /\ row'[c] = r /\ \A b \in Certs \ {c} : row'[b] = row[b]
  BY <1>0, <1>1, <1>3 DEF Become
<1>6. nano.id # c /\ nano.id \in Certs
  BY <1>0, <1>1, WorldIs DEF Recorded
<1>7. /\ Assoc(World') = Assoc(World) /\ Strays(World') = Strays(World)
      /\ (Newcomer(World') <=> Newcomer(World)) /\ StraysUnbound(World')
  BY <1>0, <1>1, <1>4, <1>5, <1>6, WorldIs
     DEF Assoc, Strays, Newcomer, StraysUnbound, CInv
<1>8. /\ Copied(World', mac) /\ (Mixed(World', mac) => Mixed(World, mac))
  <2>1. mac.token # Alien
    BY <1>0, BoundsAssumption DEF Copied, Alien
  <2>2. CASE k.dev.sealed = dev.sealed
    BY <1>0, <1>2, <1>5, <2>2, WorldIs DEF Copied, Mixed, Own, Enrolled
  <2>3. CASE dev.sealed = None /\ k.dev.sealed = nano.token
    <3>1. /\ World'.dev.sealed = World.nano.token /\ World'.nano = World.nano
          /\ World'.dev.state = "enrolled"
      BY <1>1, <1>2, <1>5, <2>3, WorldIs DEF Enrolled
    <3>2. Copied(World', mac)
      BY <1>0, <3>1 DEF Copied, Own, Enrolled
    <3>3. QED BY <2>1, <3>1, <3>2 DEF Mixed, Own
  <2>4. QED BY <1>2, <2>2, <2>3
<1>9. Newcomer(World') => ~Own(World', mac)
  <2>1. Settled(World) => ~Newcomer(World)
    BY <1>0, SettledKnown
  <2>2. QED BY <1>0, <1>2, <1>5, <1>7, <2>1, WorldIs DEF CInv, Own
<1>10. Announced(World', inbox)
  <2>1. Strays(World) # {} => nano.id \in Strays(World)
    BY <1>1 DEF Strays
  <2>2. QED BY <1>0, <1>5, <1>7, <2>1, WorldIs DEF CInv, Announced
<1>11. Explained(World', mac, inbox)
  <2>1. ~Returning(World, inbox)
    BY <1>1 DEF Returning, Underway
  <2>2. Over(World, inbox) => Over(World', inbox)
    BY <1>7 DEF Over
  <2>3. QED BY <1>0, <1>5, <1>7, <1>8, <2>1, <2>2, WorldIs DEF CInv, Explained
<1>12. CInv(World', mac', inbox')
  BY <1>0, <1>1, <1>5, <1>7, <1>8, <1>9, <1>10, <1>11, WorldIs DEF CInv
<1>13. KeepsCopy
  BY <1>2, <1>5, WorldIs DEF KeepsCopy, Own
<1>14. QED BY <1>12, <1>13

LEMMA IssueCopy ==
  ASSUME COInv, faults' = 0, mishaps' = 0, LInv(World', mac', inbox'), Issue
  PROVE  CInv(World', mac', inbox') /\ KeepsCopy
<1>0. ASSUME mishaps' = mishaps, faults' = faults
      PROVE  /\ CInv(World, mac, inbox) /\ Ranked(World) /\ World.nano.id \in Certs
             /\ DevFields \subseteq DOMAIN dev /\ NanoFields \subseteq DOMAIN nano
             /\ DOMAIN nano.assoc = Certs /\ mishaps = 0 /\ faults = 0 /\ Copied(World, mac)
  <2>1. mishaps = 0 /\ faults = 0
    BY <1>0
  <2>2. QED BY <2>1, CopyFrom
<1>1. ASSUME NEW c \in Certs, Renew(c) PROVE CInv(World', mac', inbox') /\ KeepsCopy
  <2>1. mishaps = 0 /\ faults = 0
    BY <1>1 DEF Renew
  <2>2. QED BY <1>1, <2>1, RenewedC
<1>2. ASSUME NEW c \in Certs, NEW how, EndTask(c, how) PROVE FALSE
  BY <1>2 DEF EndTask, Mishap, COInv, LockInv
<1>3. CASE Allow
  <2>1. /\ UNCHANGED <<row, snapshot, nano, alarm, inbox, mac, mishaps, faults>>
        /\ dev' = [dev EXCEPT !.allowance = TRUE]
    BY <1>3 DEF Allow
  <2>2. dev'.sealed = dev.sealed /\ dev'.id = dev.id /\ dev'.state = dev.state
    BY <1>0, <2>1 DEF DevFields
  <2>3. /\ Copied(World', mac) /\ (Mixed(World', mac) => Mixed(World, mac))
        /\ \A b \in Certs : SameWord(World, World', b)
        /\ Assoc(World') = Assoc(World)
        /\ (Newcomer(World') <=> Newcomer(World)) /\ (Own(World', mac) <=> Own(World, mac))
    BY <1>0, <2>1, <2>2, WorldIs DEF Copied, Mixed, Own, Enrolled, SameWord, Assoc, Newcomer
  <2>4. CInv(World', mac, inbox)
    BY <1>0, <2>1, <2>2, <2>3, SideC, WorldIs DEF CInv
  <2>5. QED BY <2>1, <2>2, <2>4 DEF KeepsCopy
<1>4. CASE AgeAssociations
  <2> DEFINE assoc == [c \in Certs |-> IF nano.assoc[c] = "young" THEN "aged"
                                       ELSE nano.assoc[c]]
  <2>1. /\ UNCHANGED <<row, dev, snapshot, alarm, inbox, mac, mishaps, faults>>
        /\ nano' = [nano EXCEPT !.assoc = assoc]
    BY <1>4 DEF AgeAssociations
  <2>2. /\ \A b \in Certs : assoc[b] \in Held <=> nano.assoc[b] \in Held
        /\ IsFun(assoc)
    BY DEF Held, IsFun
  <2> HIDE DEF assoc
  <2>3. /\ nano'.id = nano.id /\ nano'.token = nano.token /\ nano'.assoc = assoc
    BY <1>0, <2>1 DEF NanoFields
  <2>4. IsFun(nano')
    BY <2>1, FunKept
  <2>5. /\ Copied(World', mac) /\ (Mixed(World', mac) => Mixed(World, mac))
        /\ \A b \in Certs : SameWord(World, World', b)
        /\ Assoc(World') = Assoc(World)
        /\ (Newcomer(World') <=> Newcomer(World)) /\ (Own(World', mac) <=> Own(World, mac))
    BY <1>0, <2>1, <2>2, <2>3, <2>4, WorldIs
       DEF Copied, Mixed, Own, Enrolled, SameWord, Assoc, Newcomer
  <2>6. CInv(World', mac, inbox)
    BY <1>0, <2>1, <2>3, <2>5, SideC, WorldIs DEF CInv
  <2>7. QED BY <2>1, <2>6 DEF KeepsCopy
<1>5. CASE RefusalLapses
  <2>1. /\ UNCHANGED <<row, dev, snapshot, nano, inbox, mac, mishaps, faults>>
        /\ alarm' = [alarm EXCEPT !.recent = FALSE] /\ inbox = <<>>
    BY <1>5 DEF RefusalLapses, Quiet
  <2>2. {"recent", "redo"} \subseteq DOMAIN alarm' /\ alarm'.redo = None
    BY <1>0, <2>1, WorldIs DEF CInv
  <2>3. /\ Copied(World', mac) /\ Strays(World') = Strays(World)
        /\ (Newcomer(World') <=> Newcomer(World)) /\ (Own(World', mac) <=> Own(World, mac))
        /\ StraysUnbound(World')
    BY <1>0, <2>1, WorldIs
       DEF CInv, Copied, Own, Enrolled, Strays, Assoc, Newcomer, StraysUnbound
  <2>4. Strays(World) = {}
    BY <1>0, <2>1 DEF CInv, Announced
  <2>5. Over(World', inbox) /\ Announced(World', inbox)
    BY <2>1, <2>3, <2>4 DEF Over, Announced
  <2>6. CInv(World', mac, inbox)
    BY <1>0, <2>1, <2>2, <2>3, <2>5, WorldIs DEF CInv, Explained
  <2>7. QED BY <2>1, <2>6 DEF KeepsCopy
<1>6. QED BY <1>1, <1>2, <1>3, <1>4, <1>5 DEF Issue

(* The Mac's own state moves on; its token stays, or is gone.               *)
LEMMA MacC ==
  ASSUME NEW w, NEW m, NEW n, NEW q, CInv(w, m, q), Ranked(w), w.nano.id \in Certs,
         n.tokens = m.tokens, n.token \in {m.token, None},
         n.using = None => n.token = None
  PROVE  CInv(w, n, q)
<1>1. Own(w, n) => Own(w, m)
  BY DEF Own
<1>2. Copied(w, n)
  <2>1. n.token \in 0 .. n.tokens /\ (Own(w, n) => n.token = m.token)
    BY <1>1, BoundsAssumption DEF CInv, Copied, None, Own
  <2>2. QED BY <1>1, <2>1 DEF CInv, Copied
<1>3. \A b \in Certs : SameWord(w, w, b)
  BY DEF SameWord
<1>4. QED BY <1>1, <1>2, <1>3, SideC DEF CInv, Mixed

LEMMA SentsC ==
  ASSUME NEW n, NEW q \in Seq(Msgs), CInv(World, n, q), UNCHANGED server, NEW x \in Msgs,
         x.topic \in {"TokenUpdate", "CheckOut", "Acknowledged", "Error"}
  PROVE  CInv(World', n, Append(q, x)) /\ KeepsCopy
<1>1. x # Authenticate /\ x # Msg("SetToken", Alien)
  BY MsgsDiffer DEF Authenticate
<1>2. World' = World /\ dev' = dev
  BY DEF World, server
<1>3. QED BY <1>1, <1>2, SentC DEF KeepsCopy

LEMMA AuthenticatedFun ==
  ASSUME NEW c \in Certs, NanoFields \subseteq DOMAIN nano, DOMAIN nano.assoc = Certs,
         IsFun(nano.assoc)
  PROVE  IsFun(Authenticated(c)) /\ IsFun(Authenticated(c).assoc)
<1> DEFINE a == [nano.assoc EXCEPT ![c] = IF @ \in Held THEN @ ELSE "young"]
           n1 == [nano EXCEPT !.id = c]
           n2 == [n1 EXCEPT !.token = None]
           n3 == [n2 EXCEPT !.stamped = FALSE]
<1>1. DOMAIN n3 = DOMAIN nano /\ n3.assoc = nano.assoc
  BY DEF NanoFields
<1>2. Authenticated(c) = [n3 EXCEPT !.assoc = a]
  BY <1>1 DEF Authenticated
<1>3. IsFun(a)
  BY FunKept
<1> HIDE DEF n3, a
<1>4. IsFun(Authenticated(c))
  BY <1>2, FunKept
<1>5. Authenticated(c).assoc = a
  BY <1>1, <1>2 DEF NanoFields
<1>6. QED BY <1>3, <1>4, <1>5

(* NanoMDM records an Authenticate: there is no token to mix up.            *)
LEMMA RecordedC ==
  ASSUME NEW m, CInv(World, m, inbox), NEW n, NEW c \in Certs,
         NanoFields \subseteq DOMAIN nano, DOMAIN nano.assoc = Certs,
         nano' = Authenticated(c), dev'.sealed = dev.sealed, dev'.state = dev.state,
         alarm' = alarm, n.tokens = m.tokens, n.token \in {m.token, None},
         n.using = None => n.token = None,
         \A b \in Certs \ {c} : /\ row'[b].kind = row[b].kind
                                /\ row'[b].bound = row[b].bound,
         row'[c].kind \in {"manual", "ade", "rts", "stray"} => row'[c].bound = 0,
         row'[c].kind \in {"manual", "ade", "rts"} => n.token = None
  PROVE  /\ Copied(World', n) /\ ~Mixed(World', n) /\ StraysUnbound(World')
         /\ Newcomer(World') => ~Own(World', n)
         /\ Strays(World') = (Strays(World) \ {c}) \cup
                               {b \in {c} : row'[b].kind = "stray"}
         /\ nano'.id = c
<1>1. /\ nano'.id = c /\ nano'.assoc[c] \in Held /\ nano'.token = None
      /\ \A b \in Certs \ {c} : nano'.assoc[b] = nano.assoc[b]
      /\ IsFun(nano') /\ IsFun(nano'.assoc)
  <2>1. IsFun(nano.assoc)
    BY WorldIs DEF CInv, Copied
  <2>2. IsFun(Authenticated(c)) /\ IsFun(Authenticated(c).assoc)
    BY <2>1, AuthenticatedFun
  <2>3. Authenticated(c).token = None
    BY AuthenticatedToken
  <2>4. QED BY <2>2, <2>3, AuthenticatedIs
<1>2. None # Alien /\ None \in 0 .. n.tokens
  BY BoundsAssumption DEF None, Alien, CInv, Copied
<1>3. Copied(World', n) /\ ~Mixed(World', n)
  BY <1>1, <1>2, WorldIs DEF CInv, Copied, Mixed, Own, Enrolled
<1>4. StraysUnbound(World')
  BY WorldIs DEF CInv, StraysUnbound
<1>5. Newcomer(World') => ~Own(World', n)
  BY <1>1, WorldIs DEF Newcomer, Own
<1>6. Strays(World') = (Strays(World) \ {c}) \cup {b \in {c} : row'[b].kind = "stray"}
  BY <1>1, WorldIs DEF Strays, Assoc
<1>7. QED BY <1>1, <1>3, <1>4, <1>5, <1>6

LEMMA OutsideCopy ==
  ASSUME COInv, faults' = 0, mishaps' = 0, LInv(World', mac', inbox'), Outside
  PROVE  CInv(World', mac', inbox') /\ KeepsCopy
<1>0. ASSUME mishaps' = mishaps, faults' = faults
      PROVE  /\ LInv(World, mac, inbox) /\ CInv(World, mac, inbox) /\ Ranked(World)
             /\ World.nano.id \in Certs /\ World.nano.id = nano.id /\ Copied(World, mac)
             /\ DevFields \subseteq DOMAIN dev /\ NanoFields \subseteq DOMAIN nano
             /\ DOMAIN nano.assoc = Certs /\ DOMAIN row = Certs
             /\ \A c \in Certs : RowFields \subseteq DOMAIN row[c]
             /\ MacFields \subseteq DOMAIN mac /\ inbox \in Seq(Msgs)
             /\ Asked(World, mac, inbox) /\ Rows(World)
  <2>1. mishaps = 0 /\ faults = 0
    BY <1>0
  <2>2. QED BY <2>1, CopyFrom
<1>1. ASSUME NEW c \in Certs, MacRenews(c) PROVE CInv(World', mac', inbox') /\ KeepsCopy
  <2>1. /\ row' = [row EXCEPT ![c].used = TRUE] /\ mac' = [mac EXCEPT !.trying = c]
        /\ UNCHANGED <<dev, snapshot, nano, alarm, inbox, faults, mishaps>>
    BY <1>1 DEF MacRenews
  <2>2. mac'.token = mac.token /\ mac'.tokens = mac.tokens /\ mac'.using = mac.using
    BY <1>0, <2>1 DEF MacFields
  <2>3. \A b \in Certs : SameWord(World, World', b)
    BY <1>0, <2>1, WorldIs DEF SameWord, RowFields
  <2>4. /\ Copied(World', mac') /\ (Mixed(World', mac') => Mixed(World, mac))
        /\ Assoc(World') = Assoc(World)
        /\ (Newcomer(World') <=> Newcomer(World)) /\ (Own(World', mac') <=> Own(World, mac))
    BY <1>0, <2>1, <2>2, <2>3, WorldIs
       DEF Copied, Mixed, Own, Enrolled, SameWord, Assoc, Newcomer
  <2>5. CInv(World', mac', inbox)
    <3>1. /\ {"recent", "redo"} \subseteq DOMAIN World'.alarm /\ World'.alarm.redo = None
          /\ World'.alarm = World.alarm
          /\ World'.snapshot = World.snapshot /\ World'.dev.id = World.dev.id
          /\ World'.nano.id = World.nano.id
      BY <1>0, <2>1, WorldIs DEF CInv
    <3>2. mac'.using = None => mac'.token = None
      BY <1>0, <2>1, <2>2 DEF CInv
    <3>3. Newcomer(World') => ~Own(World', mac')
      BY <1>0, <2>1, <2>4 DEF CInv
    <3>4. QED BY <1>0, <2>1, <2>3, <2>4, <3>1, <3>2, <3>3, SideC
  <2>6. QED BY <2>1, <2>5 DEF KeepsCopy
<1>2. ASSUME NEW x \in Msgs, UNCHANGED <<server, faults, mishaps>>,
             inbox' = Append(inbox, x),
             x.topic \in {"TokenUpdate", "CheckOut", "Acknowledged", "Error"},
             mac'.tokens = mac.tokens, mac'.token \in {mac.token, None},
             mac'.using = None => mac'.token = None
      PROVE  CInv(World', mac', inbox') /\ KeepsCopy
  <2>1. CInv(World, mac', inbox)
    BY <1>0, <1>2, MacC
  <2>2. UNCHANGED server
    BY <1>2
  <2>3. QED BY <1>0, <1>2, <2>1, <2>2, SentsC
<1>3. ASSUME NEW c \in Certs, MacFails(c) \/ MacAcknowledges(c)
      PROVE  CInv(World', mac', inbox') /\ KeepsCopy
  <2>1. PICK x \in {Msg("Error", c), Msg("Acknowledged", c)} : inbox' = Append(inbox, x)
    BY <1>3 DEF MacFails, MacAcknowledges, Send
  <2>2. UNCHANGED <<server, faults, mishaps>>
    BY <1>3 DEF MacFails, MacAcknowledges
  <2>3. mac'.tokens = mac.tokens /\ mac'.token = mac.token /\ mac'.using = mac.using
    BY <1>0, <1>3, <2>2 DEF MacFails, MacAcknowledges, MacFields
  <2>4. x \in Msgs /\ x.topic \in {"Acknowledged", "Error"}
    BY MsgsAre, MsgsDiffer
  <2>5. mac'.using = None => mac'.token = None
    BY <1>0, <2>2, <2>3 DEF CInv
  <2>6. QED BY <1>2, <2>1, <2>2, <2>3, <2>4, <2>5
<1>4. CASE MacConfirms \/ MacTokenUpdate
  <2>1. /\ inbox' = Append(inbox, Msg("TokenUpdate", 0))
        /\ UNCHANGED <<server, faults, mishaps>>
    BY <1>4 DEF MacConfirms, MacTokenUpdate, Send
  <2>2. /\ mac'.tokens = mac.tokens /\ mac'.token = mac.token
        /\ mac'.using = mac.using \/ mac'.using # None
    BY <1>0, <1>4, <2>1 DEF MacConfirms, MacTokenUpdate, MacFields
  <2>3. mac'.using = None => mac'.token = None
    BY <1>0, <2>1, <2>2 DEF CInv
  <2>4. Msg("TokenUpdate", 0) \in Msgs /\ Msg("TokenUpdate", 0).topic = "TokenUpdate"
    BY MsgsAre, MsgsDiffer DEF CheckIns
  <2>5. QED BY <1>2, <2>1, <2>2, <2>3, <2>4
<1>5. CASE MacChecksOut
  <2>1. inbox' = Append(inbox, Msg("CheckOut", 0)) /\ UNCHANGED <<server, faults, mishaps>>
    BY <1>5 DEF MacChecksOut, Send
  <2>2. mac'.tokens = mac.tokens /\ mac'.token = None
    BY <1>0, <1>5, <2>1 DEF MacChecksOut, MacFields
  <2>3. Msg("CheckOut", 0) \in Msgs /\ Msg("CheckOut", 0).topic = "CheckOut"
    BY MsgsAre, MsgsDiffer
  <2>4. QED BY <1>2, <2>1, <2>2, <2>3
<1>6. ASSUME NEW c \in Certs, OtherAuthenticates(c)
      PROVE  CInv(World', mac', inbox') /\ KeepsCopy
  <2>1. /\ row[c].kind = "free" /\ inbox = <<>> /\ nano' = Authenticated(c)
        /\ row' = [row EXCEPT ![c].kind = "stray"]
        /\ inbox' = Append(inbox, Authenticate)
        /\ UNCHANGED <<dev, snapshot, alarm, mac, faults, mishaps>>
    BY <1>6 DEF OtherAuthenticates, NextCert, Quiet, Send, Authenticate
  <2>2. /\ row'[c].kind = "stray" /\ row'[c].bound = row[c].bound
        /\ \A b \in Certs \ {c} : row'[b] = row[b]
    BY <1>0, <2>1 DEF RowFields
  <2>3. row[c].bound = 0
    BY <1>0, <2>1, WorldIs DEF Rows, Tasks
  <2>4. /\ Copied(World', mac) /\ ~Mixed(World', mac) /\ StraysUnbound(World')
        /\ Newcomer(World') => ~Own(World', mac)
        /\ c \in Strays(World') /\ nano'.id = c
    <3>1. mac.using = None => mac.token = None
      BY <1>0, <2>1 DEF CInv
    <3>2. QED BY <1>0, <2>1, <2>2, <2>3, <3>1, RecordedC
  <2>5. Len(inbox') > 0 /\ inbox'[1] = Authenticate
    BY <2>1
  <2>6. Announced(World', inbox') /\ Explained(World', mac, inbox')
    BY <2>4, <2>5, WorldIs DEF Announced, Explained
  <2>7. QED BY <1>0, <2>1, <2>4, <2>6, WorldIs DEF CInv, KeepsCopy
<1>7. ASSUME NEW c \in Certs, OtherSetsToken(c)
      PROVE  CInv(World', mac', inbox') /\ KeepsCopy
  <2> DEFINE x == Msg("SetToken", Alien)
  <2>1. /\ row[c].kind = "stray" /\ c \in Assoc(World) /\ inbox' = Append(inbox, x)
        /\ nano' = [nano EXCEPT !.token = Alien, !.stamped = TRUE]
        /\ UNCHANGED <<row, dev, snapshot, alarm, mac, faults, mishaps>>
    BY <1>7 DEF OtherSetsToken, Send
  <2>2. nano'.token = Alien /\ nano'.id = nano.id /\ nano'.assoc = nano.assoc
    BY <1>0, <2>1 DEF NanoFields
  <2>3. IsFun(nano')
    <3> DEFINE n1 == [nano EXCEPT !.token = Alien]
    <3>1. nano' = [n1 EXCEPT !.stamped = TRUE]
      BY <2>1
    <3> HIDE DEF n1
    <3>2. QED BY <3>1, FunKept
  <2>4. c \in Strays(World) /\ Strays(World') = Strays(World)
    BY <2>1, <2>2, WorldIs DEF Strays, Assoc
  <2>5. /\ Len(inbox) > 0 /\ inbox[1] = Authenticate
        /\ nano.id \in Strays(World) \/ Late(World, inbox)
    BY <1>0, <2>1, <2>4 DEF CInv, Announced
  <2>6. Len(inbox') > 0 /\ inbox'[1] = Authenticate
    BY <1>0, <2>1, <2>5
  <2>7. Late(World, inbox) => Late(World', inbox')
    <3>1. x \in Msgs
      BY MsgsAre, BoundsAssumption DEF Alien
    <3>2. \A b : Pends(inbox, b, 2) => Pends(inbox', b, 2)
      BY <1>0, <2>1, <3>1, PendsSent
    <3>3. QED BY <2>1, <2>2, <3>2, WorldIs DEF Late, Underway, Open
  <2>8. Announced(World', inbox') /\ Explained(World', mac, inbox')
    BY <2>2, <2>4, <2>5, <2>6, <2>7, WorldIs DEF Announced, Explained
  <2>9. Copied(World', mac)
    BY <1>0, <2>1, <2>2, <2>3, WorldIs DEF Copied, Own, Enrolled
  <2>10. StraysUnbound(World') /\ (Newcomer(World') => ~Own(World', mac))
    BY <1>0, <2>1, <2>2, WorldIs DEF CInv, StraysUnbound, Newcomer, Own
  <2>11. QED BY <1>0, <2>1, <2>8, <2>9, <2>10, WorldIs DEF CInv, KeepsCopy
<1>8. ASSUME NEW c \in Certs, NEW kind \in LaterKinds, NEW erased \in BOOLEAN,
             MacEnrolls(c, kind, erased)
      PROVE  CInv(World', mac', inbox') /\ KeepsCopy
  <2> DEFINE r == [FreeRow EXCEPT !.kind = kind, !.used = TRUE]
  <2>1. /\ kind \in {"manual", "ade", "rts"} /\ inbox = <<>>
        /\ row' = [row EXCEPT ![c] = r] /\ dev' = [dev EXCEPT !.erased = @ \/ erased]
        /\ mac' = [mac EXCEPT !.using = c, !.trying = None, !.token = None,
                              !.answered = Issued]
        /\ nano' = Authenticated(c) /\ inbox' = Append(inbox, Authenticate)
        /\ UNCHANGED <<snapshot, alarm, faults, mishaps>>
    BY <1>8 DEF MacEnrolls, Quiet, Send, Authenticate
  <2>2. r.kind = kind /\ r.bound = 0
    BY DEF FreeRow
  <2> HIDE DEF r
  <2>3. row'[c] = r /\ \A b \in Certs \ {c} : row'[b] = row[b]
    BY <1>0, <2>1
  <2>4. mac'.token = None /\ mac'.tokens = mac.tokens
    BY <1>0, <2>1 DEF MacFields
  <2>5. dev'.sealed = dev.sealed /\ dev'.state = dev.state
    BY <1>0, <2>1 DEF DevFields
  <2>6. /\ Copied(World', mac') /\ ~Mixed(World', mac') /\ StraysUnbound(World')
        /\ Newcomer(World') => ~Own(World', mac')
        /\ Strays(World') \subseteq Strays(World)
    <3>1. /\ \A b \in Certs \ {c} : row'[b].kind = row[b].kind /\ row'[b].bound = row[b].bound
          /\ row'[c].kind = kind /\ row'[c].bound = 0
      BY <2>2, <2>3
    <3>2. mac'.token \in {mac.token, None}
      BY <2>4
    <3>3. /\ Copied(World', mac') /\ ~Mixed(World', mac') /\ StraysUnbound(World')
          /\ Newcomer(World') => ~Own(World', mac')
          /\ Strays(World') = (Strays(World) \ {c}) \cup
                               {b \in {c} : row'[b].kind = "stray"}
      <4>1. mishaps' = mishaps /\ faults' = faults
        BY <2>1
      <4>2. CInv(World, mac, inbox)
        BY <1>0, <4>1
      <4>3. /\ NanoFields \subseteq DOMAIN nano /\ DOMAIN nano.assoc = Certs
            /\ nano' = Authenticated(c) /\ alarm' = alarm
        BY <1>0, <2>1, <4>1
      <4>4. QED BY <2>4, <2>5, <3>1, <3>2, <4>2, <4>3, RecordedC
    <3>4. QED BY <2>1, <3>1, <3>3
  <2>7. Strays(World) = {}
    BY <1>0, <2>1 DEF CInv, Announced
  <2>8. Announced(World', inbox') /\ Explained(World', mac', inbox')
    BY <2>6, <2>7 DEF Announced, Explained
  <2>9. QED BY <1>0, <2>1, <2>4, <2>5, <2>6, <2>8, WorldIs DEF CInv, KeepsCopy
<1>9. CASE MacAuthenticates
  <2> DEFINE c == mac.trying
  <2>1. /\ c # None /\ nano' = Authenticated(c) /\ inbox' = Append(inbox, Authenticate)
        /\ UNCHANGED <<row, dev, snapshot, alarm, mac, faults, mishaps>>
    BY <1>9 DEF MacAuthenticates, Send, Authenticate
  <2>2. c \in Certs /\ row[c].kind = "renewal" /\ Open(World, c) /\ c \notin mac.answered
    BY <1>0, <2>1, WorldIs DEF Asked, Shape, Tries
  <2> HIDE DEF c
  <2>3. /\ Copied(World', mac) /\ ~Mixed(World', mac) /\ StraysUnbound(World')
        /\ Newcomer(World') => ~Own(World', mac)
        /\ Strays(World') \subseteq Strays(World) /\ nano'.id = c
    <3>1. mac.using = None => mac.token = None
      BY <1>0, <2>1 DEF CInv
    <3>2. QED BY <1>0, <2>1, <2>2, <3>1, RecordedC
  <2>4. ASSUME Strays(World) # {}
        PROVE  Len(inbox') > 0 /\ inbox'[1] = Authenticate /\ Late(World', inbox')
    <3>1. Len(inbox) > 0 /\ inbox[1] = Authenticate
      BY <1>0, <2>1, <2>4 DEF CInv, Announced
    <3>2. \A y \in Answers(c) : ~OnTheWay(inbox, y)
      BY <1>0, <2>1, <2>2 DEF Asked, Answered, Answers
    <3>3. Authenticate \in Msgs
      BY MsgsAre DEF Authenticate, CheckIns
    <3>4. Pends(inbox', c, 2)
      BY <1>0, <2>1, <3>1, <3>2, <3>3, PendsSent
    <3>5. Underway(World', c)
      BY <2>1, <2>2, WorldIs DEF Underway, Open
    <3>6. QED BY <1>0, <2>1, <2>3, <3>1, <3>4, <3>5, WorldIs DEF Late
  <2>5. Announced(World', inbox') /\ Explained(World', mac, inbox')
    BY <2>3, <2>4 DEF Announced, Explained
  <2>6. QED BY <1>0, <2>1, <2>3, <2>5, WorldIs DEF CInv, KeepsCopy
<1>10. CASE MacSetsToken
  <2> DEFINE t == mac.tokens + 1
             x == Msg("SetToken", t)
  <2>1. /\ mac.using \in Assoc(World) /\ mac.tokens < MaxTokens
        /\ mac' = [mac EXCEPT !.tokens = t, !.token = t]
        /\ nano' = [nano EXCEPT !.token = t, !.stamped = TRUE] /\ inbox' = Append(inbox, x)
        /\ UNCHANGED <<row, dev, snapshot, alarm, faults, mishaps>>
    BY <1>10 DEF MacSetsToken, Send
  <2>2. mac'.tokens = t /\ mac'.token = t /\ mac'.using = mac.using
    BY <1>0, <2>1 DEF MacFields
  <2>3. nano'.token = t /\ nano'.id = nano.id /\ nano'.assoc = nano.assoc
    BY <1>0, <2>1 DEF NanoFields
  <2>4. IsFun(nano')
    <3> DEFINE n1 == [nano EXCEPT !.token = t]
    <3>1. nano' = [n1 EXCEPT !.stamped = TRUE]
      BY <2>1
    <3> HIDE DEF n1
    <3>2. QED BY <3>1, FunKept
  <2>5. mac'.using # None
    BY <2>1, <2>2, CertsAssumption DEF Assoc, None
  <2>6. /\ t \in 1 .. MaxTokens /\ mac.tokens \in Nat
        /\ dev.sealed \in 0 .. t \cup {Alien} /\ dev.sealed # t /\ t # Alien
    BY <1>0, <2>1, BoundsAssumption, WorldIs DEF Copied, Alien
  <2>7. ~Own(World', mac') /\ Copied(World', mac')
    <3>1. ~Own(World', mac')
      BY <2>1, <2>2, <2>6, WorldIs DEF Own
    <3>2. /\ mac'.tokens \in 0 .. MaxTokens /\ mac'.token \in 0 .. mac'.tokens
          /\ nano'.token \in 0 .. mac'.tokens
      BY <2>2, <2>3, <2>6
    <3> HIDE DEF t
    <3>3. QED BY <1>0, <2>1, <2>2, <2>3, <2>4, <2>6, <3>1, <3>2, WorldIs
          DEF Copied, Enrolled
  <2> HIDE DEF t
  <2>8. CInv(World', mac', inbox)
    <3>1. Assoc(World') = Assoc(World) /\ \A b \in Certs : SameWord(World, World', b)
      BY <2>1, <2>3, WorldIs DEF Assoc, SameWord
    <3>2. /\ {"recent", "redo"} \subseteq DOMAIN World'.alarm /\ World'.alarm.redo = None
          /\ World'.alarm = World.alarm
          /\ World'.snapshot = World.snapshot /\ World'.dev.id = World.dev.id
          /\ World'.nano.id = World.nano.id
      BY <1>0, <2>1, <2>3, WorldIs DEF CInv
    <3>3. ~Mixed(World', mac')
      BY <2>7 DEF Mixed
    <3>4. QED BY <1>0, <2>1, <2>5, <2>7, <3>1, <3>2, <3>3, SideC
  <2>9. x \in Msgs /\ x # Authenticate /\ x # Msg("SetToken", Alien)
    BY <2>6, MsgsAre, MsgsDiffer DEF Authenticate
  <2> HIDE DEF x
  <2>10. CInv(World', mac', inbox')
    BY <1>0, <2>1, <2>8, <2>9, SentC
  <2>11. QED BY <2>1, <2>10 DEF KeepsCopy
<1>11. CASE LoseWebhook
  BY <1>11 DEF LoseWebhook, Mishap, COInv, LockInv
<1>12. QED BY <1>1, <1>3, <1>4, <1>5, <1>6, <1>7, <1>8, <1>9, <1>10, <1>11 DEF Outside

LEMMA InitCopy ==
  ASSUME Init PROVE COInv
<1>1. PICK kind \in FirstKinds, known \in BOOLEAN, t \in {None, MaxTokens} :
         /\ row = [c \in Certs |-> IF c # 1 THEN FreeRow
                                   ELSE [FreeRow EXCEPT !.kind = kind, !.used = kind # "legacy",
                                           !.bound = IF kind = "legacy" THEN 0 ELSE 1,
                                           !.holds = kind # "legacy"]]
         /\ dev = [state |-> "enrolled", id |-> IF known THEN 1 ELSE None,
                   pem |-> IF known THEN 1 ELSE None, sealed |-> None,
                   escrowed |-> t # None, erased |-> FALSE, allowance |-> FALSE]
         /\ nano = [id |-> 1, assoc |-> [c \in Certs |-> IF c = 1 THEN "aged" ELSE "no"],
                    token |-> t, stamped |-> t # None]
         /\ mac = [using |-> 1, trying |-> None, answered |-> {}, token |-> t,
                   tokens |-> t]
  BY DEF Init
<1>2. inbox = <<>> /\ faults = 0 /\ alarm = [recent |-> FALSE, redo |-> None]
  BY DEF Init
<1>3. t \in 0 .. MaxTokens /\ mac.using # None
  BY <1>1, BoundsAssumption DEF None
<1>4. /\ nano.token = t /\ mac.token = t /\ mac.tokens = t
      /\ IsFun(nano) /\ IsFun(nano.assoc)
  BY <1>1 DEF IsFun
<1>5. Copied(World, mac) /\ ~Own(World, mac)
  <2>1. None \in 0 .. t
    BY <1>3 DEF None
  <2>2. dev.sealed = None /\ dev.state = "enrolled"
    BY <1>1
  <2>3. QED BY <1>3, <1>4, <2>1, <2>2, WorldIs DEF Copied, Own, Enrolled
<1>6. \A c \in Certs : row[c].kind # "stray"
  <2>1. kind # "stray"
    BY <1>1, KindsAssumption
  <2>2. QED BY <1>1, <2>1 DEF FreeRow
<1>7. Strays(World) = {} /\ StraysUnbound(World)
  BY <1>6, WorldIs DEF Strays, StraysUnbound, Assoc
<1>8. CInv(World, mac, inbox)
  <2>1. Announced(World, inbox) /\ Explained(World, mac, inbox)
    BY <1>5, <1>7 DEF Announced, Explained, Mixed
  <2>2. {"recent", "redo"} \subseteq DOMAIN World.alarm /\ World.alarm.redo = None
    BY <1>2, WorldIs
  <2>3. QED BY <1>3, <1>5, <1>7, <2>1, <2>2 DEF CInv
<1>9. QED BY <1>2, <1>8, InitLock DEF COInv

LEMMA StepCopies ==
  ASSUME COInv, [Next]_vars
  PROVE  /\ COInv'
         /\ faults' = 0 /\ mishaps' = 0 => KeepsCopy
<1>1. /\ LockInv' /\ faults' \in Nat /\ mishaps' \in Nat
      /\ (faults' = 0 => faults = 0) /\ (mishaps' = 0 => mishaps = 0)
  BY LockStays, FaultsCount, MishapsCount DEF COInv, LockInv
<1>2. ASSUME faults' = 0, mishaps' = 0 PROVE CInv(World', mac', inbox') /\ KeepsCopy
  <2>1. CASE Next
    <3>1. LInv(World', mac', inbox')
      BY <1>2, <2>1, HandleLock, MinuteLock, IssueLock, OutsideLock DEF Next, COInv
    <3>2. QED BY <1>2, <2>1, <3>1, HandleCopy, MinuteCopy, IssueCopy, OutsideCopy DEF Next
  <2>2. CASE UNCHANGED vars
    <3>1. World' = World /\ inbox' = inbox /\ mac' = mac /\ dev' = dev
      BY <2>2 DEF vars, World
    <3>2. QED BY <1>1, <1>2, <3>1 DEF COInv, KeepsCopy
  <2>3. QED BY <2>1, <2>2
<1>3. COInv'
  BY <1>1, <1>2 DEF COInv
<1>4. QED BY <1>2, <1>3

(* The sealed copy of the bootstrap token that the Mac still has is neither *)
(* dropped nor replaced, when no write to NanoMDM fails and webhooks come   *)
(* in order: not by a bind, a refusal, a capture, a renewal, its completion *)
(* or its rollback (identity.py apply_acceptance and apply_refusal,         *)
(* bootstrap.py capture_bootstrap_token, identity_renewal.py). What another *)
(* machine stores meanwhile is not sealed, but while a renewal is under way *)
(* or a refusal is recent.                                                  *)
THEOREM CopyIsKept == Spec => CopyOutlives
<1>1. Init => COInv
  BY InitCopy
<1>2. COInv /\ [Next]_vars => COInv'
  BY StepCopies
<1>3. COInv /\ [Next]_vars =>
        [/\ dev.sealed # None /\ dev.sealed = mac.token /\ mac'.token = mac.token
         /\ ~(nano.token = Alien /\ (alarm.recent \/ \E c \in Certs : Open(World, c)))
         /\ faults' + mishaps' = 0
         => dev'.sealed = dev.sealed]_vars
  <2> SUFFICES ASSUME COInv, [Next]_vars,
                      dev.sealed # None, dev.sealed = mac.token, mac'.token = mac.token,
                      ~(nano.token = Alien /\ (alarm.recent \/ \E c \in Certs : Open(World, c))),
                      faults' + mishaps' = 0
               PROVE  dev'.sealed = dev.sealed
    OBVIOUS
  <2>1. faults' \in Nat /\ mishaps' \in Nat
    BY FaultsCount, MishapsCount DEF COInv, LockInv
  <2>2. faults' = 0 /\ mishaps' = 0
    <3>1. \A a, b \in Nat : a + b = 0 => a = 0 /\ b = 0
      OBVIOUS
    <3>2. QED BY <2>1, <3>1
  <2>3. KeepsCopy
    BY <2>2, StepCopies
  <2>4. Own(World, mac) /\ ~Spared(World)
    BY WorldIs DEF Own, Spared
  <2>5. QED BY <2>3, <2>4 DEF KeepsCopy
<1>4. QED BY <1>1, <1>2, <1>3, PTL DEF Spec, CopyOutlives
=============================================================================
