------------------------------ MODULE DepProofs ------------------------------
(* Proofs about Dep, for any finite set of serial numbers, any syncers and  *)
(* any bound on what happens: a stored cursor covers what it has passed.    *)
EXTENDS Dep, TLAPS, WellFoundedInduction, FiniteSetTheorems

----------------------------------------------------------------------------
(* The log.                                                                 *)
IsLog == \E X : log \in Seq(X)

LEMMA Least ==
    ASSUME NEW B \in SUBSET Nat, B # {} PROVE \E b \in B : \A c \in B : b <= c
<1> DEFINE R == OpToRel(<, Nat)
<1>1. IsWellFoundedOn(R, Nat)
  BY NatLessThanWellFounded
<1>2. \A x, y \in Nat : x < y => <<x, y>> \in R
  BY DEF OpToRel
<1> HIDE DEF R
<1>3. PICK b \in B : \A c \in B : ~(<<c, b>> \in R)
  BY <1>1, WFMin
<1>4. ASSUME NEW c \in B PROVE b <= c
  <2>1. b \in Nat /\ c \in Nat
    OBVIOUS
  <2>2. ~(c < b)
    BY <1>2, <1>3, <2>1
  <2>3. QED BY <2>1, <2>2
<1>5. QED BY <1>4

LEMMA LargestOf ==
    ASSUME NEW a \in Nat, NEW k \in Nat, NEW A \in SUBSET ((a + 1)..k), A # {}
    PROVE  \E n \in A : \A m \in A : m <= n
<1> DEFINE B == {k - n : n \in A}
<1>1. B \in SUBSET Nat /\ \E b : b \in B
  OBVIOUS
<1>2. PICK b \in B : \A c \in B : b <= c
  <2> HIDE DEF B
  <2>1. B # {}
    BY <1>1
  <2>2. QED BY <1>1, <2>1, Least
<1>3. PICK n \in A : b = k - n
  OBVIOUS
<1>4. ASSUME NEW m \in A PROVE m <= n
  <2>1. k - n <= k - m
    BY <1>2, <1>3
  <2>2. n \in Nat /\ m \in Nat
    OBVIOUS
  <2>3. QED BY <2>1, <2>2
<1>5. QED BY <1>4

LEMMA LargestChosen ==
    ASSUME NEW a \in Nat, NEW k \in Nat, NEW A \in SUBSET ((a + 1)..k), A # {}
    PROVE  /\ (CHOOSE n \in A : \A m \in A : m <= n) \in A
           /\ \A i \in A : i <= CHOOSE n \in A : \A m \in A : m <= n
BY LargestOf

LEMMA LastOfIs ==
    ASSUME NEW s, NEW a \in Nat, NEW k \in Nat, s \in Touched(a, k)
    PROVE  \E n \in (a + 1)..k :
              /\ log[n].serial = s /\ LastOf(s, a, k) = log[n]
              /\ \A m \in (a + 1)..k : log[m].serial = s => m <= n
<1> DEFINE At == {m \in (a + 1)..k : log[m].serial = s}
           n == CHOOSE i \in At : \A j \in At : j <= i
<1>1. LastOf(s, a, k) = log[n]
  BY DEF LastOf
<1>2. At \in SUBSET ((a + 1)..k) /\ At # {}
  BY DEF Touched
<1>3. n \in At /\ \A m \in At : m <= n
  <2> HIDE DEF At
  <2>1. QED BY <1>2, LargestChosen
<1> HIDE DEF n
<1>4. QED BY <1>1, <1>3

LEMMA NextLastOfIs ==
    ASSUME NEW s, NEW a \in Nat, NEW k \in Nat, s \in Touched(a, k)'
    PROVE  \E n \in (a + 1)..k :
              /\ log'[n].serial = s /\ LastOf(s, a, k)' = log'[n]
              /\ \A m \in (a + 1)..k : log'[m].serial = s => m <= n
<1> DEFINE At == {m \in (a + 1)..k : log'[m].serial = s}
           n == CHOOSE i \in At : \A j \in At : j <= i
<1>1. LastOf(s, a, k)' = log'[n]
  BY DEF LastOf
<1>2. At \in SUBSET ((a + 1)..k) /\ At # {}
  BY DEF Touched
<1>3. n \in At /\ \A m \in At : m <= n
  <2> HIDE DEF At
  <2>1. QED BY <1>2, LargestChosen
<1> HIDE DEF n
<1>4. QED BY <1>1, <1>3

(* A later position sees the same last operation, unless there is a later   *)
(* one; an earlier start too, once there is one.                            *)
LEMMA LastUntouched ==
    ASSUME NEW s, NEW a \in Nat, NEW k \in Nat, NEW l \in Nat, a <= k, k <= l,
           s \in Touched(a, k), s \notin Touched(k, l)
    PROVE  LastOf(s, a, l) = LastOf(s, a, k)
<1>1. PICK n \in (a + 1)..k : /\ log[n].serial = s /\ LastOf(s, a, k) = log[n]
                              /\ \A m \in (a + 1)..k : log[m].serial = s => m <= n
  BY LastOfIs
<1>2. s \in Touched(a, l)
  BY <1>1 DEF Touched
<1>3. PICK i \in (a + 1)..l : /\ log[i].serial = s /\ LastOf(s, a, l) = log[i]
                              /\ \A m \in (a + 1)..l : log[m].serial = s => m <= i
  BY <1>2, LastOfIs
<1>4. i \in (a + 1)..k
  BY <1>3 DEF Touched
<1>5. i = n
  BY <1>1, <1>3, <1>4
<1>6. QED BY <1>1, <1>3, <1>5

LEMMA LastInWindow ==
    ASSUME NEW s, NEW a \in Nat, NEW k \in Nat, a <= k, s \in Touched(a, k)
    PROVE  s \in Touched(0, k) /\ LastOf(s, 0, k) = LastOf(s, a, k)
<1>1. PICK n \in (a + 1)..k : /\ log[n].serial = s /\ LastOf(s, a, k) = log[n]
                              /\ \A m \in (a + 1)..k : log[m].serial = s => m <= n
  BY LastOfIs
<1>2. n \in 1..k /\ s \in Touched(0, k)
  BY <1>1 DEF Touched
<1>3. PICK i \in 1..k : /\ log[i].serial = s /\ LastOf(s, 0, k) = log[i]
                        /\ \A m \in 1..k : log[m].serial = s => m <= i
  BY <1>2, LastOfIs
<1>4. i = n
  BY <1>1, <1>2, <1>3
<1>5. QED BY <1>1, <1>2, <1>3, <1>4

(* A log that only grew.                                                    *)
Grown == /\ Len(log) \in Nat /\ Len(log') \in Nat /\ Len(log) <= Len(log')
         /\ \A n \in 1..Len(log) : log'[n] = log[n]

LEMMA GrownKeepsPast ==
    ASSUME Grown, NEW a \in Nat, NEW k \in Nat, a <= k, k <= Len(log)
    PROVE  /\ Touched(a, k)' = Touched(a, k)
           /\ \A s \in Touched(a, k) : LastOf(s, a, k)' = LastOf(s, a, k)
<1>1. \A n \in (a + 1)..k : log'[n] = log[n]
  BY DEF Grown
<1>2. Touched(a, k)' = Touched(a, k)
  BY <1>1 DEF Touched
<1>3. ASSUME NEW s \in Touched(a, k) PROVE LastOf(s, a, k)' = LastOf(s, a, k)
  <2>1. PICK n \in (a + 1)..k : /\ log[n].serial = s /\ LastOf(s, a, k) = log[n]
                                /\ \A m \in (a + 1)..k : log[m].serial = s => m <= n
    BY LastOfIs
  <2>2. PICK i \in (a + 1)..k : /\ log'[i].serial = s /\ LastOf(s, a, k)' = log'[i]
                                /\ \A m \in (a + 1)..k : log'[m].serial = s => m <= i
    BY <1>2, NextLastOfIs
  <2>3. i = n
    BY <1>1, <2>1, <2>2
  <2>4. QED BY <1>1, <2>1, <2>2, <2>3
<1>4. QED BY <1>2, <1>3

LEMMA AppendGrows ==
    ASSUME IsLog, NEW r, log' = Append(log, r)
    PROVE  /\ Grown /\ IsLog' /\ Len(log') = Len(log) + 1 /\ log'[Len(log')] = r
<1>1. PICK X : log \in Seq(X)
  BY DEF IsLog
<1>2. log \in Seq(X \cup {r})
  BY <1>1
<1>3. log' \in Seq(X \cup {r})
  BY <1>2
<1>4. QED BY <1>2, <1>3 DEF Grown, IsLog

LEMMA ConcatGrows ==
    ASSUME IsLog, NEW n \in Nat, NEW f, f = [i \in 1..n |-> f[i]], log' = log \o f
    PROVE  /\ Grown /\ IsLog' /\ Len(log') = Len(log) + n
           /\ \A i \in 1..n : log'[Len(log) + i] = f[i]
<1>1. PICK X : log \in Seq(X)
  BY DEF IsLog
<1> DEFINE Y == X \cup {f[i] : i \in 1..n}
<1>2. log \in Seq(Y)
  BY <1>1
<1>3. f \in Seq(Y) /\ Len(f) = n
  <2>1. f \in [1..n -> Y]
    OBVIOUS
  <2>2. QED BY <2>1
<1> HIDE DEF Y
<1>4. log' \in Seq(Y)
  BY <1>2, <1>3
<1>5. /\ Len(log) \in Nat /\ Len(log') = Len(log) + n
      /\ \A i \in 1..Len(log) : log'[i] = log[i]
      /\ \A i \in 1..n : log'[Len(log) + i] = f[i]
  BY <1>2, <1>3
<1>6. Grown
  BY <1>5 DEF Grown
<1>7. IsLog'
  BY <1>4 DEF IsLog
<1>8. QED BY <1>5, <1>6, <1>7

----------------------------------------------------------------------------
(* The inductive invariant.                                                 *)
SyncFields == {"pc", "cursor", "recs", "known", "todo", "created", "profile", "ok"}
LinkFields == {"status", "key", "token", "cursor"}
RowFields == {"state", "dep", "uuid", "status", "refused"}
Cursors == {NoCursor} \cup 0..Len(log)

LogOK == IsLog /\ \A n \in 1..Len(log) : log[n].serial \in Serials
RowOK ==
    /\ DOMAIN row = Serials
    /\ \A s \in Serials : /\ RowFields \subseteq DOMAIN row[s]
                          /\ row[s].dep \in BOOLEAN
                          /\ row[s].state = "none" => ~row[s].dep
SyncOK ==
    /\ DOMAIN sync = Syncers
    /\ \A p \in Syncers : /\ SyncFields \subseteq DOMAIN sync[p]
                          /\ sync[p].cursor \in Cursors
                          /\ sync[p].todo \subseteq Serials
                          /\ sync[p].created \subseteq Serials
LinkOK ==
    /\ LinkFields \subseteq DOMAIN link /\ link.cursor \in Cursors
    /\ {"pc", "link"} \subseteq DOMAIN upload
    /\ LinkFields \subseteq DOMAIN upload.link /\ upload.link.cursor \in Cursors

(* Without "sync" in Overlaps one sync runs at a time.                      *)
Single == \A p, q \in Syncers : sync[p].pc # "idle" /\ sync[q].pc # "idle" => p = q

Shape == LogOK /\ RowOK /\ SyncOK /\ LinkOK /\ Single

(* The cursors that are, or may become, the stored one: complete_link saves *)
(* the row it loaded.                                                       *)
Stored == {link.cursor} \cup (IF upload.pc = "asking" THEN {upload.link.cursor} ELSE {})

(* A sync starts at the newest of them, and so does whatever it reads.      *)
Order ==
    /\ upload.pc = "asking" /\ link.token => upload.link.cursor <= link.cursor
    /\ \A p \in Syncers : sync[p].pc = "collect" \/ (sync[p].pc = "apply" /\ sync[p].ok)
                             => \A k \in Stored : k <= sync[p].cursor

(* What a cursor answers for: the serials it has passed, and nobody after.  *)
Settled(k) == Touched(0, k) \ (Touched(k, Len(log)) \cup missed)
Right(s, k) == row[s].dep = (LastOf(s, 0, k).op # "deleted")
Covered(k) == k # NoCursor => \A s \in Settled(k) : Right(s, k)

(* What a sync has yet to apply agrees with every cursor that answers for   *)
(* it, and its idea of which rows there are is still true.                  *)
Due(p, k) ==
    k # NoCursor =>
        \A s \in Settled(k) : s \in sync[p].todo =>
            /\ (sync[p].recs[s].op # "deleted") = (LastOf(s, 0, k).op # "deleted")
            /\ s \in sync[p].known <=> row[s].state # "none"
Applying(p) ==
    sync[p].pc = "apply" =>
        /\ \A k \in Stored : Due(p, k)
        /\ sync[p].ok =>
              /\ sync[p].cursor # NoCursor
              /\ Due(p, sync[p].cursor)
              /\ \A s \in Settled(sync[p].cursor) :
                    s \notin sync[p].todo => Right(s, sync[p].cursor)
Collecting(p) == sync[p].pc = "collect" => Covered(sync[p].cursor)

Linked ==
    /\ Order
    /\ \A k \in Stored : Covered(k)
    /\ \A p \in Syncers : Collecting(p) /\ Applying(p)

IInv == Shape /\ (link.status # "gone" => Linked)

----------------------------------------------------------------------------
(* Steps of Apple and of the administrators: the log grows, and the rows    *)
(* that change otherwise than in passing are those it grew by.              *)
Reached(s) == \E n \in (Len(log) + 1)..Len(log') : log'[n].serial = s

LEMMA SettledStays ==
    ASSUME Grown, missed \subseteq missed', NEW k \in 0..Len(log), NEW s, s \in Settled(k)'
    PROVE  s \in Settled(k) /\ ~Reached(s) /\ LastOf(s, 0, k)' = LastOf(s, 0, k)
<1>1. k \in Nat /\ 0 <= k /\ k <= Len(log) /\ Len(log) \in Nat /\ Len(log') \in Nat
  BY DEF Grown
<1>2. Touched(0, k)' = Touched(0, k)
  BY <1>1, GrownKeepsPast
<1>3. s \in Touched(0, k) /\ LastOf(s, 0, k)' = LastOf(s, 0, k)
  BY <1>1, <1>2, GrownKeepsPast DEF Settled
<1>4. \A n \in (k + 1)..Len(log') : log'[n].serial # s
  BY DEF Settled, Touched
<1>5. \A n \in (k + 1)..Len(log) : log[n].serial # s
  BY <1>1, <1>4 DEF Grown
<1>6. ~Reached(s)
  BY <1>1, <1>4 DEF Reached
<1>7. QED BY <1>3, <1>5, <1>6 DEF Settled, Touched

SettledInSerials == \A k \in 0..Len(log) : Settled(k) \subseteq Serials
LEMMA SettledAreSerials == LogOK /\ Len(log) \in Nat => SettledInSerials
BY DEF LogOK, SettledInSerials, Settled, Touched

LEMMA LenIsNat == LogOK => Len(log) \in Nat
BY DEF LogOK, IsLog

SameSync(p) ==
    /\ sync'[p].pc = sync[p].pc /\ sync'[p].cursor = sync[p].cursor
    /\ sync'[p].recs = sync[p].recs /\ sync'[p].known = sync[p].known
    /\ sync'[p].todo = sync[p].todo /\ sync'[p].ok = sync[p].ok
    /\ SyncFields \subseteq DOMAIN sync'[p] /\ sync'[p].created \subseteq Serials

LEMMA LogStep ==
    ASSUME IInv, Grown, LogOK', RowOK', UNCHANGED <<link, upload, missed>>,
           DOMAIN sync' = Syncers, \A p \in Syncers : SameSync(p),
           \A s \in Serials : ~Reached(s) => row'[s].dep = row[s].dep,
           \A s \in Serials, p \in Syncers : ~Reached(s) /\ sync[p].pc = "apply" =>
              (row'[s].state = "none" <=> row[s].state = "none")
    PROVE  IInv'
<1>1. Len(log) \in Nat /\ Len(log') \in Nat /\ Len(log) <= Len(log')
  BY DEF Grown
<1>2. Cursors \subseteq Cursors'
  BY <1>1 DEF Cursors
<1>3. Shape'
  BY <1>2 DEF IInv, Shape, SyncOK, LinkOK, Single, SameSync
<1>4. Stored' = Stored /\ Stored \subseteq Cursors
  BY DEF Stored, IInv, Shape, LinkOK
<1> SUFFICES ASSUME link.status # "gone" PROVE Linked'
  BY <1>3 DEF IInv
<1>5. Linked
  BY DEF IInv
<1>6. \A k \in Cursors \ {NoCursor} : k \in 0..Len(log)
  BY DEF Cursors
<1>7. ASSUME NEW k \in Cursors, k # NoCursor, NEW s, s \in Settled(k)'
      PROVE  /\ s \in Settled(k) /\ s \in Serials /\ ~Reached(s)
             /\ LastOf(s, 0, k)' = LastOf(s, 0, k)
             /\ Right(s, k) => Right(s, k)'
  <2>1. s \in Settled(k) /\ ~Reached(s) /\ LastOf(s, 0, k)' = LastOf(s, 0, k)
    BY <1>6, <1>7, SettledStays
  <2>2. s \in Serials
    BY <1>1, <1>6, <1>7, <2>1, SettledAreSerials DEF SettledInSerials, IInv, Shape
  <2>3. QED BY <2>1, <2>2 DEF Right
<1>8. ASSUME NEW k \in Cursors, Covered(k) PROVE Covered(k)'
  BY <1>7, <1>8 DEF Covered
<1>9. ASSUME NEW k \in Cursors, NEW p \in Syncers, sync[p].pc = "apply", Due(p, k)
      PROVE  Due(p, k)'
  <2> SUFFICES ASSUME k # NoCursor, NEW s, s \in Settled(k)', s \in sync'[p].todo
               PROVE  /\ (sync'[p].recs[s].op # "deleted") = (LastOf(s, 0, k)'.op # "deleted")
                      /\ s \in sync'[p].known <=> row'[s].state # "none"
    BY DEF Due
  <2>1. s \in Settled(k) /\ s \in Serials /\ ~Reached(s) /\ LastOf(s, 0, k)' = LastOf(s, 0, k)
    BY <1>7
  <2>2. /\ (sync[p].recs[s].op # "deleted") = (LastOf(s, 0, k).op # "deleted")
        /\ s \in sync[p].known <=> row[s].state # "none"
    BY <1>9, <2>1 DEF Due, SameSync
  <2>3. QED BY <1>9, <2>1, <2>2 DEF SameSync
<1>10. Order'
  BY <1>4, <1>5 DEF Linked, Order, SameSync
<1>11. \A k \in Stored' : Covered(k)'
  BY <1>4, <1>5, <1>8 DEF Linked
<1>12. ASSUME NEW p \in Syncers PROVE Collecting(p)'
  <2>1. sync[p].cursor \in Cursors
    BY DEF IInv, Shape, SyncOK
  <2> DEFINE k == sync[p].cursor
  <2>2. sync[p].pc = "collect" => Covered(k)
    BY <1>5 DEF Linked, Collecting
  <2>3. sync'[p].cursor = k /\ sync'[p].pc = sync[p].pc
    BY DEF SameSync
  <2>4. PICK c : c = k
    OBVIOUS
  <2>5. sync[p].pc = "collect" => Covered(c)'
    BY <1>8, <2>1, <2>2, <2>4
  <2>6. QED BY <2>3, <2>4, <2>5 DEF Collecting, Covered
<1>13. ASSUME NEW p \in Syncers PROVE Applying(p)'
  <2> SUFFICES ASSUME sync[p].pc = "apply" PROVE Applying(p)'
    BY DEF Applying, SameSync
  <2>1. PICK c : c = sync[p].cursor
    OBVIOUS
  <2>2. c \in Cursors /\ sync'[p].cursor = c
    BY <2>1 DEF IInv, Shape, SyncOK, SameSync
  <2>3. Applying(p)
    BY <1>5 DEF Linked
  <2>4. \A k \in Stored' : Due(p, k)'
    BY <1>4, <1>9, <2>3 DEF Applying
  <2>5. ASSUME sync[p].ok PROVE c # NoCursor /\ Due(p, c)'
    BY <1>9, <2>1, <2>2, <2>3, <2>5 DEF Applying
  <2>6. ASSUME sync[p].ok, NEW s, s \in Settled(c)', s \notin sync'[p].todo
        PROVE  Right(s, c)'
    <3>1. c # NoCursor
      BY <2>5, <2>6
    <3>2. s \in Settled(c) /\ (Right(s, c) => Right(s, c)')
      BY <1>7, <2>2, <2>6, <3>1
    <3>3. s \notin sync[p].todo
      BY <2>6 DEF SameSync
    <3>4. Right(s, c)
      BY <2>1, <2>3, <2>6, <3>2, <3>3 DEF Applying
    <3>5. QED BY <3>2, <3>4
  <2>7. sync'[p].ok = sync[p].ok
    BY DEF SameSync
  <2>8. QED BY <2>2, <2>4, <2>5, <2>6, <2>7 DEF Applying, Due, Settled, Right
<1>14. QED BY <1>10, <1>11, <1>12, <1>13 DEF Linked

(* Steps that leave the log and the rows alone, stop syncs or none, and     *)
(* bring no cursor back but the stored ones and none at all.                *)
LEMMA CalmStep ==
    ASSUME IInv, UNCHANGED <<log, row, missed>>, LinkOK', SyncOK',
           \A q \in Syncers : sync'[q].pc = "idle" \/ sync'[q] = sync[q],
           link.status = "gone" => link'.status = "gone",
           Stored' \subseteq Stored \cup {NoCursor},
           link.status # "gone" /\ upload'.pc = "asking" /\ link'.token
              => upload'.link.cursor <= link'.cursor
    PROVE  IInv'
<1>1. Single'
  BY DEF IInv, Shape, Single
<1>2. Shape'
  BY <1>1 DEF IInv, Shape, LogOK, IsLog, RowOK
<1> SUFFICES ASSUME link.status # "gone" PROVE Linked'
  BY <1>2 DEF IInv
<1>3. Linked
  BY DEF IInv
<1>4. \A k, t : /\ Settled(k)' = Settled(k) /\ Right(t, k)' = Right(t, k)
                /\ LastOf(t, 0, k)' = LastOf(t, 0, k)
  BY DEF Settled, Touched, Right, LastOf
<1>5. ASSUME NEW k PROVE Covered(k)' = Covered(k)
  BY <1>4 DEF Covered
<1>6. \A k \in Stored' : Covered(k)'
  BY <1>3, <1>5 DEF Linked, Covered
<1>7. ASSUME NEW p \in Syncers, sync'[p] = sync[p], NEW k PROVE Due(p, k)' = Due(p, k)
  BY <1>4, <1>7 DEF Due
<1>8. ASSUME NEW p \in Syncers, sync'[p] = sync[p] PROVE Collecting(p)'
  <2>1. Covered(sync[p].cursor)' = Covered(sync[p].cursor)
    BY <1>4, <1>8 DEF Covered
  <2>2. QED BY <1>3, <1>8, <2>1 DEF Linked, Collecting
<1>9. ASSUME NEW p \in Syncers, sync'[p] = sync[p] PROVE Applying(p)'
  <2> SUFFICES ASSUME sync[p].pc = "apply" PROVE Applying(p)'
    BY <1>9 DEF Applying
  <2>1. Applying(p)
    BY <1>3 DEF Linked
  <2>2. \A k \in Stored' : Due(p, k)'
    BY <1>7, <1>9, <2>1 DEF Applying, Due
  <2>3. Due(p, sync[p].cursor)' = Due(p, sync[p].cursor)
    BY <1>4, <1>9 DEF Due
  <2>4. \A t : /\ Settled(sync[p].cursor)' = Settled(sync[p].cursor)
               /\ Right(t, sync[p].cursor)' = Right(t, sync[p].cursor)
    BY <1>9 DEF Settled, Touched, Right, LastOf
  <2>5. QED BY <1>9, <2>1, <2>2, <2>3, <2>4 DEF Applying
<1>10. \A p \in Syncers : Collecting(p)' /\ Applying(p)'
  BY <1>8, <1>9 DEF Collecting, Applying
<1>11. ASSUME NEW p \in Syncers,
              sync'[p].pc = "collect" \/ (sync'[p].pc = "apply" /\ sync'[p].ok),
              NEW k \in Stored'
       PROVE  k <= sync'[p].cursor
  <2>1. sync'[p] = sync[p]
    BY <1>11
  <2>2. sync[p].cursor \in Int /\ NoCursor <= sync[p].cursor
    BY LenIsNat DEF IInv, Shape, SyncOK, Cursors, NoCursor
  <2>3. \A j \in Stored : j <= sync[p].cursor
    BY <1>3, <1>11, <2>1 DEF Linked, Order
  <2>4. QED BY <2>1, <2>2, <2>3
<1>12. Order'
  BY <1>11 DEF Order
<1>13. QED BY <1>6, <1>10, <1>12 DEF Linked

(* The log steps.                                                           *)
LEMMA AssignsGrows ==
    ASSUME LogOK, NEW S \in SUBSET Serials, NEW uuid, Assigns(S, uuid)
    PROVE  Grown /\ LogOK'
<1>1. Cardinality(S) \in Nat
  BY DepAssumption, FS_Subset, FS_CardinalityType
<1> DEFINE c == Cardinality(S)
<1>2. PICK order \in [1..c -> S] :
         log' = log \o [n \in DOMAIN order |-> Op(order[n], "modified", uuid)]
  BY DEF Assigns
<1> DEFINE f == [n \in 1..c |-> Op(order[n], "modified", uuid)]
<1>3. log' = log \o f
  BY <1>2
<1>4. f = [i \in 1..c |-> f[i]] /\ \A i \in 1..c : f[i].serial \in Serials
  BY DEF Op
<1> HIDE DEF f, c
<1>5. /\ Grown /\ IsLog' /\ Len(log') = Len(log) + c
      /\ \A i \in 1..c : log'[Len(log) + i] = f[i]
  <2>1. c \in Nat
    BY <1>1 DEF c
  <2>2. QED BY <1>3, <1>4, <2>1, ConcatGrows DEF LogOK
<1>6. ASSUME NEW n \in 1..Len(log') PROVE log'[n].serial \in Serials
  <2>1. c \in Nat /\ Len(log) \in Nat
    BY <1>1, LenIsNat DEF c
  <2>2. CASE n <= Len(log)
    BY <1>5, <2>1, <2>2 DEF Grown, LogOK
  <2>3. CASE n > Len(log)
    <3>1. n - Len(log) \in 1..c /\ Len(log) + (n - Len(log)) = n
      BY <1>5, <2>1, <2>3
    <3>2. log'[n] = f[n - Len(log)]
      BY <1>5, <3>1
    <3>3. QED BY <1>4, <3>1, <3>2
  <2>4. QED BY <2>1, <2>2, <2>3
<1>7. QED BY <1>5, <1>6 DEF LogOK

LEMMA OpGrows ==
    ASSUME LogOK, NEW s \in Serials, NEW op, NEW uuid, log' = Append(log, Op(s, op, uuid))
    PROVE  Grown /\ LogOK' /\ Reached(s)
<1>1. /\ Grown /\ IsLog' /\ Len(log') = Len(log) + 1 /\ log'[Len(log')] = Op(s, op, uuid)
  BY AppendGrows DEF LogOK
<1>2. Len(log) \in Nat
  BY LenIsNat
<1>3. \A n \in 1..Len(log') : log'[n].serial \in Serials
  BY <1>1, <1>2 DEF LogOK, Grown, Op
<1>4. QED BY <1>1, <1>2, <1>3 DEF LogOK, Reached, Op

LEMMA SyncsSame == IInv /\ UNCHANGED sync => DOMAIN sync' = Syncers /\ \A p \in Syncers : SameSync(p)
BY DEF IInv, Shape, SyncOK, SameSync

LEMMA RecordedKeeps ==
    ASSUME RowOK, NEW S, NEW R, NEW uuid, row' = Recorded(S, R, uuid)
    PROVE  RowOK' /\ \A s \in Serials : row'[s].dep = row[s].dep /\ row'[s].state = row[s].state
BY DEF RowOK, Recorded, RowFields

LEMMA ForgottenKeeps ==
    ASSUME RowOK, NEW s \in Serials, row' = [row EXCEPT ![s] = Forgotten(@)]
    PROVE  /\ RowOK' /\ ~row'[s].dep
           /\ \A t \in Serials \ {s} : row'[t] = row[t]
<1>1. Forgotten(row[s]) = row'[s] /\ \A t \in Serials \ {s} : row'[t] = row[t]
  BY DEF RowOK
<1>2. /\ RowFields \subseteq DOMAIN Forgotten(row[s])
      /\ Forgotten(row[s]).dep = FALSE
  BY DEF RowOK, Forgotten, Absent, RowFields
<1>3. QED BY <1>1, <1>2 DEF RowOK

LEMMA GrowSteps ==
    ASSUME IInv, "enroll" \notin Overlaps,
           \/ \E s \in Serials : AppleAdds(s) \/ AppleDeletes(s) \/ Enroll(s)
           \/ \E S \in SUBSET Serials \ {{}}, lost \in BOOLEAN : Assign(S, lost)
           \/ \E s \in Serials, lost \in BOOLEAN : Unassign(s, lost) \/ Disown(s, lost)
    PROVE  IInv'
<1>1. LogOK /\ RowOK /\ Len(log) \in Nat
  BY LenIsNat DEF IInv, Shape
<1>2. ASSUME NEW s \in Serials, AppleAdds(s) \/ AppleDeletes(s) PROVE IInv'
  <2>1. Grown /\ LogOK'
    BY <1>1, <1>2, OpGrows DEF AppleAdds, AppleDeletes
  <2>2. RowOK' /\ UNCHANGED <<row, link, upload, missed, sync>>
    BY <1>1, <1>2 DEF AppleAdds, AppleDeletes, work, RowOK
  <2>3. QED BY <2>1, <2>2, SyncsSame, LogStep
<1>3. ASSUME NEW s \in Serials, Enroll(s) PROVE IInv'
  <2>1. Grown /\ LogOK'
    BY <1>1, <1>3 DEF Enroll, Grown, LogOK, IsLog
  <2>2. /\ UNCHANGED <<link, upload, missed, sync>> /\ \A p \in Syncers : sync[p].pc # "apply"
        /\ row' = [row EXCEPT ![s].state = "enrolled"]
    BY <1>3 DEF Enroll, work
  <2>3. RowOK' /\ \A t \in Serials : row'[t].dep = row[t].dep
    BY <1>1, <2>2 DEF RowOK, RowFields
  <2>4. QED BY <2>1, <2>2, <2>3, SyncsSame, LogStep
<1>4. ASSUME NEW S \in SUBSET Serials, NEW lost \in BOOLEAN, Assign(S, lost) PROVE IInv'
  <2> DEFINE L == {s \in S : Listed(s)}
  <2>1. Assigns(L, mapping.uuid) /\ L \in SUBSET Serials
    BY <1>4 DEF Assign
  <2>2. Grown /\ LogOK'
    BY <1>1, <2>1, AssignsGrows
  <2>3. row' = row \/ row' = Recorded(L, S \ L, mapping.uuid)
    BY <1>4 DEF Assign
  <2>4. RowOK' /\ \A s \in Serials : row'[s].dep = row[s].dep /\ row'[s].state = row[s].state
    BY <1>1, <2>3, RecordedKeeps DEF RowOK
  <2>5. UNCHANGED <<link, upload, missed, sync>>
    BY <1>4 DEF Assign, work
  <2>6. QED BY <2>2, <2>4, <2>5, SyncsSame, LogStep
<1>5. ASSUME NEW s \in Serials, NEW lost \in BOOLEAN, Unassign(s, lost) PROVE IInv'
  <2>1. Grown /\ LogOK'
    BY <1>1, <1>5, OpGrows DEF Unassign
  <2>2. row' = row \/ row' = [row EXCEPT ![s].status = "removed"]
    BY <1>5 DEF Unassign
  <2>3. RowOK' /\ \A t \in Serials : row'[t].dep = row[t].dep /\ row'[t].state = row[t].state
    BY <1>1, <2>2 DEF RowOK, RowFields
  <2>4. UNCHANGED <<link, upload, missed, sync>>
    BY <1>5 DEF Unassign, work
  <2>5. QED BY <2>1, <2>3, <2>4, SyncsSame, LogStep
<1>6. ASSUME NEW s \in Serials, NEW lost \in BOOLEAN, Disown(s, lost) PROVE IInv'
  <2>1. Grown /\ LogOK' /\ Reached(s)
    BY <1>1, <1>6, OpGrows DEF Disown
  <2>2. row' = row \/ row' = [row EXCEPT ![s] = Forgotten(@)]
    BY <1>6 DEF Disown
  <2>3. RowOK' /\ \A t \in Serials \ {s} : row'[t] = row[t]
    BY <1>1, <2>2, ForgottenKeeps DEF RowOK
  <2>4. UNCHANGED <<link, upload, missed, sync>>
    BY <1>6 DEF Disown, work
  <2>5. QED BY <2>1, <2>3, <2>4, SyncsSame, LogStep
<1>7. QED BY <1>2, <1>3, <1>4, <1>5, <1>6

LEMMA AssignDefaultStep ==
    ASSUME IInv, NEW p \in Syncers, AssignDefault(p) PROVE IInv'
<1>1. LogOK /\ RowOK
  BY DEF IInv, Shape
<1> DEFINE S == {s \in sync[p].created : Listed(s)}
<1>2. Assigns(S, sync[p].profile) /\ S \in SUBSET Serials
  BY DEF AssignDefault, IInv, Shape, SyncOK
<1>3. Grown /\ LogOK'
  BY <1>1, <1>2, AssignsGrows
<1>4. row' = row \/ row' = Recorded(S, sync[p].created \ S, sync[p].profile)
  BY DEF AssignDefault
<1>5. RowOK' /\ \A s \in Serials : row'[s].dep = row[s].dep /\ row'[s].state = row[s].state
  BY <1>1, <1>4, RecordedKeeps DEF RowOK
<1>6. UNCHANGED <<link, upload, missed>> /\ sync' = [sync EXCEPT ![p].created = {}]
  BY DEF AssignDefault
<1>7. DOMAIN sync' = Syncers /\ \A q \in Syncers : SameSync(q)
  BY <1>6 DEF IInv, Shape, SyncOK, SameSync, SyncFields
<1>8. QED BY <1>3, <1>5, <1>6, <1>7, LogStep

----------------------------------------------------------------------------
(* The link's steps, the pushes, and what ends a sync before its cursor.    *)
LEMMA LinkSteps ==
    ASSUME IInv, BeginLink \/ UploadToken \/ CompleteLink \/ TokenRefused \/ Unlink
    PROVE  IInv'
<1>1. UNCHANGED <<log, row, missed, sync>>
  BY DEF BeginLink, UploadToken, CompleteLink, TokenRefused, Unlink, work
<1>2. SyncOK' /\ Cursors' = Cursors
  BY <1>1 DEF IInv, Shape, SyncOK, Cursors
<1>3. LinkOK /\ \A k \in Cursors : k <= k
  BY LenIsNat DEF IInv, Shape, Cursors, NoCursor
<1>4. CASE BeginLink
  <2>1. upload' = upload /\ link' = [link EXCEPT !.status = "awaiting_token", !.key = TRUE, !.token = FALSE]
    BY <1>4 DEF BeginLink, work
  <2>2. LinkOK' /\ Stored' = Stored /\ ~link'.token
    BY <1>2, <1>3, <2>1 DEF LinkOK, LinkFields, Stored
  <2>3. link.status # "gone"
    BY <1>4 DEF BeginLink
  <2>4. QED BY <1>1, <1>2, <2>2, <2>3, CalmStep
<1>5. CASE UploadToken
  <2>1. link' = link /\ upload' = [pc |-> "asking", link |-> link]
    BY <1>5 DEF UploadToken
  <2>2. LinkOK' /\ Stored' \subseteq Stored /\ upload'.link.cursor <= link'.cursor
    BY <1>2, <1>3, <2>1 DEF LinkOK, Stored
  <2>3. QED BY <1>1, <1>2, <2>1, <2>2, CalmStep
<1>6. CASE CompleteLink
  <2>1. /\ upload.pc = "asking" /\ link.status # "gone" /\ upload' = [upload EXCEPT !.pc = "idle"]
        /\ link' = [upload.link EXCEPT !.status = "linked", !.token = TRUE]
    BY <1>6 DEF CompleteLink
  <2>2. LinkOK' /\ Stored' \subseteq Stored /\ upload'.pc # "asking"
    BY <1>2, <1>3, <2>1 DEF LinkOK, LinkFields, Stored
  <2>3. QED BY <1>1, <1>2, <2>1, <2>2, CalmStep
<1>7. CASE TokenRefused
  <2>1. /\ upload' = [upload EXCEPT !.pc = "idle"]
        /\ link' = IF link.status = "gone" THEN link ELSE [link EXCEPT !.status = "error"]
    BY <1>7 DEF TokenRefused
  <2>2. LinkOK' /\ Stored' \subseteq Stored /\ upload'.pc # "asking"
        /\ (link.status = "gone" => link'.status = "gone")
    BY <1>2, <1>3, <2>1 DEF LinkOK, LinkFields, Stored
  <2>3. QED BY <1>1, <1>2, <2>2, CalmStep
<1>8. CASE Unlink
  <2>1. /\ upload' = upload /\ link.status # "gone"
        /\ link' = [status |-> "unlinked", key |-> FALSE, token |-> FALSE, cursor |-> NoCursor]
    BY <1>8 DEF Unlink, work
  <2>2. LinkOK' /\ Stored' \subseteq Stored \cup {NoCursor} /\ ~link'.token
    BY <1>2, <1>3, <2>1 DEF LinkOK, LinkFields, Stored, Cursors
  <2>3. QED BY <1>1, <1>2, <2>1, <2>2, CalmStep
<1>9. QED BY <1>4, <1>5, <1>6, <1>7, <1>8

LEMMA RemoveStep == ASSUME IInv, Remove PROVE IInv'
<1>1. /\ UNCHANGED <<log, sync, upload, missed>>
      /\ link' = [status |-> "gone", key |-> FALSE, token |-> FALSE, cursor |-> NoCursor]
      /\ row' = [s \in Serials |-> IF row[s].dep
                                   THEN [row[s] EXCEPT !.dep = FALSE, !.status = "removed"]
                                   ELSE row[s]]
  BY DEF Remove, work
<1>2. RowOK'
  <2>1. RowOK
    BY DEF IInv, Shape
  <2>2. DOMAIN row' = Serials
    BY <1>1
  <2>3. ASSUME NEW s \in Serials
        PROVE  /\ RowFields \subseteq DOMAIN row'[s] /\ row'[s].dep \in BOOLEAN
               /\ row'[s].state = "none" => ~row'[s].dep
    BY <1>1, <2>1 DEF RowOK, RowFields
  <2>4. QED BY <2>2, <2>3 DEF RowOK
<1>3. LogOK' /\ SyncOK' /\ Single'
  BY <1>1 DEF IInv, Shape, LogOK, IsLog, SyncOK, Single, Cursors
<1>4. LinkOK'
  BY <1>1 DEF IInv, Shape, LinkOK, LinkFields, Cursors
<1>5. QED BY <1>1, <1>2, <1>3, <1>4 DEF IInv, Shape

LEMMA OtherSteps ==
    ASSUME IInv, \/ EditProfile \/ Restart \/ UNCHANGED vars
                 \/ \E p \in Syncers : \/ SyncFails(p) \/ BeginPush(p) \/ DefineAtApple(p)
                                       \/ SaveMapping(p)
                                       \/ \E reached \in BOOLEAN : DefineFails(p, reached)
    PROVE  IInv'
<1>1. UNCHANGED <<log, row, missed, link>>
  BY DEF EditProfile, Restart, vars, SyncFails, BeginPush, DefineAtApple, SaveMapping,
         DefineFails, work
<1>2. upload' = upload \/ upload' = [upload EXCEPT !.pc = "idle"]
  BY DEF EditProfile, Restart, vars, SyncFails, BeginPush, DefineAtApple, SaveMapping,
         DefineFails, work
<1>3. \/ sync' = sync
      \/ \E p \in Syncers : sync' = [sync EXCEPT ![p] = NotSyncing]
      \/ sync' = [p \in Syncers |-> NotSyncing]
  BY DEF EditProfile, Restart, vars, SyncFails, BeginPush, DefineAtApple, SaveMapping,
         DefineFails, work
<1>4. SyncOK /\ LinkOK /\ Cursors' = Cursors
  BY <1>1 DEF IInv, Shape, Cursors
<1>5. SyncOK' /\ \A q \in Syncers : sync'[q].pc = "idle" \/ sync'[q] = sync[q]
  BY <1>3, <1>4 DEF SyncOK, NotSyncing, SyncFields, Cursors
<1>6. LinkOK' /\ Stored' \subseteq Stored
  BY <1>1, <1>2, <1>4 DEF LinkOK, Stored
<1>7. link.status # "gone" /\ upload'.pc = "asking" /\ link'.token
         => upload'.link.cursor <= link'.cursor
  <2>1. upload'.pc = "asking" => upload' = upload
    BY <1>2, <1>4 DEF LinkOK
  <2>2. QED BY <1>1, <2>1 DEF IInv, Linked, Order
<1>8. QED BY <1>1, <1>5, <1>6, <1>7, CalmStep

----------------------------------------------------------------------------
(* The sync. It starts at the newest cursor that is, or may be, stored.     *)
LEMMA BeginSyncStep ==
    ASSUME IInv, "sync" \notin Overlaps, NEW p \in Syncers, BeginSync(p)
    PROVE  IInv'
<1>1. /\ UNCHANGED <<log, row, missed, link, upload>>
      /\ link.status # "gone" /\ link.token /\ \A q \in Syncers : sync[q].pc = "idle"
      /\ sync' = [sync EXCEPT ![p] = [NotSyncing EXCEPT !.pc = "collect", !.cursor = link.cursor]]
  BY DEF BeginSync, CanSync, Quiet
<1>2. SyncOK /\ LinkOK /\ Linked /\ Cursors' = Cursors
  BY <1>1 DEF IInv, Shape, Cursors
<1>3. /\ sync'[p].pc = "collect" /\ sync'[p].cursor = link.cursor
      /\ \A q \in Syncers \ {p} : sync'[q].pc = "idle"
  BY <1>1, <1>2 DEF SyncOK, NotSyncing
<1>4. SyncOK' /\ Single'
  BY <1>1, <1>2, <1>3 DEF SyncOK, NotSyncing, SyncFields, LinkOK, Single
<1>5. Shape'
  BY <1>1, <1>2, <1>4 DEF IInv, Shape, LogOK, IsLog, RowOK, LinkOK
<1>6. \A k : Covered(k)' = Covered(k)
  BY <1>1 DEF Covered, Settled, Touched, Right, LastOf
<1>7. Stored' = Stored
  BY <1>1 DEF Stored
<1>8. \A k \in Stored : k <= link.cursor
  BY <1>1, <1>2, LenIsNat DEF Linked, Order, Stored, LinkOK, Cursors, NoCursor, IInv, Shape
<1>9. Order'
  BY <1>1, <1>2, <1>3, <1>7, <1>8 DEF Linked, Order
<1>10. \A k \in Stored' : Covered(k)'
  BY <1>2, <1>6, <1>7 DEF Linked
<1>11. Covered(link.cursor)
  BY <1>2 DEF Linked, Stored
<1>12. ASSUME NEW q \in Syncers PROVE Collecting(q)' /\ Applying(q)'
  <2>1. CASE q = p
    <3>1. PICK c : c = link.cursor
      OBVIOUS
    <3>2. Covered(c)'
      BY <1>6, <1>11, <3>1
    <3>3. QED BY <1>3, <2>1, <3>1, <3>2 DEF Collecting, Applying, Covered
  <2>2. CASE q # p
    BY <1>3, <2>2 DEF Collecting, Applying
  <2>3. QED BY <2>1, <2>2
<1>13. QED BY <1>5, <1>9, <1>10, <1>12 DEF IInv, Linked

(* What a sync collects: from its own cursor, or everything there is.       *)
LEMMA CollectStep ==
    ASSUME IInv, NEW p \in Syncers, NEW c, NEW to, NEW ok \in BOOLEAN,
           CollectFrom(p, c, to, ok),
           c = NoCursor \/ c = sync[p].cursor, to \in 0..Len(log),
           c = NoCursor \/ c <= to, c = NoCursor \/ ok => to = Len(log)
    PROVE  IInv'
<1> DEFINE k1 == IF ok THEN to ELSE c
           W == Window(c, to)
<1>1. /\ UNCHANGED <<log, row, link, upload>> /\ sync[p].pc = "collect"
      /\ missed' = IF c # NoCursor THEN missed
                   ELSE missed \cup {s \in Serials : row[s].dep /\ ~Listed(s)}
      /\ sync' = [sync EXCEPT ![p] =
                    [@ EXCEPT !.pc = "apply", !.ok = ok, !.cursor = k1, !.todo = W,
                              !.recs = [s \in W |-> Record(s, c, to)],
                              !.known = {s \in Serials : row[s].state # "none"},
                              !.profile = mapping.uuid]]
  BY DEF CollectFrom
<1>2. SyncOK /\ LinkOK /\ LogOK /\ Len(log) \in Nat /\ Cursors' = Cursors /\ Single
  BY <1>1, LenIsNat DEF IInv, Shape, Cursors
<1>3. /\ sync'[p].pc = "apply" /\ sync'[p].ok = ok /\ sync'[p].cursor = k1
      /\ sync'[p].todo = W /\ sync'[p].recs = [s \in W |-> Record(s, c, to)]
      /\ sync'[p].known = {s \in Serials : row[s].state # "none"}
      /\ sync'[p].created = sync[p].created /\ SyncFields \subseteq DOMAIN sync'[p]
      /\ DOMAIN sync' = Syncers /\ \A q \in Syncers \ {p} : sync'[q] = sync[q]
  BY <1>1, <1>2 DEF SyncOK, SyncFields
<1>4. \A q \in Syncers \ {p} : sync'[q].pc = "idle"
  BY <1>1, <1>2, <1>3 DEF Single, SyncOK
<1>5. c \in Cursors /\ k1 \in Cursors /\ W \subseteq Serials
  <2>1. c \in Cursors
    BY <1>2 DEF SyncOK, Cursors
  <2>2. k1 \in Cursors
    BY <2>1 DEF Cursors
  <2>3. CASE c = NoCursor
    BY <2>1, <2>2, <2>3 DEF Window
  <2>4. CASE c # NoCursor
    BY <1>2, <2>1, <2>2, <2>4 DEF Window, Touched, LogOK, Cursors
  <2>5. QED BY <2>1, <2>2, <2>3, <2>4
<1> HIDE DEF k1, W
<1>6. SyncOK'
  BY <1>2, <1>3, <1>5 DEF SyncOK
<1>7. Single'
  BY <1>3, <1>4 DEF Single
<1>8. Shape'
  BY <1>1, <1>2, <1>6, <1>7 DEF IInv, Shape, LogOK, IsLog, RowOK, LinkOK
<1> SUFFICES ASSUME link.status # "gone" PROVE Linked'
  BY <1>1, <1>8 DEF IInv
<1>9. Linked /\ Stored' = Stored /\ Stored \subseteq Cursors
  BY <1>1, <1>2 DEF IInv, Stored, LinkOK
<1>10. missed \subseteq missed'
  BY <1>1
<1>11. ASSUME NEW k \in Cursors, k # NoCursor, NEW s, s \in Settled(k)'
       PROVE  /\ s \in Settled(k) /\ s \in Serials /\ s \notin missed'
              /\ LastOf(s, 0, k)' = LastOf(s, 0, k) /\ Right(s, k)' = Right(s, k)
  <2>1. s \in Settled(k) /\ s \notin missed'
    BY <1>1, <1>10, <1>11 DEF Settled, Touched
  <2>2. s \in Serials
    BY <1>2, <1>11, <2>1, SettledAreSerials DEF SettledInSerials, Cursors
  <2>3. QED BY <1>1, <2>1, <2>2 DEF LastOf, Right
<1>12. \A k \in Stored' : Covered(k)'
  BY <1>9, <1>11 DEF Linked, Covered
(* A full fetch lists what is still there, with what happened to it last.   *)
<1>13. ASSUME c = NoCursor, NEW k \in Cursors, k # NoCursor, NEW s, s \in Settled(k)', s \in W
       PROVE  Record(s, c, to).op # "deleted" /\ LastOf(s, 0, k).op # "deleted"
  <2>1. k \in Nat /\ k <= Len(log)
    BY <1>2, <1>13 DEF Cursors
  <2>2. Listed(s)
    BY <1>13 DEF W, Window
  <2>3. s \in Touched(0, k) /\ s \notin Touched(k, Len(log))
    BY <1>11, <1>13 DEF Settled
  <2>4. LastOf(s, 0, Len(log)) = LastOf(s, 0, k)
    BY <1>2, <2>1, <2>3, LastUntouched
  <2>5. QED BY <1>13, <2>2, <2>4 DEF Listed, Record, Op
<1>14. ASSUME NEW k \in Cursors, k # NoCursor, NEW s, s \in Settled(k)', s \in W,
              Record(s, c, to).op # "deleted" <=> LastOf(s, 0, k).op # "deleted"
       PROVE  /\ (sync'[p].recs[s].op # "deleted") = (LastOf(s, 0, k)'.op # "deleted")
              /\ s \in sync'[p].known <=> row'[s].state # "none"
  BY <1>1, <1>3, <1>11, <1>14
<1>15. ASSUME NEW k \in Stored PROVE Due(p, k)'
  <2> SUFFICES ASSUME k # NoCursor, NEW s, s \in Settled(k)', s \in W
               PROVE  Record(s, c, to).op # "deleted" <=> LastOf(s, 0, k).op # "deleted"
    BY <1>3, <1>9, <1>14 DEF Due
  <2>1. k \in Cursors
    BY <1>9
  <2>2. CASE c = NoCursor
    BY <1>13, <2>1, <2>2
  <2>3. CASE c # NoCursor
    <3>1. k <= c
      BY <1>1, <1>9, <2>3 DEF Linked, Order
    <3>2. \E n \in (c + 1)..to : log[n].serial = s
      BY <2>3 DEF W, Window, Touched
    <3>3. s \in Touched(k, Len(log))
      BY <1>2, <1>5, <2>1, <2>3, <3>1, <3>2 DEF Touched, Cursors
    <3>4. s \in Settled(k)
      BY <1>11, <2>1
    <3>5. QED BY <3>3, <3>4 DEF Settled
  <2>4. QED BY <2>2, <2>3
<1>16. ASSUME ok, NEW k, k = Len(log), NEW s, s \in Settled(k)', s \in W
       PROVE  Record(s, c, to).op # "deleted" <=> LastOf(s, 0, k).op # "deleted"
  <2>1. k \in Cursors /\ k # NoCursor /\ k \in Nat
    BY <1>2, <1>16 DEF Cursors, NoCursor
  <2>2. CASE c = NoCursor
    BY <1>13, <1>16, <2>1, <2>2
  <2>3. CASE c # NoCursor
    <3>1. c \in Nat /\ c <= k /\ s \in Touched(c, k)
      BY <1>2, <1>5, <1>16, <2>3 DEF Cursors, W, Window
    <3>2. LastOf(s, 0, k) = LastOf(s, c, k)
      BY <2>1, <3>1, LastInWindow
    <3>3. QED BY <1>16, <2>3, <3>2 DEF Record
  <2>4. QED BY <2>2, <2>3
<1>17. ASSUME ok, NEW k, k = Len(log), NEW s, s \in Settled(k)', s \notin W
       PROVE  Right(s, k)'
  <2>1. k \in Cursors /\ k # NoCursor /\ k \in Nat
    BY <1>2, <1>17 DEF Cursors, NoCursor
  <2>2. /\ s \in Settled(k) /\ s \in Serials /\ s \notin missed'
        /\ Right(s, k)' = Right(s, k)
    BY <1>11, <1>17, <2>1
  <2>3. s \in Touched(0, k) /\ row[s].dep \in BOOLEAN
    BY <2>2 DEF Settled, IInv, Shape, RowOK
  <2>4. CASE c = NoCursor
    <3>1. ~Listed(s)
      BY <1>17, <2>2, <2>4 DEF W, Window
    <3>2. ~row[s].dep
      BY <1>1, <2>2, <2>4, <3>1
    <3>3. LastOf(s, 0, k).op = "deleted"
      BY <1>17, <2>3, <3>1 DEF Listed
    <3>4. QED BY <2>2, <2>3, <3>2, <3>3 DEF Right
  <2>5. CASE c # NoCursor
    <3>1. c \in Nat /\ c <= k /\ s \notin Touched(c, k) /\ c = sync[p].cursor
      BY <1>2, <1>5, <1>17, <2>5 DEF Cursors, W, Window
    <3>2. s \in Touched(0, c)
      BY <2>1, <2>3, <3>1 DEF Touched
    <3>3. s \in Settled(c)
      BY <1>17, <2>2, <3>1, <3>2 DEF Settled
    <3>4. Covered(c)
      BY <1>1, <1>9, <3>1 DEF Linked, Collecting
    <3>5. Right(s, c)
      BY <2>5, <3>3, <3>4 DEF Covered
    <3>6. LastOf(s, 0, k) = LastOf(s, 0, c)
      BY <2>1, <3>1, <3>2, LastUntouched
    <3>7. QED BY <2>2, <3>5, <3>6 DEF Right
  <2>6. QED BY <2>4, <2>5
<1>18. Applying(p)'
  <2>1. \A k \in Stored' : Due(p, k)'
    BY <1>9, <1>15
  <2>2. PICK k : k = k1
    OBVIOUS
  <2>3. ASSUME ok
        PROVE  /\ k # NoCursor /\ Due(p, k)'
               /\ \A s : s \in Settled(k)' /\ s \notin W => Right(s, k)'
    <3>1. k = Len(log) /\ k \in Cursors /\ k # NoCursor
      BY <1>2, <1>5, <2>2, <2>3 DEF k1, NoCursor
    <3>2. Due(p, k)'
      BY <1>3, <1>14, <1>16, <2>3, <3>1 DEF Due
    <3>3. QED BY <1>17, <2>3, <3>1, <3>2
  <2>4. sync'[p].cursor = k
    BY <1>3, <2>2
  <2>5. QED BY <1>3, <2>1, <2>3, <2>4 DEF Applying, Due, Settled, Right
<1>19. \A q \in Syncers : Collecting(q)' /\ Applying(q)'
  BY <1>3, <1>4, <1>18 DEF Collecting, Applying
<1>20. Order'
  <2>1. upload'.pc = "asking" /\ link'.token => upload'.link.cursor <= link'.cursor
    BY <1>1, <1>9 DEF Linked, Order
  <2>2. ok => k1 = Len(log)
    BY DEF k1
  <2>3. \A k \in Stored : k <= Len(log)
    BY <1>2, <1>9 DEF Cursors, NoCursor
  <2>4. QED BY <1>3, <1>4, <1>9, <2>1, <2>2, <2>3 DEF Order
<1>21. QED BY <1>12, <1>19, <1>20 DEF Linked

LEMMA CollectSteps ==
    ASSUME IInv, NEW p \in Syncers, Collect(p) \/ PagingIncomplete(p) \/ CursorRefused(p)
    PROVE  IInv'
<1>1. PICK k, n : k = sync[p].cursor /\ n = Len(log)
  OBVIOUS
<1>2. n \in Nat /\ k \in {NoCursor} \cup 0..n
  BY <1>1, LenIsNat DEF IInv, Shape, SyncOK, Cursors
<1>3. CASE Collect(p)
  <2>1. CollectFrom(p, k, n, TRUE)
    BY <1>1, <1>3 DEF Collect, CollectFrom
  <2>2. (k = NoCursor \/ k <= n) /\ n \in 0..Len(log)
    BY <1>1, <1>2
  <2>3. QED BY <1>1, <2>1, <2>2, CollectStep
<1>4. CASE PagingIncomplete(p)
  <2>1. PICK to \in (IF k = NoCursor THEN {n} ELSE k..n) : CollectFrom(p, k, to, FALSE)
    <3>1. PICK to \in (IF k = NoCursor THEN {Len(log)} ELSE k..Len(log)) :
             CollectFrom(p, sync[p].cursor, to, FALSE)
      BY <1>1, <1>4 DEF PagingIncomplete
    <3>2. CollectFrom(p, k, to, FALSE)
      BY <1>1, <3>1 DEF CollectFrom
    <3>3. QED BY <1>1, <3>1, <3>2
  <2>2. /\ to \in 0..Len(log)
        /\ k = NoCursor \/ k <= to
        /\ k = NoCursor => to = Len(log)
    BY <1>1, <1>2, <2>1
  <2>3. QED BY <1>1, <2>1, <2>2, CollectStep
<1>5. CASE CursorRefused(p)
  <2>1. CollectFrom(p, NoCursor, n, TRUE)
    BY <1>1, <1>5 DEF CursorRefused, CollectFrom
  <2>2. n \in 0..Len(log)
    BY <1>1, <1>2
  <2>3. QED BY <1>1, <2>1, <2>2, CollectStep
<1>6. QED BY <1>3, <1>4, <1>5

(* One record applied: the row now says what every cursor past it says.     *)
LEMMA ApplyStep ==
    ASSUME IInv, NEW p \in Syncers, NEW s \in Serials, ApplyRecord(p, s) PROVE IInv'
<1>1. /\ UNCHANGED <<log, link, upload, missed>> /\ sync[p].pc = "apply" /\ s \in sync[p].todo
      /\ row' = [row EXCEPT ![s] = IF sync[p].recs[s].op = "deleted" THEN Forgotten(@)
                                   ELSE Upserted(p, s)]
      /\ \/ sync' = [sync EXCEPT ![p].todo = @ \ {s}, ![p].created = @ \cup {s}]
         \/ sync' = [sync EXCEPT ![p].todo = @ \ {s}, ![p].created = @]
  BY DEF ApplyRecord
<1>2. RowOK /\ SyncOK /\ LinkOK /\ LogOK /\ Single /\ Cursors' = Cursors
  BY <1>1 DEF IInv, Shape, Cursors
<1>3. /\ DOMAIN sync' = Syncers /\ SyncFields \subseteq DOMAIN sync'[p]
      /\ sync'[p].pc = "apply" /\ sync'[p].ok = sync[p].ok /\ sync'[p].cursor = sync[p].cursor
      /\ sync'[p].todo = sync[p].todo \ {s} /\ sync'[p].recs = sync[p].recs
      /\ sync'[p].known = sync[p].known /\ sync'[p].created \subseteq Serials
      /\ \A q \in Syncers \ {p} : sync'[q] = sync[q]
  BY <1>1, <1>2 DEF SyncOK, SyncFields
<1>4. \A q \in Syncers \ {p} : sync'[q].pc = "idle"
  BY <1>1, <1>2, <1>3 DEF Single
<1>5. /\ DOMAIN row' = Serials /\ \A t \in Serials \ {s} : row'[t] = row[t]
      /\ row'[s] = IF sync[p].recs[s].op = "deleted" THEN Forgotten(row[s]) ELSE Upserted(p, s)
  BY <1>1, <1>2 DEF RowOK
<1>6. ASSUME sync[p].recs[s].op = "deleted"
      PROVE  /\ RowFields \subseteq DOMAIN row'[s] /\ row'[s].dep = FALSE
  BY <1>2, <1>5, <1>6 DEF Forgotten, Absent, RowOK, RowFields
<1>7. \A r, rec : RowFields \subseteq DOMAIN r =>
         /\ RowFields \subseteq DOMAIN Stamped(r, rec) /\ Stamped(r, rec).dep = TRUE
         /\ Stamped(r, rec).state = r.state
  BY DEF Stamped, RowFields
<1>8. ASSUME sync[p].recs[s].op # "deleted"
      PROVE  /\ RowFields \subseteq DOMAIN row'[s] /\ row'[s].dep \in BOOLEAN
             /\ row'[s].state = "none" => ~row'[s].dep
             /\ (s \in sync[p].known <=> row[s].state # "none") => row'[s].dep = TRUE
  <2> DEFINE new == [Absent EXCEPT !.state = "pending"]
  <2>1. RowFields \subseteq DOMAIN new /\ new.state = "pending"
    BY DEF Absent, RowFields
  <2> HIDE DEF new
  <2>2. row'[s] = IF s \in sync[p].known
                  THEN IF row[s].state = "none" THEN row[s] ELSE Stamped(row[s], sync[p].recs[s])
                  ELSE IF row[s].state # "none" THEN row[s]
                       ELSE Stamped(new, sync[p].recs[s])
    BY <1>5, <1>8 DEF Upserted, new
  <2>3. /\ RowFields \subseteq DOMAIN row[s] /\ row[s].dep \in BOOLEAN
        /\ row[s].state = "none" => ~row[s].dep
    BY <1>2 DEF RowOK
  <2>4. CASE row'[s] = row[s] /\ ~(s \in sync[p].known <=> row[s].state # "none")
    BY <2>3, <2>4
  <2>5. CASE row'[s] = Stamped(row[s], sync[p].recs[s]) /\ row[s].state # "none"
    <3>1. /\ RowFields \subseteq DOMAIN row'[s] /\ row'[s].dep = TRUE
          /\ row'[s].state = row[s].state
      BY <1>7, <2>3, <2>5
    <3>2. QED BY <2>5, <3>1
  <2>6. CASE row'[s] = Stamped(new, sync[p].recs[s])
    <3>1. /\ RowFields \subseteq DOMAIN row'[s] /\ row'[s].dep = TRUE
          /\ row'[s].state = "pending"
      BY <1>7, <2>1, <2>6
    <3>2. QED BY <3>1
  <2>7. QED BY <2>2, <2>4, <2>5, <2>6
<1>9. RowOK'
  BY <1>2, <1>5, <1>6, <1>8 DEF RowOK
<1>10. SyncOK' /\ Single'
  BY <1>2, <1>3, <1>4 DEF SyncOK, Single
<1>11. Shape'
  BY <1>1, <1>2, <1>9, <1>10 DEF Shape, LogOK, IsLog, LinkOK
<1> SUFFICES ASSUME link.status # "gone" PROVE Linked'
  BY <1>1, <1>11 DEF IInv
<1>12. Linked /\ Stored' = Stored /\ Stored \subseteq Cursors /\ Applying(p)
  BY <1>1, <1>2 DEF IInv, Linked, Stored, LinkOK
<1>13. \A k, t : Settled(k)' = Settled(k) /\ LastOf(t, 0, k)' = LastOf(t, 0, k)
  BY <1>1 DEF Settled, Touched, LastOf
<1>14. \A k, t : t \in Serials \ {s} => Right(t, k)' = Right(t, k)
  BY <1>5, <1>13 DEF Right
<1>15. ASSUME NEW k, k # NoCursor, Due(p, k), s \in Settled(k) PROVE Right(s, k)'
  BY <1>1, <1>6, <1>8, <1>13, <1>15 DEF Due, Right
<1>16. ASSUME NEW k \in Cursors, k # NoCursor, NEW t, t \in Settled(k) PROVE t \in Serials
  BY <1>2, <1>16, LenIsNat, SettledAreSerials DEF SettledInSerials, Cursors
<1>17. ASSUME NEW k \in Cursors, Due(p, k) PROVE Due(p, k)'
  BY <1>3, <1>5, <1>13, <1>16, <1>17 DEF Due
<1>18. ASSUME NEW k \in Stored PROVE Covered(k)'
  <2>1. Due(p, k) /\ Covered(k) /\ k \in Cursors
    BY <1>1, <1>12 DEF Linked, Applying
  <2>2. QED BY <1>13, <1>14, <1>15, <1>16, <2>1 DEF Covered
<1>19. Applying(p)'
  <2>1. \A k \in Stored' : Due(p, k)'
    BY <1>1, <1>12, <1>17 DEF Applying
  <2>2. PICK k : k = sync[p].cursor
    OBVIOUS
  <2>3. k \in Cursors /\ sync'[p].cursor = k
    BY <1>2, <1>3, <2>2 DEF SyncOK
  <2>4. ASSUME sync[p].ok
        PROVE  /\ k # NoCursor /\ Due(p, k)'
               /\ \A t : t \in Settled(k)' /\ t \notin sync'[p].todo => Right(t, k)'
    <3>1. k # NoCursor /\ Due(p, k)
      BY <1>1, <1>12, <2>2, <2>4 DEF Applying
    <3>2. \A t \in Settled(k) : t \notin sync[p].todo => Right(t, k)
      BY <1>1, <1>12, <2>2, <2>4 DEF Applying
    <3>3. QED BY <1>3, <1>13, <1>14, <1>15, <1>16, <1>17, <2>3, <3>1, <3>2
  <2>5. QED BY <1>3, <2>1, <2>3, <2>4 DEF Applying, Due, Settled, Right
<1>20. \A q \in Syncers : Collecting(q)' /\ Applying(q)'
  BY <1>3, <1>4, <1>19 DEF Collecting, Applying
<1>21. Order'
  BY <1>1, <1>3, <1>4, <1>12 DEF Linked, Order
<1>22. QED BY <1>12, <1>18, <1>20, <1>21 DEF Linked

(* The cursor is stored once nothing is left to apply.                      *)
LEMMA FinishStep ==
    ASSUME IInv, NEW p \in Syncers, FinishSync(p) PROVE IInv'
<1>1. /\ UNCHANGED <<log, row, upload, missed>> /\ sync[p].pc = "apply" /\ sync[p].todo = {}
      /\ link' = IF sync[p].ok /\ link.status # "gone" THEN [link EXCEPT !.cursor = sync[p].cursor]
                 ELSE link
      /\ sync' = [sync EXCEPT ![p] = NotSyncing]
  BY DEF FinishSync
<1>2. SyncOK /\ LinkOK /\ Single /\ Cursors' = Cursors
  BY <1>1 DEF IInv, Shape, Cursors
<1>3. \A q \in Syncers : sync'[q].pc = "idle"
  BY <1>1, <1>2 DEF SyncOK, Single, NotSyncing
<1>4. SyncOK'
  BY <1>1, <1>2 DEF SyncOK, NotSyncing, SyncFields, Cursors
<1>5. CASE link' = link
  <2>1. LinkOK' /\ Stored' \subseteq Stored
    BY <1>1, <1>2, <1>5 DEF LinkOK, Stored
  <2>2. link.status # "gone" /\ upload'.pc = "asking" /\ link'.token
          => upload'.link.cursor <= link'.cursor
    BY <1>1, <1>5 DEF IInv, Linked, Order
  <2>3. QED BY <1>1, <1>3, <1>4, <1>5, <2>1, <2>2, CalmStep
<1>6. CASE sync[p].ok /\ link.status # "gone" /\ link' = [link EXCEPT !.cursor = sync[p].cursor]
  <2>1. LinkOK' /\ link'.cursor = sync[p].cursor /\ link'.status = link.status
    BY <1>1, <1>2, <1>6 DEF LinkOK, LinkFields, SyncOK
  <2>2. Single'
    BY <1>3 DEF Single
  <2>3. Shape'
    BY <1>1, <1>2, <1>4, <2>1, <2>2 DEF IInv, Shape, LogOK, IsLog, RowOK
  <2>4. Linked
    BY <1>6 DEF IInv
  <2>5. Stored' \subseteq {sync[p].cursor} \cup Stored
    BY <1>1, <2>1 DEF Stored
  <2>6. \A k : Covered(k)' = Covered(k)
    BY <1>1 DEF Covered, Settled, Touched, Right, LastOf
  <2>7. Covered(sync[p].cursor)
    BY <1>1, <1>6, <2>4 DEF Linked, Applying, Covered
  <2>8. \A k \in Stored' : Covered(k)'
    BY <2>4, <2>5, <2>6, <2>7 DEF Linked
  <2>9. upload'.pc = "asking" => upload'.link.cursor <= link'.cursor
    BY <1>1, <1>6, <2>1, <2>4 DEF Linked, Order, Stored
  <2>10. Linked'
    BY <1>3, <2>8, <2>9 DEF Linked, Order, Collecting, Applying
  <2>11. QED BY <2>3, <2>10 DEF IInv
<1>7. QED BY <1>1, <1>5, <1>6

----------------------------------------------------------------------------
LEMMA Inductive ==
    ASSUME "sync" \notin Overlaps, "enroll" \notin Overlaps, IInv, [Next]_vars PROVE IInv'
<1>1. CASE UNCHANGED vars
  BY <1>1, OtherSteps
<1>2. CASE Next
  <2>1. ASSUME NEW p \in Syncers,
               \/ BeginSync(p) \/ Collect(p) \/ PagingIncomplete(p) \/ CursorRefused(p)
               \/ SyncFails(p) \/ (\E s \in Serials : ApplyRecord(p, s))
               \/ AssignDefault(p) \/ FinishSync(p)
        PROVE  IInv'
    BY <2>1, BeginSyncStep, CollectSteps, OtherSteps, ApplyStep, AssignDefaultStep, FinishStep
  <2>2. ASSUME NEW p \in Syncers,
               \/ BeginPush(p) \/ DefineAtApple(p) \/ SaveMapping(p)
               \/ \E reached \in BOOLEAN : DefineFails(p, reached)
        PROVE  IInv'
    BY <2>2, OtherSteps
  <2>3. QED BY <1>2, <2>1, <2>2, GrowSteps, LinkSteps, RemoveStep, OtherSteps DEF Next
<1>3. QED BY <1>1, <1>2

LEMMA Initially == Init => IInv
<1> SUFFICES ASSUME Init PROVE IInv
  OBVIOUS
<1>1. Len(log) = 0 /\ log = <<>> /\ log \in Seq({})
  BY DEF Init
<1>2. LogOK /\ RowOK /\ Cursors = {NoCursor, 0}
  <2>1. IsLog
    BY <1>1 DEF IsLog
  <2>2. LogOK /\ Cursors = {NoCursor, 0}
    BY <1>1, <2>1 DEF LogOK, Cursors
  <2>3. RowOK
    BY DEF Init, RowOK, RowFields, Absent
  <2>4. QED BY <2>2, <2>3
<1>3. SyncOK /\ Single /\ \A p \in Syncers : sync[p].pc = "idle"
  BY <1>2 DEF Init, SyncOK, Single, SyncFields, NotSyncing
<1>4. LinkOK /\ Stored = {0} /\ upload.pc = "idle"
  BY <1>2 DEF Init, LinkOK, LinkFields, Stored
<1>5. Covered(0)
  BY DEF Covered, Settled, Touched
<1>6. QED BY <1>2, <1>3, <1>4, <1>5
          DEF IInv, Shape, Linked, Order, Collecting, Applying

(* What the stored cursor has passed has been applied, for any number of    *)
(* devices, edits, crashes, lost replies and token uploads, as long as one  *)
(* sync runs at a time and no device enrolls while one applies what it read *)
(* (sync_devices, _finish_sync).                                            *)
THEOREM CursorAlwaysCovers ==
    ASSUME "sync" \notin Overlaps, "enroll" \notin Overlaps
    PROVE  Spec => []CursorCovers
<1>1. IInv => CursorCovers
  BY DEF IInv, Linked, Covered, Settled, Right, Stored, CursorCovers
<1>2. Init => IInv
  BY Initially
<1>3. IInv /\ [Next]_vars => IInv'
  BY Inductive
<1>4. QED BY <1>1, <1>2, <1>3, PTL DEF Spec
=============================================================================
