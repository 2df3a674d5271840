---------------------------- MODULE AlertsProofs ----------------------------
(* Proofs about Alerts, for any rules, tags, approvals, grace times and     *)
(* bounds, while no approval overlaps an evaluation of the same device.     *)
EXTENDS Alerts, TLAPS, WellFoundedInduction, FiniteSetTheorems

Apart == {"pass", "approve"} \notin Overlaps

----------------------------------------------------------------------------
(* The shapes.                                                              *)
AllTags == UNION {TagsOf[r] : r \in Rules}
Stamps == Nat \cup {Never}
Verdicts == {"violated", "compliant", "out"}
Severities == {"authored", "raised"}
Details ==
    [tags : SUBSET AllTags, attempts : Nat, last : Stamps, failed : BOOLEAN,
     pending : Nat, declined : BOOLEAN, approved : Nat, told : Severities \cup {"no"}]
AlertRows ==
    [rule : Rules, status : {"pending", "open", "resolved"}, since : Nat,
     resolvedAt : Stamps, severity : Severities, ver : Nat, detail : Details]
Passes ==
    [pc : {"idle", "rule", "sending"}, todo : SUBSET Rules, pairs : SUBSET Rules,
     verdict : [Rules -> Verdicts] \cup {<<>>}, armed : BOOLEAN, id : 0 .. MaxAlerts,
     detail : Details]
Approvals ==
    [pc : {"idle", "claim", "write", "send", "record"}, id : 0 .. MaxAlerts,
     req : Nat, ver : Nat, detail : Details]

RowsOK == alert \in [Ids -> AlertRows \cup {NoRow}]
PassOK == pass \in Passes /\ verdict \in [Rules -> Verdicts] /\ live \subseteq Rules
             /\ armed \in BOOLEAN
ApprovalsOK == approver \in [Approvers -> Approvals]
HistoryOK ==
    /\ clock \in Nat /\ requests \in 0 .. MaxRequests
    /\ sent \in [1 .. MaxRequests -> Nat]
    /\ lastFire \in [Rules -> Stamps] /\ quietAt \in [Rules -> Stamps]
    /\ burst \in [Rules -> Nat]
TypeOK == RowsOK /\ PassOK /\ ApprovalsOK /\ HistoryOK

----------------------------------------------------------------------------
(* The inductive invariant. Rows are created in order; a rule's latest row  *)
(* is the only one that may be active. A pass has the device to itself, but *)
(* for refusals and for what touches an alert without its detail.           *)
Working == pass.pc = "sending"
InOrder == \E n \in 0 .. MaxAlerts : Rows(alert) = 1 .. n
Placed ==
    /\ Working => pass.id \in Rows(alert)
    /\ \A a \in Approvers : approver[a].pc # "idle" =>
          pass.pc = "idle" /\ approver[a].id \in Rows(alert)
Succession ==
    \A i, j \in Rows(alert) : alert[i].rule = alert[j].rule /\ i < j
                                 => alert[i].status = "resolved"
Order == InOrder /\ Placed /\ Succession

Latest(A, r, i) ==
    i \in Rows(A) /\ A[i].rule = r /\ \A j \in Rows(A) : A[j].rule = r => j <= i

(* The copy that a claim writes back is still the row's, wherever a pass    *)
(* counts, as long as the row is the one that was read.                     *)
Copied(d, e) == d.tags = e.tags /\ d.attempts = e.attempts /\ d.last = e.last
Claims ==
    \A a \in Approvers : approver[a].pc = "write" =>
        LET me == approver[a]
            now == alert[me.id]
        IN  me.ver <= now.ver /\ (me.ver = now.ver => Copied(me.detail, now.detail))

(* A remediation under way is one that may run, and nothing happens to its  *)
(* alert's counters meanwhile.                                              *)
Firing ==
    Working =>
        LET now == alert[pass.id]
        IN  /\ Latest(alert, now.rule, pass.id)
            /\ pass.detail.attempts = now.detail.attempts /\ pass.detail.last = now.detail.last
            /\ pass.detail.attempts < MaxAttempts
            /\ lastFire[now.rule] = Never \/ clock - lastFire[now.rule] >= Cooldown
            /\ now.status = "resolved" => now.resolvedAt = clock

(* A rule's runs are on its latest alert's count, and its last run is that  *)
(* alert's last, or long ago.                                               *)
Counted(r) ==
    /\ burst[r] <= MaxAttempts
    /\ (\A i \in Rows(alert) : alert[i].rule # r) => burst[r] = 0
    /\ \A i \in Ids : Latest(alert, r, i) =>
          /\ burst[r] <= alert[i].detail.attempts
          /\ alert[i].status = "resolved" => quietAt[r] = alert[i].resolvedAt
Spaced(r) ==
    /\ lastFire[r] <= clock
    /\ (\A i \in Rows(alert) : alert[i].rule # r) => lastFire[r] = Never
    /\ \A i \in Ids : Latest(alert, r, i) =>
          /\ alert[i].detail.last = lastFire[r] \/ clock - lastFire[r] >= Cooldown
          /\ alert[i].status = "resolved" => lastFire[r] <= alert[i].resolvedAt
Budgets == \A r \in Rules : Counted(r) /\ Spaced(r)

IInv == TypeOK /\ Order /\ Claims /\ Firing /\ Budgets

----------------------------------------------------------------------------
(* Rows and their places.                                                   *)
LEMMA Null == NoRow \notin AlertRows /\ \A A : Rows(A) \subseteq Ids
BY AlertsAssumption DEF NoRow, AlertRows, Rows

LEMMA RowIs ==
    ASSUME NEW A \in [Ids -> AlertRows \cup {NoRow}]
    PROVE  /\ \A i \in Ids : i \in Rows(A) <=> A[i] \in AlertRows
           /\ \A i \in Rows(A) : i \in Ids /\ A[i] \in AlertRows
BY Null DEF Rows

LEMMA RowHas ==
    ASSUME NEW row \in AlertRows
    PROVE  /\ row.rule \in Rules /\ row.status \in {"pending", "open", "resolved"}
           /\ row.resolvedAt \in Stamps /\ row.ver \in Nat /\ row.detail \in Details
BY DEF AlertRows

LEMMA DetailHas ==
    ASSUME NEW d \in Details
    PROVE  /\ d.tags \subseteq AllTags /\ d.attempts \in Nat /\ d.last \in Stamps
           /\ d.pending \in Nat /\ d.declined \in BOOLEAN /\ d.approved \in Nat
           /\ d.failed \in BOOLEAN /\ d.told \in Severities \cup {"no"}
           /\ d = [tags |-> d.tags, attempts |-> d.attempts, last |-> d.last,
                   failed |-> d.failed, pending |-> d.pending, declined |-> d.declined,
                   approved |-> d.approved, told |-> d.told]
BY DEF Details

LEMMA DetailOf ==
    ASSUME NEW t \in SUBSET AllTags, NEW n \in Nat, NEW l \in Stamps, NEW b \in BOOLEAN,
           NEW p \in Nat, NEW c \in BOOLEAN, NEW v \in Nat, NEW s \in Severities \cup {"no"}
    PROVE  [tags |-> t, attempts |-> n, last |-> l, failed |-> b, pending |-> p,
            declined |-> c, approved |-> v, told |-> s] \in Details
BY DEF Details

LEMMA Blank == NoDetail \in Details /\ IdlePass \in Passes /\ IdleApprover \in Approvals
                  /\ NoDetail.attempts = 0 /\ NoDetail.last = Never /\ NoDetail.tags = {}
                  /\ NoDetail.pending = 0 /\ ~NoDetail.declined
                  /\ IdlePass.pc = "idle" /\ IdleApprover.pc = "idle"
BY AlertsAssumption DEF NoDetail, IdlePass, IdleApprover, Details, Passes, Approvals, Stamps, Never, Severities

(* A step that changes one row.                                             *)
LEMMA OneRow ==
    ASSUME RowsOK, NEW i \in Ids, NEW new \in AlertRows, alert' = [alert EXCEPT ![i] = new]
    PROVE  /\ RowsOK' /\ alert'[i] = new /\ \A j \in Ids \ {i} : alert'[j] = alert[j]
           /\ Rows(alert') = Rows(alert) \cup {i}
<1>1. RowsOK' /\ alert'[i] = new /\ \A j \in Ids \ {i} : alert'[j] = alert[j]
  BY DEF RowsOK
<1>2. QED BY <1>1, Null DEF Rows

(* The largest of some rows, which is how the code finds the latest.        *)
LEMMA Least ==
    ASSUME NEW B \in SUBSET Nat, B # {} PROVE \E b \in B : \A c \in B : b <= c
<1> DEFINE R == OpToRel(<, Nat)
<1>1. IsWellFoundedOn(R, Nat)
  BY NatLessThanWellFounded
<1>2. \A x, y \in Nat : x < y => <<x, y>> \in R
  BY DEF OpToRel
<1> HIDE DEF R
<1>3. PICK b \in B : \A c \in B : ~(<<c, b>> \in R)
  BY <1>1, WFMin
<1>4. ASSUME NEW c \in B PROVE b <= c
  <2>1. b \in Nat /\ c \in Nat /\ ~(c < b)
    BY <1>2, <1>3
  <2>2. QED BY <2>1
<1>5. QED BY <1>4

LEMMA MinOf ==
    ASSUME NEW B \in SUBSET Nat, B # {} PROVE Min(B) \in B /\ \A c \in B : Min(B) <= c
BY Least DEF Min

LEMMA MaxOf ==
    ASSUME NEW B \in SUBSET Ids, B # {} PROVE Max(B) \in B /\ \A c \in B : c <= Max(B)
<1> DEFINE C == {MaxAlerts - b : b \in B}
<1>1. /\ \A b \in B : b \in Nat /\ MaxAlerts - b \in Nat /\ MaxAlerts - b \in C
      /\ \E c : c \in C
  <2>1. MaxAlerts \in Nat
    BY AlertsAssumption
  <2>2. \A b \in B : b \in Nat /\ MaxAlerts - b \in Nat /\ MaxAlerts - b \in C
    BY <2>1 DEF Ids
  <2>3. QED BY <2>2
<1>2. PICK m \in C : \A c \in C : m <= c
  <2>1. C \in SUBSET Nat
    BY <1>1
  <2> HIDE DEF C
  <2>2. QED BY <1>1, <2>1, Least
<1>3. PICK b \in B : m = MaxAlerts - b
  OBVIOUS
<1>4. ASSUME NEW c \in B PROVE b >= c
  <2>1. MaxAlerts - b <= MaxAlerts - c
    BY <1>1, <1>2, <1>3
  <2>2. b \in Nat /\ c \in Nat /\ MaxAlerts \in Nat
    BY <1>1, AlertsAssumption
  <2>3. QED BY <2>1, <2>2
<1>5. PICK x \in B : \A y \in B : x >= y
  BY <1>4
<1>6. QED BY <1>5, <1>1 DEF Max

(* A rule with rows has a latest one; an active one is it.                  *)
LEMMA ActiveIsLatest ==
    ASSUME TypeOK, Order, NEW r \in Rules, NEW i \in ActiveOf(alert, r)
    PROVE  Latest(alert, r, i) /\ alert[i].status # "resolved"
<1>1. i \in Rows(alert) /\ alert[i].rule = r /\ alert[i].status # "resolved"
  BY DEF ActiveOf, Active
<1>2. ASSUME NEW j \in Rows(alert), alert[j].rule = r PROVE j <= i
  <2>1. i \in Int /\ j \in Int
    BY <1>1, Null DEF Ids
  <2>2. ~(i < j)
    BY <1>1, <1>2 DEF Order, Succession
  <2>3. QED BY <2>1, <2>2
<1>3. QED BY <1>1, <1>2 DEF Latest

LEMMA LatestIsOne ==
    ASSUME NEW A, NEW r, NEW i, NEW j, Latest(A, r, i), Latest(A, r, j) PROVE i = j
<1>1. i \in Int /\ j \in Int
  BY Null DEF Latest, Ids
<1>2. i <= j /\ j <= i
  BY DEF Latest
<1>3. QED BY <1>1, <1>2

----------------------------------------------------------------------------
(* What the actions do to the rows.                                         *)
LEMMA Resolves ==
    ASSUME TypeOK, NEW ids, ids \subseteq Active(alert), Resolve(ids)
    PROVE  /\ RowsOK' /\ Rows(alert') = Rows(alert)
           /\ \A i \in Rows(alert) :
                /\ alert'[i].rule = alert[i].rule /\ alert'[i].ver = alert[i].ver
                /\ alert'[i].detail = alert[i].detail
                /\ i \in ids => alert'[i].status = "resolved" /\ alert'[i].resolvedAt = clock
                /\ i \notin ids => alert'[i] = alert[i]
           /\ quietAt' \in [Rules -> Stamps]
           /\ \A i \in ids : alert[i].rule \in Rules /\ quietAt'[alert[i].rule] = clock
           /\ \A r \in Rules : (\A i \in ids : alert[i].rule # r) => quietAt'[r] = quietAt[r]
<1>1. /\ alert \in [Ids -> AlertRows \cup {NoRow}] /\ clock \in Nat
      /\ quietAt \in [Rules -> Stamps]
  BY DEF TypeOK, RowsOK, HistoryOK
<1>2. \A i \in ids : i \in Rows(alert)
  BY DEF Active
<1>3. alert' = [i \in Ids |-> IF i \in ids
                              THEN [alert[i] EXCEPT !.status = "resolved", !.resolvedAt = clock]
                              ELSE alert[i]]
  BY DEF Resolve
<1>4. ASSUME NEW i \in ids
      PROVE  /\ alert'[i] \in AlertRows /\ alert'[i].rule = alert[i].rule
             /\ alert'[i].ver = alert[i].ver /\ alert'[i].detail = alert[i].detail
             /\ alert'[i].status = "resolved" /\ alert'[i].resolvedAt = clock
  <2>1. i \in Ids /\ alert[i] \in AlertRows
    BY <1>1, <1>2, RowIs
  <2>2. alert'[i] = [alert[i] EXCEPT !.status = "resolved", !.resolvedAt = clock]
    BY <1>3, <2>1
  <2>3. clock \in Stamps
    BY <1>1 DEF Stamps
  <2>4. QED BY <2>1, <2>2, <2>3 DEF AlertRows
<1>5. RowsOK'
  BY <1>1, <1>3, <1>4 DEF RowsOK
<1>6. \A i \in Ids : i \in Rows(alert') <=> i \in Rows(alert)
  BY <1>1, <1>2, <1>3, <1>4, Null DEF Rows
<1>7. Rows(alert') = Rows(alert)
  BY <1>6, Null
<1>8. \A i \in Rows(alert) \ ids : alert'[i] = alert[i]
  BY <1>3, Null
<1>9. quietAt' = [r \in Rules |-> IF \E i \in ids : alert[i].rule = r THEN clock ELSE quietAt[r]]
  BY DEF Resolve
<1>10. /\ quietAt' \in [Rules -> Stamps]
       /\ \A i \in ids : alert[i].rule \in Rules /\ quietAt'[alert[i].rule] = clock
  BY <1>1, <1>2, <1>9, RowIs, RowHas DEF Stamps
<1>11. QED BY <1>4, <1>5, <1>7, <1>8, <1>9, <1>10

(* A new alert takes over its predecessor's counters, or that one is long   *)
(* resolved, or there was none.                                             *)
LongOver(r) == \A i \in Ids : Latest(alert, r, i) => clock - alert[i].resolvedAt > Cooldown
TakenOver(r, d) ==
    \E i \in Ids : /\ Latest(alert, r, i) /\ alert[i].status = "resolved"
                   /\ ~(clock - alert[i].resolvedAt > Cooldown)
                   /\ d.attempts = alert[i].detail.attempts /\ d.last = alert[i].detail.last

LEMMA CarriedIs ==
    ASSUME TypeOK, Order, NEW r \in Rules, ActiveOf(alert, r) = {}
    PROVE  /\ Carried(r) \in Details /\ Carried(r).tags = {}
           /\ Carried(r).pending = 0 /\ ~Carried(r).declined
           /\ \/ Carried(r).attempts = 0 /\ Carried(r).last = Never /\ LongOver(r)
              \/ TakenOver(r, Carried(r))
<1> DEFINE resolved == {i \in Rows(alert) : alert[i].rule = r /\ alert[i].status = "resolved"}
           latest == Max(resolved)
<1>1. \A i \in Rows(alert) : i \in Ids /\ alert[i] \in AlertRows
  BY RowIs DEF TypeOK, RowsOK
<1>2. \A i \in Rows(alert) : alert[i].rule = r => i \in resolved
  BY DEF ActiveOf, Active
<1>3. CASE resolved = {}
  <2>1. Carried(r) = NoDetail
    BY <1>3 DEF Carried
  <2>2. LongOver(r)
    BY <1>2, <1>3 DEF LongOver, Latest
  <2>3. QED BY <2>1, <2>2, Blank
<1>4. CASE resolved # {}
  <2>1. resolved \subseteq Ids
    BY <1>1
  <2>2. latest \in resolved /\ \A c \in resolved : c <= latest
    <3> HIDE DEF resolved
    <3>1. QED BY <1>4, <2>1, MaxOf
  <2>3. Latest(alert, r, latest) /\ latest \in Ids /\ alert[latest].status = "resolved"
    <3> HIDE DEF latest
    <3>1. QED BY <1>1, <1>2, <2>2 DEF Latest
  <2>4. CASE clock - alert[latest].resolvedAt > Cooldown
    <3>1. Carried(r) = NoDetail
      BY <2>4 DEF Carried
    <3>2. LongOver(r)
      <4> HIDE DEF latest
      <4>1. QED BY <2>3, <2>4, LatestIsOne DEF LongOver
    <3>3. QED BY <3>1, <3>2, Blank
  <2>5. CASE ~(clock - alert[latest].resolvedAt > Cooldown)
    <3> DEFINE e == alert[latest].detail
    <3>1. Carried(r) = [NoDetail EXCEPT !.attempts = e.attempts, !.last = e.last,
                                        !.failed = e.failed]
      BY <1>4, <2>5 DEF Carried
    <3>2. e \in Details
      <4> HIDE DEF latest
      <4>1. alert[latest] \in AlertRows
        BY <1>1, <2>3 DEF Latest
      <4>2. QED BY <4>1, RowHas
    <3> HIDE DEF e
    <3> DEFINE z == NoDetail
    <3>3. z \in Details /\ Carried(r) = [z EXCEPT !.attempts = e.attempts, !.last = e.last,
                                                 !.failed = e.failed]
      BY <3>1, Blank
    <3> HIDE DEF z
    <3>4. /\ Carried(r) = [tags |-> z.tags, attempts |-> e.attempts, last |-> e.last,
                           failed |-> e.failed, pending |-> z.pending, declined |-> z.declined,
                           approved |-> z.approved, told |-> z.told]
          /\ Carried(r) \in Details
      <4>1. z = [tags |-> z.tags, attempts |-> z.attempts, last |-> z.last,
                 failed |-> z.failed, pending |-> z.pending, declined |-> z.declined,
                 approved |-> z.approved, told |-> z.told]
        BY <3>3, DetailHas
      <4>2. Carried(r) = [tags |-> z.tags, attempts |-> e.attempts, last |-> e.last,
                          failed |-> e.failed, pending |-> z.pending, declined |-> z.declined,
                          approved |-> z.approved, told |-> z.told]
        BY <3>3, <4>1
      <4>3. /\ z.tags \in SUBSET AllTags /\ z.pending \in Nat /\ z.declined \in BOOLEAN
            /\ z.approved \in Nat /\ z.told \in Severities \cup {"no"}
            /\ e.attempts \in Nat /\ e.last \in Stamps /\ e.failed \in BOOLEAN
        BY <3>2, <3>3, DetailHas
      <4>4. Carried(r) \in Details
        BY <4>2, <4>3, DetailOf
      <4>5. QED BY <4>2, <4>4
    <3>5. /\ Carried(r) \in Details /\ Carried(r).tags = {}
          /\ Carried(r).pending = 0 /\ ~Carried(r).declined
          /\ Carried(r).attempts = e.attempts /\ Carried(r).last = e.last
      BY <3>4, Blank DEF z
    <3>6. TakenOver(r, Carried(r))
      <4> HIDE DEF latest
      <4>1. QED BY <2>3, <2>5, <3>5 DEF TakenOver, e
    <3>7. QED BY <3>5, <3>6
  <2>6. QED BY <2>4, <2>5
<1>5. QED BY <1>3, <1>4

(* The copy of the detail that an open alert's actions work on: tagged, and *)
(* with a request where one is due.                                         *)
Acted(d, f, r) ==
    /\ f \in Details
    /\ f.tags = d.tags \cup TagsOf[r] /\ f.attempts = d.attempts /\ f.last = d.last
    /\ f.declined = d.declined
    /\ \/ f.pending = d.pending /\ requests' = requests
       \/ /\ d.pending = 0 /\ ~d.declined
          /\ f.pending = requests + 1 /\ requests' = requests + 1

(* The alert a violated rule is about: its active one, or a new row.        *)
About(r, i, old) ==
    \/ /\ ActiveOf(alert, r) = {} /\ old = NewRow(r)
       /\ alert[i] = NoRow /\ Rows(alert) = 1 .. (i - 1)
    \/ i \in ActiveOf(alert, r) /\ old = alert[i]

Touched(i, old, new, r) ==
    /\ alert' = [alert EXCEPT ![i] = new]
    /\ new.rule = r /\ new.status # "resolved" /\ new.ver = old.ver

(* The three ways it goes: still in its grace period, with a remediation to *)
(* send, or noted at once.                                                  *)
Waits(i, old, new, r) ==
    /\ Touched(i, old, new, r) /\ new.detail = old.detail
    /\ pass' = Done(r, pass) /\ tags' = tags /\ requests' = requests
Launches(i, old, new, f, r) ==
    /\ Touched(i, old, new, r) /\ new.detail = old.detail
    /\ Acted(old.detail, f, r) /\ Fires(r, old.detail)
    /\ pass' = [pass EXCEPT !.pc = "sending", !.id = i, !.detail = f]
    /\ tags' = tags \cup TagsOf[r]
Notes(i, old, new, f, r) ==
    /\ Touched(i, old, new, r) /\ new.detail = WithFreshVetoes(old.detail, f)
    /\ Acted(old.detail, f, r)
    /\ pass' = Done(r, pass) /\ tags' = tags \cup TagsOf[r]

LEMMA AboutIs ==
    ASSUME TypeOK, Order, NEW r \in Rules, NEW i, NEW old,
           i = IF ActiveOf(alert, r) = {} THEN Cardinality(Rows(alert)) + 1
               ELSE Min(ActiveOf(alert, r)),
           old = IF ActiveOf(alert, r) = {} THEN NewRow(r) ELSE alert[i],
           i \in Ids
    PROVE  About(r, i, old) /\ old \in AlertRows /\ old.rule = r /\ old.status # "resolved"
<1>1. \A j \in Rows(alert) : j \in Ids /\ alert[j] \in AlertRows
  BY RowIs DEF TypeOK, RowsOK
<1>2. CASE ActiveOf(alert, r) = {}
  <2>1. PICK n \in 0 .. MaxAlerts : Rows(alert) = 1 .. n
    BY DEF Order, InOrder
  <2>2. n \in Nat /\ Cardinality(1 .. n) = n
    BY FS_Interval, AlertsAssumption
  <2>3. i = n + 1 /\ Rows(alert) = 1 .. (i - 1) /\ i \notin Rows(alert)
    BY <1>2, <2>1, <2>2
  <2>4. alert[i] = NoRow
    BY <2>3 DEF Rows
  <2>5. old = NewRow(r)
    BY <1>2
  <2>6. clock \in Nat /\ Carried(r) \in Details
    BY <1>2, CarriedIs DEF TypeOK, HistoryOK
  <2>7. NewRow(r) \in AlertRows /\ NewRow(r).rule = r /\ NewRow(r).status = "pending"
    BY <2>6 DEF NewRow, AlertRows, Stamps, Never, Severities
  <2>8. QED BY <1>2, <2>3, <2>4, <2>5, <2>7 DEF About
<1>3. CASE ActiveOf(alert, r) # {}
  <2>1. ActiveOf(alert, r) \in SUBSET Nat
    BY <1>1 DEF ActiveOf, Active, Ids
  <2>2. i \in ActiveOf(alert, r)
    BY <1>3, <2>1, MinOf
  <2>3. old = alert[i]
    BY <1>3
  <2>4. QED BY <1>1, <2>2, <2>3 DEF About, ActiveOf, Active
<1>4. QED BY <1>2, <1>3

LEMMA FreshVetoes ==
    ASSUME NEW d \in Details, NEW f \in Details
    PROVE  LET g == WithFreshVetoes(d, f)
           IN  /\ g \in Details /\ Copied(f, g)
               /\ g.pending \in {0, f.pending}
               /\ g.pending # 0 => ~d.declined
               /\ g.declined = (f.declined \/ d.declined)
BY DEF WithFreshVetoes, Details, Copied

LEMMA Violates ==
    ASSUME TypeOK, Order, NEW r \in Rules, ViolatedRule(r)
    PROVE  \E i \in Ids : \E old, new \in AlertRows, f \in Details :
              /\ About(r, i, old) /\ old.rule = r /\ old.status # "resolved"
              /\ \/ Waits(i, old, new, r)
                 \/ Launches(i, old, new, f, r)
                 \/ Notes(i, old, new, f, r)
<1> DEFINE fresh == ActiveOf(alert, r) = {}
           i == IF fresh THEN Cardinality(Rows(alert)) + 1 ELSE Min(ActiveOf(alert, r))
           row == IF fresh THEN NewRow(r) ELSE alert[i]
           opens == row.status # "pending" \/ clock - row.since >= Grace[r]
           d == row.detail
           asks == AsksApproval(r, d)
           severity == IF Escalates(r, d) THEN "raised" ELSE row.severity
           fired == [d EXCEPT !.tags = @ \cup TagsOf[r],
                              !.pending = IF asks THEN requests + 1 ELSE @,
                              !.failed = @ \/ Halts(r, d),
                              !.told = severity]
           opened == [row EXCEPT !.status = IF @ = "pending" THEN "open" ELSE @,
                                 !.severity = severity]
           noted == [opened EXCEPT !.detail = WithFreshVetoes(d, fired)]
<1>1. /\ i \in Ids
      /\ ~opens => alert' = [alert EXCEPT ![i] = row] /\ pass' = Done(r, pass)
                     /\ UNCHANGED <<tags, requests>>
      /\ opens => /\ tags' = tags \cup TagsOf[r]
                  /\ requests' = IF asks THEN requests + 1 ELSE requests
      /\ opens /\ Fires(r, d) => /\ alert' = [alert EXCEPT ![i] = opened]
                                 /\ pass' = [pass EXCEPT !.pc = "sending", !.id = i, !.detail = fired]
      /\ opens /\ ~Fires(r, d) => alert' = [alert EXCEPT ![i] = noted] /\ pass' = Done(r, pass)
  BY DEF ViolatedRule
<1>2. /\ About(r, i, row) /\ row \in AlertRows /\ row.rule = r /\ row.status # "resolved"
  <2> HIDE DEF i, row
  <2>1. /\ i = IF ActiveOf(alert, r) = {} THEN Cardinality(Rows(alert)) + 1
               ELSE Min(ActiveOf(alert, r))
        /\ row = IF ActiveOf(alert, r) = {} THEN NewRow(r) ELSE alert[i]
    BY DEF i, row
  <2>2. QED BY <1>1, <2>1, AboutIs
<1> HIDE DEF i, row, opens
<1>3. d \in Details
  BY <1>2, RowHas
<1>4. severity \in Severities /\ asks \in BOOLEAN /\ requests \in Nat
  BY <1>2 DEF Severities, AlertRows, AsksApproval, TypeOK, HistoryOK
<1>5. asks => d.pending = 0 /\ ~d.declined
  BY DEF AsksApproval
<1>6. TagsOf[r] \subseteq AllTags
  BY DEF AllTags
<1> HIDE DEF asks, severity
<1>7. fired \in Details /\ fired.tags = d.tags \cup TagsOf[r] /\ fired.attempts = d.attempts
        /\ fired.last = d.last /\ fired.declined = d.declined
        /\ fired.pending = IF asks THEN requests + 1 ELSE d.pending
  <2>1. (d.failed \/ Halts(r, d)) \in BOOLEAN
    BY <1>3 DEF Details
  <2> DEFINE halted == d.failed \/ Halts(r, d)
  <2>2. halted \in BOOLEAN
    BY <2>1
  <2>3. fired = [d EXCEPT !.tags = @ \cup TagsOf[r],
                          !.pending = IF asks THEN requests + 1 ELSE @,
                          !.failed = halted, !.told = severity]
    OBVIOUS
  <2> DEFINE asked == IF asks THEN requests + 1 ELSE d.pending
  <2> HIDE DEF halted, d
  <2>4. fired = [tags |-> d.tags \cup TagsOf[r], attempts |-> d.attempts, last |-> d.last,
                 failed |-> halted, pending |-> asked,
                 declined |-> d.declined, approved |-> d.approved, told |-> severity]
    <3>1. d = [tags |-> d.tags, attempts |-> d.attempts, last |-> d.last,
               failed |-> d.failed, pending |-> d.pending, declined |-> d.declined,
               approved |-> d.approved, told |-> d.told]
      BY <1>3, DetailHas
    <3>2. asked = IF asks THEN requests + 1 ELSE d.pending
      OBVIOUS
    <3> HIDE DEF asked, fired
    <3>3. QED BY <2>3, <3>1, <3>2
  <2>5. asked \in Nat /\ d.tags \cup TagsOf[r] \in SUBSET AllTags
    BY <1>3, <1>4, <1>6, DetailHas
  <2> HIDE DEF asked
  <2>6. fired \in Details
    BY <1>3, <1>4, <2>2, <2>4, <2>5, DetailHas, DetailOf
  <2> HIDE DEF fired
  <2>7. QED BY <2>4, <2>6 DEF asked
<1>8. opens => Acted(d, fired, r)
  <2> HIDE DEF d, fired
  <2>1. QED BY <1>1, <1>3, <1>5, <1>7 DEF Acted
<1> HIDE DEF fired
<1>9. /\ opened \in AlertRows /\ opened.rule = r /\ opened.status # "resolved"
      /\ opened.ver = row.ver /\ opened.detail = d
  BY <1>2, <1>4 DEF AlertRows
<1> HIDE DEF opened
<1>10. /\ noted \in AlertRows /\ noted.rule = r /\ noted.status # "resolved"
       /\ noted.ver = row.ver /\ noted.detail = WithFreshVetoes(d, fired)
  <2>1. WithFreshVetoes(d, fired) \in Details
    BY <1>3, <1>7, FreshVetoes
  <2>2. QED BY <1>9, <2>1 DEF AlertRows
<1> HIDE DEF noted
<1>11. CASE ~opens
  <2>1. Waits(i, row, row, r)
    BY <1>1, <1>2, <1>11 DEF Waits, Touched
  <2>2. QED BY <1>1, <1>2, <1>7, <2>1
<1>12. CASE opens /\ Fires(r, d)
  <2>1. Launches(i, row, opened, fired, r)
    BY <1>1, <1>8, <1>9, <1>12 DEF Launches, Touched
  <2>2. QED BY <1>1, <1>2, <1>7, <1>9, <2>1
<1>13. CASE opens /\ ~Fires(r, d)
  <2>1. Notes(i, row, noted, fired, r)
    BY <1>1, <1>8, <1>10, <1>13 DEF Notes, Touched
  <2>2. QED BY <1>1, <1>2, <1>7, <1>10, <2>1
<1>14. QED BY <1>11, <1>12, <1>13

LEMMA DoneIs ==
    ASSUME PassOK, NEW r PROVE Done(r, pass) \in Passes /\ Done(r, pass).pc \in {"idle", "rule"}
<1> DEFINE left == pass.todo \ {r}
<1>1. pass \in Passes /\ left \in SUBSET Rules
  BY DEF PassOK, Passes
<1> HIDE DEF left
<1>2. 0 \in 0 .. MaxAlerts
  BY AlertsAssumption
<1>3. [pass EXCEPT !.pc = "rule", !.todo = left, !.id = 0, !.detail = NoDetail] \in Passes
  BY <1>1, <1>2, Blank DEF Passes
<1>4. Done(r, pass) \in {IdlePass, [pass EXCEPT !.pc = "rule", !.todo = left, !.id = 0,
                                                !.detail = NoDetail]}
  BY DEF Done, left
<1>5. [pass EXCEPT !.pc = "rule", !.todo = left, !.id = 0, !.detail = NoDetail].pc = "rule"
  BY <1>1 DEF Passes
<1>6. QED BY <1>3, <1>4, <1>5, Blank

----------------------------------------------------------------------------
(* Steps of three kinds keep the counters' story: those that change no      *)
(* counter, those that resolve alerts, and the clock's.                     *)
Story == InOrder /\ Succession /\ Firing /\ Budgets

SameRow(i) ==
    /\ alert'[i].rule = alert[i].rule
    /\ (alert'[i].status = "resolved") <=> (alert[i].status = "resolved")
    /\ alert'[i].resolvedAt = alert[i].resolvedAt
    /\ Copied(alert[i].detail, alert'[i].detail)
Calm ==
    /\ Rows(alert') = Rows(alert) /\ \A i \in Rows(alert) : SameRow(i)
    /\ UNCHANGED <<pass, clock, lastFire, burst, quietAt>>

LEMMA LatestSame ==
    ASSUME Rows(alert') = Rows(alert), \A i \in Rows(alert) : alert'[i].rule = alert[i].rule
    PROVE  \A r, i : Latest(alert', r, i) <=> Latest(alert, r, i)
BY DEF Latest

LEMMA CalmKeeps == ASSUME IInv, Calm PROVE Story'
<1>1. /\ Rows(alert') = Rows(alert)
      /\ \A i \in Rows(alert) :
            /\ alert'[i].rule = alert[i].rule
            /\ alert'[i].resolvedAt = alert[i].resolvedAt
            /\ alert'[i].status = "resolved" <=> alert[i].status = "resolved"
            /\ alert'[i].detail.attempts = alert[i].detail.attempts
            /\ alert'[i].detail.last = alert[i].detail.last
      /\ pass' = pass /\ clock' = clock /\ lastFire' = lastFire /\ burst' = burst
      /\ quietAt' = quietAt
  BY DEF Calm, SameRow, Copied
<1>2. \A r, i : Latest(alert', r, i) <=> Latest(alert, r, i)
  BY <1>1, LatestSame
<1>3. InOrder' /\ Succession'
  BY <1>1 DEF IInv, Order, InOrder, Succession
<1>4. Firing'
  BY <1>1, <1>2 DEF IInv, Order, Placed, Firing, Working
<1>5. ASSUME NEW r \in Rules PROVE Counted(r)' /\ Spaced(r)'
  <2>1. Counted(r) /\ Spaced(r)
    BY DEF IInv, Budgets
  <2>2. \A i : Latest(alert, r, i) => i \in Rows(alert)
    BY DEF Latest
  <2>3. Counted(r)'
    BY <1>1, <1>2, <2>1, <2>2 DEF Counted
  <2>4. Spaced(r)'
    BY <1>1, <1>2, <2>1, <2>2 DEF Spaced
  <2>5. QED BY <2>3, <2>4
<1>6. QED BY <1>3, <1>4, <1>5 DEF Story, Budgets

(* Some active alerts close; the pass is not about to send, or is the same. *)
Closed(ids) ==
    /\ Rows(alert') = Rows(alert)
    /\ \A i \in Rows(alert) :
          /\ alert'[i].rule = alert[i].rule /\ alert'[i].ver = alert[i].ver
          /\ alert'[i].detail = alert[i].detail
          /\ i \in ids => alert'[i].status = "resolved" /\ alert'[i].resolvedAt = clock
          /\ i \notin ids => alert'[i] = alert[i]
    /\ \A i \in ids : quietAt'[alert[i].rule] = clock
    /\ \A r \in Rules : (\A i \in ids : alert[i].rule # r) => quietAt'[r] = quietAt[r]

LEMMA ClosedNone ==
    ASSUME RowsOK, HistoryOK, UNCHANGED <<alert, quietAt>>
    PROVE  RowsOK' /\ Closed({}) /\ quietAt' \in [Rules -> Stamps]
BY DEF RowsOK, HistoryOK, Closed

LEMMA ClosedSome ==
    ASSUME TypeOK, NEW ids, ids \subseteq Active(alert), Resolve(ids)
    PROVE  RowsOK' /\ Closed(ids) /\ quietAt' \in [Rules -> Stamps]
BY Resolves DEF Closed

LEMMA ClosedKeeps ==
    ASSUME IInv, NEW ids, ids \subseteq Active(alert), Closed(ids),
           UNCHANGED <<clock, lastFire, burst>>, pass'.pc # "sending" \/ pass' = pass
    PROVE  Story'
<1>1. /\ Rows(alert') = Rows(alert) /\ clock' = clock /\ lastFire' = lastFire /\ burst' = burst
      /\ \A i \in Rows(alert) :
            /\ alert'[i].rule = alert[i].rule
            /\ alert'[i].detail = alert[i].detail
            /\ i \in ids => alert'[i].status = "resolved" /\ alert'[i].resolvedAt = clock
            /\ i \notin ids => alert'[i] = alert[i]
      /\ \A i \in ids : quietAt'[alert[i].rule] = clock
      /\ \A r \in Rules : (\A i \in ids : alert[i].rule # r) => quietAt'[r] = quietAt[r]
  BY DEF Closed
<1>2. \A r, i : Latest(alert', r, i) <=> Latest(alert, r, i)
  BY <1>1, LatestSame
<1>3. ASSUME NEW i \in ids
      PROVE  /\ i \in Rows(alert) /\ alert[i].rule \in Rules
             /\ Latest(alert, alert[i].rule, i) /\ alert[i].status # "resolved"
  <2>1. i \in Rows(alert) /\ alert[i].status # "resolved"
    BY DEF Active
  <2>2. alert[i].rule \in Rules
    BY <2>1, RowIs, RowHas DEF IInv, TypeOK, RowsOK
  <2>3. i \in ActiveOf(alert, alert[i].rule)
    BY DEF ActiveOf
  <2>4. QED BY <2>1, <2>2, <2>3, ActiveIsLatest DEF IInv
<1>4. InOrder' /\ Succession'
  <2>1. InOrder'
    BY <1>1 DEF IInv, Order, InOrder
  <2>2. Succession'
    BY <1>1 DEF IInv, Order, Succession
  <2>3. QED BY <2>1, <2>2
<1>5. Firing'
  <2>1. SUFFICES ASSUME Working' PROVE Firing'
    BY DEF Firing
  <2>2. pass' = pass /\ Working /\ pass.id \in Rows(alert)
    BY <2>1 DEF Working, IInv, Order, Placed
  <2>3. QED BY <1>1, <1>2, <2>2 DEF Firing, IInv
<1>6. ASSUME NEW r \in Rules PROVE Counted(r)' /\ Spaced(r)'
  <2>1. Counted(r) /\ Spaced(r)
    BY DEF IInv, Budgets
  <2>2. (\A i \in Rows(alert') : alert'[i].rule # r) => \A i \in Rows(alert) : alert[i].rule # r
    BY <1>1
  <2>3. ASSUME NEW i \in Ids, Latest(alert', r, i)
        PROVE  /\ burst[r] <= alert'[i].detail.attempts
               /\ alert'[i].detail.last = lastFire[r] \/ clock - lastFire[r] >= Cooldown
               /\ alert'[i].status = "resolved" =>
                    quietAt'[r] = alert'[i].resolvedAt /\ lastFire[r] <= alert'[i].resolvedAt
    <3>1. Latest(alert, r, i) /\ i \in Rows(alert) /\ alert[i].rule = r
      BY <1>2, <2>3 DEF Latest
    <3>2. alert'[i].detail = alert[i].detail
      BY <1>1, <3>1
    <3>3. CASE i \in ids
      BY <1>1, <2>1, <3>1, <3>2, <3>3 DEF Counted, Spaced
    <3>4. CASE i \notin ids
      <4>1. alert'[i] = alert[i]
        BY <1>1, <3>1, <3>4
      <4>2. CASE \A j \in ids : alert[j].rule # r
        BY <1>1, <2>1, <3>1, <4>1, <4>2 DEF Counted, Spaced
      <4>3. ASSUME NEW j \in ids, alert[j].rule = r PROVE FALSE
        BY <1>3, <3>1, <3>4, <4>3, LatestIsOne
      <4>4. QED BY <4>2, <4>3
    <3>5. QED BY <3>3, <3>4
  <2>4. Counted(r)'
    BY <1>1, <2>1, <2>2, <2>3 DEF Counted
  <2>5. Spaced(r)'
    BY <1>1, <2>1, <2>2, <2>3 DEF Spaced
  <2>6. QED BY <2>4, <2>5
<1>7. QED BY <1>4, <1>5, <1>6 DEF Story, Budgets

(* Time passes between handlers.                                            *)
LEMMA TickKeeps == ASSUME IInv, Tick PROVE Story'
<1>1. /\ clock' = clock + 1 /\ clock \in Nat
      /\ UNCHANGED <<alert, pass, lastFire, burst, quietAt>>
  BY DEF Tick, ghosts, IInv, TypeOK, HistoryOK
<1>2. ~Working
  BY DEF Tick, Running, Working
<1>3. InOrder' /\ Succession' /\ Firing'
  BY <1>1, <1>2 DEF IInv, Order, InOrder, Succession, Firing, Working
<1>4. ASSUME NEW r \in Rules PROVE Counted(r)' /\ Spaced(r)'
  <2>1. Counted(r) /\ Spaced(r) /\ lastFire[r] \in Int
    BY AlertsAssumption DEF IInv, Budgets, TypeOK, HistoryOK, Stamps, Never
  <2>2. Cooldown \in Nat
    BY AlertsAssumption
  <2>3. Counted(r)'
    BY <1>1, <2>1 DEF Counted, Latest
  <2>4. Spaced(r)'
    <3>1. lastFire'[r] <= clock' /\ (clock - lastFire[r] >= Cooldown => clock' - lastFire'[r] >= Cooldown)
      BY <1>1, <2>1, <2>2 DEF Spaced
    <3>2. QED BY <1>1, <2>1, <3>1 DEF Spaced, Latest
  <2>5. QED BY <2>3, <2>4
<1>5. QED BY <1>3, <1>4 DEF Story, Budgets

----------------------------------------------------------------------------
(* A violated rule: the counters of its alert are those of the alert that   *)
(* was active, or was the last one.                                         *)
LEMMA LatestExists ==
    ASSUME IInv, NEW r \in Rules, NEW j \in Rows(alert), alert[j].rule = r
    PROVE  \E i \in Ids : Latest(alert, r, i)
<1> DEFINE mine == {i \in Rows(alert) : alert[i].rule = r}
<1>1. mine \subseteq Ids /\ mine # {}
  BY Null
<1>2. Max(mine) \in mine /\ \A c \in mine : c <= Max(mine)
  <2> HIDE DEF mine
  <2>1. QED BY <1>1, MaxOf
<1>3. QED BY <1>1, <1>2 DEF Latest

(* What a fresh alert's counters say of the rule's runs.                    *)
FreshBurst(r) == quietAt[r] = Never \/ clock - quietAt[r] > Cooldown
LEMMA CarriesStory ==
    ASSUME IInv, NEW r \in Rules, ActiveOf(alert, r) = {}
    PROVE  /\ ~FreshBurst(r) => burst[r] <= Carried(r).attempts
           /\ 0 <= Carried(r).attempts
           /\ Carried(r).last = lastFire[r] \/ clock - lastFire[r] >= Cooldown
<1>1. /\ Counted(r) /\ Spaced(r) /\ Cooldown \in Nat /\ clock \in Nat /\ burst[r] \in Nat
      /\ lastFire[r] \in Int
  BY AlertsAssumption DEF IInv, Budgets, TypeOK, HistoryOK, Stamps, Never
<1>2. /\ Carried(r).attempts \in Nat
      /\ \/ Carried(r).attempts = 0 /\ Carried(r).last = Never /\ LongOver(r)
         \/ TakenOver(r, Carried(r))
  BY CarriedIs, DetailHas DEF IInv
<1>3. ASSUME NEW i \in Ids, Latest(alert, r, i)
      PROVE  /\ alert[i].status = "resolved" /\ alert[i].resolvedAt = quietAt[r]
             /\ lastFire[r] <= quietAt[r] /\ quietAt[r] \in Int
             /\ burst[r] <= alert[i].detail.attempts
             /\ alert[i].detail.last = lastFire[r] \/ clock - lastFire[r] >= Cooldown
  <2>1. i \in Rows(alert) /\ alert[i].rule = r
    BY <1>3 DEF Latest
  <2>2. alert[i].status = "resolved"
    BY <2>1 DEF ActiveOf, Active
  <2>3. alert[i].resolvedAt \in Int
    BY <2>1, RowIs, RowHas DEF IInv, TypeOK, RowsOK, Stamps, Never
  <2>4. QED BY <1>1, <1>3, <2>2, <2>3 DEF Counted, Spaced
<1>4. CASE TakenOver(r, Carried(r))
  <2>1. PICK i \in Ids : /\ Latest(alert, r, i)
                         /\ Carried(r).attempts = alert[i].detail.attempts
                         /\ Carried(r).last = alert[i].detail.last
    BY <1>4 DEF TakenOver
  <2>2. QED BY <1>2, <1>3, <2>1
<1>5. CASE Carried(r).attempts = 0 /\ Carried(r).last = Never /\ LongOver(r)
  <2>1. CASE \E j \in Rows(alert) : alert[j].rule = r
    <3>1. PICK i \in Ids : Latest(alert, r, i)
      BY <2>1, LatestExists
    <3>2. clock - quietAt[r] > Cooldown /\ lastFire[r] <= quietAt[r] /\ quietAt[r] \in Int
      BY <1>3, <1>5, <3>1 DEF LongOver
    <3>3. QED BY <1>1, <1>5, <3>2 DEF FreshBurst
  <2>2. CASE \A j \in Rows(alert) : alert[j].rule # r
    BY <1>1, <1>5, <2>2 DEF Counted, Spaced
  <2>3. QED BY <2>1, <2>2
<1>6. QED BY <1>2, <1>4, <1>5

LEMMA ViolatedKeeps == ASSUME IInv, NEW r \in Rules, ViolatedRule(r) PROVE Story'
<1>1. PICK i \in Ids : \E old, new \in AlertRows, f \in Details :
              /\ About(r, i, old) /\ old.rule = r /\ old.status # "resolved"
              /\ \/ Waits(i, old, new, r)
                 \/ Launches(i, old, new, f, r)
                 \/ Notes(i, old, new, f, r)
  BY Violates DEF IInv
<1>2. PICK old \in AlertRows, new \in AlertRows, f \in Details :
              /\ About(r, i, old) /\ old.rule = r /\ old.status # "resolved"
              /\ \/ Waits(i, old, new, r)
                 \/ Launches(i, old, new, f, r)
                 \/ Notes(i, old, new, f, r)
  BY <1>1
<1>3. /\ ~Working /\ clock' = clock /\ lastFire' = lastFire
      /\ burst' = IF ActiveOf(alert, r) = {} /\ FreshBurst(r) THEN [burst EXCEPT ![r] = 0]
                  ELSE burst
      /\ quietAt' = [quietAt EXCEPT ![r] = Never]
  BY DEF ViolatedRule, Working, FreshBurst
<1>4. /\ burst \in [Rules -> Nat] /\ quietAt \in [Rules -> Stamps] /\ clock \in Nat
      /\ lastFire[r] \in Int /\ MaxAttempts \in Nat /\ Cooldown \in Nat
  BY AlertsAssumption DEF IInv, TypeOK, HistoryOK, Stamps, Never
<1>5. /\ Touched(i, old, new, r)
      /\ new.detail.attempts = old.detail.attempts /\ new.detail.last = old.detail.last
  <2>1. old.detail \in Details /\ new.detail \in Details
    BY RowHas
  <2>2. Notes(i, old, new, f, r) => Copied(f, new.detail)
    BY <2>1, FreshVetoes DEF Notes
  <2>3. Touched(i, old, new, r) /\ new.detail.attempts = old.detail.attempts
           /\ new.detail.last = old.detail.last
    BY <1>2, <2>2 DEF Waits, Launches, Notes, Acted, Copied
  <2>4. QED BY <2>3
<1>6. /\ alert'[i] = new /\ new.rule = r /\ new.status # "resolved"
      /\ \A j \in Ids \ {i} : alert'[j] = alert[j]
      /\ Rows(alert') = Rows(alert) \cup {i}
  BY <1>5, OneRow DEF Touched, IInv, TypeOK
<1>7. /\ i \notin Rows(alert) => /\ Rows(alert) = 1 .. (i - 1) /\ ActiveOf(alert, r) = {}
                                /\ old = NewRow(r)
      /\ i \in Rows(alert) => /\ Latest(alert, r, i) /\ old = alert[i] /\ alert[i].rule = r
                             /\ ActiveOf(alert, r) # {}
  <2>1. CASE i \in ActiveOf(alert, r) /\ old = alert[i]
    <3>1. i \in Rows(alert)
      BY <2>1 DEF ActiveOf, Active
    <3>2. QED BY <1>2, <2>1, <3>1, ActiveIsLatest DEF IInv
  <2>2. CASE /\ ActiveOf(alert, r) = {} /\ old = NewRow(r)
             /\ alert[i] = NoRow /\ Rows(alert) = 1 .. (i - 1)
    BY <2>2 DEF Rows
  <2>3. QED BY <1>2, <2>1, <2>2 DEF About
<1>8. /\ InOrder' /\ Latest(alert', r, i)
      /\ \A q \in Rules \ {r} : \A j : Latest(alert', q, j) <=> Latest(alert, q, j)
  <2>1. i \in Nat /\ i >= 1 /\ i <= MaxAlerts /\ \A j \in Rows(alert) : j \in Ids /\ j \in Nat
    BY Null, AlertsAssumption DEF Ids
  <2>2. CASE i \in Rows(alert)
    <3>1. Rows(alert') = Rows(alert) /\ \A j \in Rows(alert) : alert'[j].rule = alert[j].rule
      BY <1>6, <1>7, <2>1, <2>2
    <3>2. QED BY <1>7, <2>2, <3>1, LatestSame DEF IInv, Order, InOrder
  <2>3. CASE i \notin Rows(alert)
    <3>1. Rows(alert') = 1 .. i /\ \A j \in Rows(alert) : j < i /\ alert'[j] = alert[j]
      BY <1>6, <1>7, <2>1, <2>3
    <3>2. InOrder'
      BY <2>1, <3>1, AlertsAssumption DEF InOrder
    <3>3. Latest(alert', r, i)
      BY <1>6, <2>1, <3>1 DEF Latest
    <3>4. ASSUME NEW q \in Rules \ {r}, NEW j
          PROVE  Latest(alert', q, j) <=> Latest(alert, q, j)
      <4>1. j \in Rows(alert') /\ alert'[j].rule = q <=> j \in Rows(alert) /\ alert[j].rule = q
        BY <1>6, <3>1
      <4>2. (\A k \in Rows(alert') : alert'[k].rule = q => k <= j)
              <=> (\A k \in Rows(alert) : alert[k].rule = q => k <= j)
        BY <1>6, <3>1
      <4>3. QED BY <4>1, <4>2 DEF Latest
    <3>5. QED BY <3>2, <3>3, <3>4
  <2>4. QED BY <2>2, <2>3
<1>9. Succession'
  <2>1. ASSUME NEW j \in Rows(alert'), NEW k \in Rows(alert'),
               alert'[j].rule = alert'[k].rule, j < k
        PROVE  alert'[j].status = "resolved"
    <3>1. j \in Int /\ k \in Int /\ i \in Int
      BY Null DEF Ids
    <3>2. CASE alert'[j].rule = r
      <4>1. k <= i
        BY <1>8, <2>1, <3>2 DEF Latest
      <4>2. j # i /\ j \in Rows(alert) /\ alert'[j] = alert[j]
        BY <1>6, <2>1, <3>1, <4>1, Null
      <4>3. CASE k = i /\ i \notin Rows(alert)
        BY <1>7, <3>2, <4>2, <4>3 DEF ActiveOf, Active
      <4>4. CASE k \in Rows(alert)
        <5>1. alert[k].rule = r
          BY <1>6, <1>7, <2>1, <3>2, <4>4, Null
        <5>2. QED BY <2>1, <3>2, <4>2, <4>4, <5>1 DEF IInv, Order, Succession
      <4>5. QED BY <1>6, <2>1, <4>3, <4>4
    <3>3. CASE alert'[j].rule # r
      <4>1. j # i /\ k # i
        BY <1>6, <2>1, <3>3
      <4>2. j \in Rows(alert) /\ k \in Rows(alert) /\ alert'[j] = alert[j] /\ alert'[k] = alert[k]
        BY <1>6, <4>1, Null
      <4>3. QED BY <2>1, <4>2 DEF IInv, Order, Succession
    <3>4. QED BY <3>2, <3>3
  <2>2. QED BY <2>1 DEF Succession
<1>10. /\ burst'[r] <= new.detail.attempts /\ burst'[r] <= MaxAttempts
       /\ new.detail.last = lastFire[r] \/ clock - lastFire[r] >= Cooldown
  <2>1. Counted(r) /\ Spaced(r)
    BY DEF IInv, Budgets
  <2>2. CASE i \in Rows(alert)
    BY <1>3, <1>4, <1>5, <1>7, <2>1, <2>2 DEF Counted, Spaced
  <2>3. CASE i \notin Rows(alert)
    <3>1. old.detail = Carried(r) /\ ActiveOf(alert, r) = {}
      BY <1>7, <2>3 DEF NewRow
    <3>2. burst'[r] = IF FreshBurst(r) THEN 0 ELSE burst[r]
      BY <1>3, <1>4, <3>1
    <3>3. QED BY <1>4, <1>5, <2>1, <3>1, <3>2, CarriesStory DEF Counted
  <2>4. QED BY <2>2, <2>3
<1>11. ASSUME NEW q \in Rules PROVE Counted(q)' /\ Spaced(q)'
  <2>1. Counted(q) /\ Spaced(q)
    BY DEF IInv, Budgets
  <2>2. CASE q = r
    <3>1. \A j : Latest(alert', r, j) => j = i
      BY <1>8, LatestIsOne
    <3>2. Counted(r)'
      BY <1>6, <1>10, <3>1 DEF Counted
    <3>3. Spaced(r)'
      BY <1>3, <1>6, <1>10, <2>1, <2>2, <3>1 DEF Spaced
    <3>4. QED BY <2>2, <3>2, <3>3
  <2>3. CASE q # r
    <3>1. burst'[q] = burst[q] /\ quietAt'[q] = quietAt[q]
      BY <1>3, <1>4, <2>3
    <3>2. \A j : Latest(alert, q, j) => alert'[j] = alert[j]
      BY <1>6, <1>7, <2>3, Null DEF Latest
    <3>3. (\A j \in Rows(alert') : alert'[j].rule # q) => \A j \in Rows(alert) : alert[j].rule # q
      BY <1>6, <1>7, <2>3, Null
    <3>4. Counted(q)'
      BY <1>8, <2>1, <2>3, <3>1, <3>2, <3>3 DEF Counted
    <3>5. Spaced(q)'
      BY <1>3, <1>8, <2>1, <2>3, <3>2, <3>3 DEF Spaced
    <3>6. QED BY <3>4, <3>5
  <2>4. QED BY <2>2, <2>3
<1>12. Firing'
  <2>1. SUFFICES ASSUME Working' PROVE Firing'
    BY DEF Firing
  <2>2. Launches(i, old, new, f, r)
    BY <1>2, <2>1, DoneIs DEF Waits, Notes, Working, IInv, TypeOK
  <2>3. /\ pass'.id = i /\ pass'.detail = f /\ f.attempts = old.detail.attempts
        /\ f.last = old.detail.last /\ f.attempts < MaxAttempts
        /\ old.detail.last = Never \/ clock - old.detail.last >= Cooldown
    <3>1. pass' = [pass EXCEPT !.pc = "sending", !.id = i, !.detail = f] /\ pass \in Passes
      BY <2>2 DEF Launches, IInv, TypeOK, PassOK
    <3>2. old.detail.attempts \in Nat
      BY RowHas, DetailHas
    <3>3. QED BY <1>4, <2>2, <3>1, <3>2 DEF Launches, Acted, Fires, Halts, Passes
  <2>4. lastFire'[r] = Never \/ clock' - lastFire'[r] >= Cooldown
    BY <1>3, <1>5, <1>10, <2>3
  <2>5. QED BY <1>5, <1>6, <1>8, <2>3, <2>4 DEF Firing
<1>13. QED BY <1>8, <1>9, <1>11, <1>12 DEF Story, Budgets

----------------------------------------------------------------------------
(* The end of a remediation: the run counts, or there was nothing to run.   *)
Repaired(attempted, d, new) ==
    LET now == alert[pass.id]
    IN  /\ alert' = [alert EXCEPT ![pass.id] = new]
        /\ new = [now EXCEPT !.detail = WithFreshVetoes(now.detail, d)]
        /\ d.tags = pass.detail.tags /\ d.pending = pass.detail.pending
        /\ d.declined = pass.detail.declined
        /\ IF attempted
           THEN /\ d.attempts = pass.detail.attempts + 1 /\ d.last = clock
                /\ lastFire' = [lastFire EXCEPT ![now.rule] = clock]
                /\ burst' = [burst EXCEPT ![now.rule] = @ + 1]
           ELSE /\ d.attempts = pass.detail.attempts /\ d.last = pass.detail.last
                /\ UNCHANGED <<lastFire, burst>>

RowSame(new, now) ==
    /\ new.rule = now.rule /\ new.status = now.status /\ new.resolvedAt = now.resolvedAt
    /\ new.ver = now.ver

LEMMA Rewrites ==
    ASSUME NEW now \in AlertRows, NEW d \in Details
    PROVE  /\ [now EXCEPT !.detail = d] \in AlertRows
           /\ [now EXCEPT !.detail = d].detail = d
           /\ RowSame([now EXCEPT !.detail = d], now)
BY DEF AlertRows, RowSame

LEMMA RepairDoes ==
    ASSUME TypeOK, Placed, NEW attempted \in BOOLEAN, FinishRepair(attempted)
    PROVE  /\ pass.id \in Rows(alert) /\ alert[pass.id] \in AlertRows /\ Working
           /\ pass' = Done(alert[pass.id].rule, pass)
           /\ \E d \in Details, new \in AlertRows :
                 /\ Repaired(attempted, d, new) /\ RowSame(new, alert[pass.id])
                 /\ new.detail = WithFreshVetoes(alert[pass.id].detail, d)
                 /\ Copied(d, new.detail)
<1> DEFINE now == alert[pass.id]
           d == IF attempted THEN [pass.detail EXCEPT !.attempts = @ + 1, !.last = clock]
                ELSE pass.detail
           new == [now EXCEPT !.detail = WithFreshVetoes(now.detail, d)]
<1>1. Working /\ pass.id \in Rows(alert) /\ pass.id \in Ids /\ now \in AlertRows
  BY RowIs DEF FinishRepair, Working, Placed, TypeOK, RowsOK
<1>2. pass.detail \in Details /\ clock \in Nat /\ alert \in [Ids -> AlertRows \cup {NoRow}]
  BY DEF TypeOK, PassOK, Passes, HistoryOK, RowsOK
<1>3. /\ alert' = [alert EXCEPT ![pass.id].detail = WithFreshVetoes(now.detail, d)]
      /\ pass' = Done(now.rule, pass)
      /\ lastFire' = IF attempted THEN [lastFire EXCEPT ![now.rule] = clock] ELSE lastFire
      /\ burst' = IF attempted THEN [burst EXCEPT ![now.rule] = @ + 1] ELSE burst
  BY DEF FinishRepair
<1>4. alert' = [alert EXCEPT ![pass.id] = new]
  BY <1>3
<1>5. /\ d \in Details /\ d.tags = pass.detail.tags /\ d.pending = pass.detail.pending
      /\ d.declined = pass.detail.declined
      /\ attempted => d.attempts = pass.detail.attempts + 1 /\ d.last = clock
      /\ ~attempted => d.attempts = pass.detail.attempts /\ d.last = pass.detail.last
  <2>1. CASE ~attempted
    BY <1>2, <2>1
  <2>2. CASE attempted
    <3> DEFINE e == pass.detail
    <3>1. d = [e EXCEPT !.attempts = @ + 1, !.last = clock] /\ e \in Details /\ clock \in Stamps
      BY <1>2, <2>2 DEF Stamps
    <3> HIDE DEF d, e
    <3>2. d = [tags |-> e.tags, attempts |-> e.attempts + 1, last |-> clock,
               failed |-> e.failed, pending |-> e.pending, declined |-> e.declined,
               approved |-> e.approved, told |-> e.told]
      BY <3>1 DEF Details
    <3>3. e.attempts + 1 \in Nat
      BY <3>1, DetailHas
    <3>4. d \in Details
      <4>1. /\ e.tags \in SUBSET AllTags /\ e.failed \in BOOLEAN /\ e.pending \in Nat
            /\ e.declined \in BOOLEAN /\ e.approved \in Nat /\ e.told \in Severities \cup {"no"}
        BY <3>1, DetailHas
      <4>2. clock \in Stamps
        BY <3>1
      <4>3. [tags |-> e.tags, attempts |-> e.attempts + 1, last |-> clock,
             failed |-> e.failed, pending |-> e.pending, declined |-> e.declined,
             approved |-> e.approved, told |-> e.told] \in Details
        BY <3>3, <4>1, <4>2, DetailOf
      <4>4. QED BY <3>2, <4>3
    <3>5. QED BY <2>2, <3>2, <3>4 DEF e
  <2>3. QED BY <2>1, <2>2
<1> HIDE DEF d
<1>6. now.detail \in Details
  BY <1>1, RowHas
<1>7. WithFreshVetoes(now.detail, d) \in Details /\ Copied(d, WithFreshVetoes(now.detail, d))
  BY <1>5, <1>6, FreshVetoes
<1>8. new \in AlertRows /\ new.detail = WithFreshVetoes(now.detail, d) /\ RowSame(new, now)
  BY <1>1, <1>7, Rewrites
<1>9. Repaired(attempted, d, new)
  BY <1>3, <1>4, <1>5 DEF Repaired
<1>10. QED BY <1>1, <1>3, <1>5, <1>7, <1>8, <1>9

LEMMA RepairKeeps ==
    ASSUME IInv, NEW attempted \in BOOLEAN, FinishRepair(attempted) PROVE Story'
<1> DEFINE i == pass.id
           now == alert[i]
           r == now.rule
<1>1. /\ i \in Rows(alert) /\ now \in AlertRows /\ Working
      /\ pass' = Done(r, pass) /\ i \in Ids /\ r \in Rules
  BY RepairDoes, Null, RowHas DEF IInv, Order
<1>2. PICK d \in Details, new \in AlertRows :
              /\ Repaired(attempted, d, new) /\ RowSame(new, now) /\ Copied(d, new.detail)
  BY RepairDoes DEF IInv, Order
<1>3. /\ alert'[i] = new /\ Rows(alert') = Rows(alert)
      /\ \A j \in Rows(alert) \ {i} : alert'[j] = alert[j]
  <2>1. RowsOK /\ alert' = [alert EXCEPT ![i] = new]
    BY <1>2 DEF Repaired, IInv, TypeOK
  <2>2. /\ alert'[i] = new /\ \A j \in Ids \ {i} : alert'[j] = alert[j]
        /\ Rows(alert') = Rows(alert) \cup {i}
    BY <1>1, <2>1, OneRow
  <2>3. QED BY <1>1, <2>2, Null
<1>4. /\ clock' = clock /\ quietAt' = quietAt /\ clock \in Nat /\ burst \in [Rules -> Nat]
      /\ lastFire \in [Rules -> Stamps] /\ MaxAttempts \in Nat /\ Cooldown \in Nat
  BY AlertsAssumption DEF FinishRepair, IInv, TypeOK, HistoryOK
<1>5. \A j \in Rows(alert) : /\ alert'[j].rule = alert[j].rule
                             /\ alert'[j].status = alert[j].status
                             /\ alert'[j].resolvedAt = alert[j].resolvedAt
  BY <1>2, <1>3 DEF RowSame
<1>6. \A q, j : Latest(alert', q, j) <=> Latest(alert, q, j)
  BY <1>3, <1>5, LatestSame
<1>7. InOrder' /\ Succession'
  BY <1>3, <1>5 DEF IInv, Order, InOrder, Succession
<1>8. Firing'
  BY <1>1, DoneIs DEF Firing, Working, IInv, TypeOK
<1>9. /\ Latest(alert, r, i) /\ pass.detail.attempts = now.detail.attempts
      /\ pass.detail.last = now.detail.last /\ pass.detail.attempts < MaxAttempts
      /\ lastFire[r] = Never \/ clock - lastFire[r] >= Cooldown
      /\ now.status = "resolved" => now.resolvedAt = clock
      /\ pass.detail.attempts \in Nat
  BY <1>1, DetailHas DEF IInv, Firing, TypeOK, PassOK, Passes
<1>10. /\ IF attempted
          THEN /\ new.detail.attempts = now.detail.attempts + 1 /\ new.detail.last = clock
               /\ lastFire'[r] = clock /\ burst'[r] = burst[r] + 1
          ELSE /\ new.detail.attempts = now.detail.attempts
               /\ new.detail.last = now.detail.last
               /\ lastFire'[r] = lastFire[r] /\ burst'[r] = burst[r]
       /\ \A q \in Rules \ {r} : lastFire'[q] = lastFire[q] /\ burst'[q] = burst[q]
  BY <1>1, <1>2, <1>4, <1>9 DEF Repaired, Copied
<1>11. ASSUME NEW q \in Rules PROVE Counted(q)' /\ Spaced(q)'
  <2>1. Counted(q) /\ Spaced(q) /\ burst[q] \in Nat /\ lastFire[q] \in Int
    BY <1>4 DEF IInv, Budgets, Stamps, Never
  <2>2. (\A j \in Rows(alert') : alert'[j].rule # q) => \A j \in Rows(alert) : alert[j].rule # q
    BY <1>3, <1>5
  <2>3. CASE q = r
    <3>1. \A j : Latest(alert', r, j) => j = i
      BY <1>6, <1>9, LatestIsOne
    <3>2. ~ \A j \in Rows(alert') : alert'[j].rule # r
      BY <1>1, <1>3, <1>5
    <3>3. burst'[r] <= new.detail.attempts /\ burst'[r] <= MaxAttempts
      <4>1. /\ burst[r] <= now.detail.attempts /\ burst[r] <= MaxAttempts
            /\ burst[r] \in Nat /\ now.detail.attempts \in Nat
        BY <1>1, <1>9, <2>1, <2>3 DEF Counted
      <4>2. QED BY <1>4, <1>9, <1>10, <4>1
    <3>4. new.status = now.status /\ new.resolvedAt = now.resolvedAt
      BY <1>2 DEF RowSame
    <3>5. Counted(q)'
      <4>1. now.status = "resolved" => quietAt[r] = now.resolvedAt
        BY <1>1, <1>9, <2>1, <2>3 DEF Counted
      <4>2. QED BY <1>3, <1>4, <2>3, <3>1, <3>2, <3>3, <3>4, <4>1 DEF Counted
    <3>6. Spaced(q)'
      <4>1. /\ lastFire[r] <= clock
            /\ now.detail.last = lastFire[r] \/ clock - lastFire[r] >= Cooldown
            /\ now.status = "resolved" => lastFire[r] <= now.resolvedAt
        BY <1>1, <1>9, <2>1, <2>3 DEF Spaced
      <4>2. /\ lastFire'[r] <= clock'
            /\ new.detail.last = lastFire'[r] \/ clock' - lastFire'[r] >= Cooldown
            /\ new.status = "resolved" => lastFire'[r] <= new.resolvedAt
        BY <1>4, <1>9, <1>10, <3>4, <4>1
      <4>3. QED BY <1>3, <2>3, <3>1, <3>2, <4>2 DEF Spaced
    <3>7. QED BY <3>5, <3>6
  <2>4. CASE q # r
    <3>1. \A j : Latest(alert, q, j) => j \in Rows(alert) /\ alert'[j] = alert[j]
      BY <1>3, <2>4 DEF Latest
    <3>2. burst'[q] = burst[q] /\ lastFire'[q] = lastFire[q]
      BY <1>10, <2>4
    <3>3. Counted(q)'
      BY <1>4, <1>6, <2>1, <2>2, <3>1, <3>2 DEF Counted
    <3>4. Spaced(q)'
      BY <1>4, <1>6, <2>1, <2>2, <3>1, <3>2 DEF Spaced
    <3>5. QED BY <3>3, <3>4
  <2>5. QED BY <2>3, <2>4
<1>12. QED BY <1>7, <1>8, <1>11 DEF Story, Budgets

----------------------------------------------------------------------------
(* An evaluation has the device to itself, and so have the approvals.       *)
LEMMA Alone ==
    ASSUME Apart
    PROVE  /\ MayStart("pass") => \A a \in Approvers : approver[a].pc = "idle"
           /\ MayStart("approve") => pass.pc = "idle"
<1>1. ASSUME MayStart("pass"), NEW a \in Approvers, approver[a].pc # "idle" PROVE FALSE
  <2>1. "approve" \in Running
    BY <1>1 DEF Running
  <2>2. QED BY <1>1, <2>1 DEF MayStart, Apart
<1>2. ASSUME MayStart("approve"), pass.pc # "idle" PROVE FALSE
  <2>1. "pass" \in Running
    BY <1>2 DEF Running
  <2>2. {"approve", "pass"} \in Overlaps
    BY <1>2, <2>1 DEF MayStart
  <2>3. {"approve", "pass"} = {"pass", "approve"}
    OBVIOUS
  <2>4. QED BY <2>2, <2>3 DEF Apart
<1>3. QED BY <1>1, <1>2

(* Claims stay good while a row's counters change only with its version.    *)
LEMMA ClaimsKept ==
    ASSUME IInv,
           \A i \in Rows(alert) : /\ alert'[i].ver \in Nat
                                  /\ \/ /\ alert'[i].ver = alert[i].ver
                                        /\ Copied(alert[i].detail, alert'[i].detail)
                                     \/ alert'[i].ver > alert[i].ver,
           \A a \in Approvers : approver'[a].pc = "write" =>
               \/ approver'[a] = approver[a]
               \/ LET now == alert'[approver'[a].id]
                  IN  /\ now.ver \in Nat
                      /\ approver'[a].ver = now.ver /\ approver'[a].detail = now.detail
    PROVE  Claims'
<1>1. SUFFICES ASSUME NEW a \in Approvers, approver'[a].pc = "write"
               PROVE  LET me == approver'[a]
                          now == alert'[me.id]
                      IN  me.ver <= now.ver /\ (me.ver = now.ver => Copied(me.detail, now.detail))
  BY DEF Claims
<1>2. CASE approver'[a] = approver[a]
  <2> DEFINE me == approver[a]
  <2>1. /\ me.id \in Rows(alert) /\ me.ver <= alert[me.id].ver
        /\ me.ver = alert[me.id].ver => Copied(me.detail, alert[me.id].detail)
    BY <1>1, <1>2 DEF IInv, Order, Placed, Claims
  <2>2. me.ver \in Nat /\ alert[me.id].ver \in Nat
    BY <2>1, RowIs, RowHas DEF IInv, TypeOK, RowsOK, ApprovalsOK, Approvals
  <2>3. QED BY <1>2, <2>1, <2>2 DEF Copied
<1>3. CASE LET now == alert'[approver'[a].id]
           IN  /\ now.ver \in Nat
               /\ approver'[a].ver = now.ver /\ approver'[a].detail = now.detail
  BY <1>3 DEF Copied
<1>4. QED BY <1>1, <1>2, <1>3

(* A step of the evaluation itself.                                         *)
LEMMA OwnStep ==
    ASSUME IInv, pass.pc # "idle", approver' = approver,
           Working' => pass'.id \in Rows(alert')
    PROVE  Placed' /\ Claims' /\ ApprovalsOK'
BY DEF IInv, Order, Placed, Claims, TypeOK, ApprovalsOK

LEMMA StartPassKeeps == ASSUME IInv, Apart, NEW sweep \in BOOLEAN, StartPass(sweep) PROVE IInv'
<1>1. /\ pass.pc = "idle" /\ MayStart("pass")
      /\ UNCHANGED <<verdict, live, armed, approver, clock, requests, sent, lastFire, burst>>
  BY DEF StartPass
<1>2. \A a \in Approvers : approver'[a].pc = "idle"
  BY <1>1, Alone
<1>3. PICK ids : ids \subseteq Active(alert) /\ RowsOK' /\ Closed(ids)
                   /\ quietAt' \in [Rules -> Stamps]
  <2>1. CASE sweep
    BY <2>1, ClosedSome DEF StartPass, Orphans, IInv
  <2>2. CASE ~sweep
    BY <2>2, ClosedNone DEF StartPass, IInv, TypeOK
  <2>3. QED BY <2>1, <2>2
<1>4. PassOK' /\ pass'.pc \in {"idle", "rule"}
  <2> DEFINE seen == IF sweep THEN {alert[i].rule : i \in Active(alert)} ELSE Rules
  <2>1. seen \in SUBSET Rules
    BY RowIs, RowHas DEF IInv, TypeOK, RowsOK, Active
  <2>2. live \in SUBSET Rules /\ verdict \in [Rules -> Verdicts] /\ armed \in BOOLEAN
    BY DEF IInv, TypeOK, PassOK
  <2>3. pass' = [IdlePass EXCEPT
                  !.pc = IF live = {} THEN "idle" ELSE "rule", !.todo = live,
                  !.pairs = seen, !.verdict = verdict, !.armed = armed]
    BY DEF StartPass
  <2> HIDE DEF seen
  <2>4. pass' \in Passes /\ pass'.pc \in {"idle", "rule"}
    BY <2>1, <2>2, <2>3, Blank DEF Passes
  <2>5. QED BY <1>1, <2>2, <2>4 DEF PassOK
<1>5. Story'
  BY <1>1, <1>3, <1>4, ClosedKeeps
<1>6. Placed' /\ Claims'
  BY <1>2, <1>4 DEF Placed, Claims, Working
<1>7. TypeOK'
  BY <1>1, <1>3, <1>4 DEF IInv, TypeOK, ApprovalsOK, HistoryOK
<1>8. QED BY <1>5, <1>6, <1>7 DEF IInv, Story, Order

LEMMA ResolveRuleKeeps == ASSUME IInv, NEW r \in Rules, ResolveRule(r) PROVE IInv'
<1>1. /\ pass.pc = "rule" /\ pass' = Done(r, pass)
      /\ UNCHANGED <<verdict, live, armed, approver, clock, requests, sent, lastFire, burst>>
  BY DEF ResolveRule
<1>2. PICK ids : ids \subseteq Active(alert) /\ RowsOK' /\ Closed(ids)
                   /\ quietAt' \in [Rules -> Stamps]
  <2> DEFINE mine == IF r \in pass.pairs THEN ActiveOf(alert, r) ELSE {}
             closes == {i \in mine : \/ pass.verdict[r] = "out"
                                     \/ alert[i].status = "pending"
                                     \/ r \in AutoResolve}
  <2>1. closes \subseteq Active(alert)
    BY DEF ActiveOf
  <2>2. IF closes = {} THEN UNCHANGED <<alert, tags, quietAt>> ELSE Resolve(closes)
    BY DEF ResolveRule
  <2> HIDE DEF closes
  <2>3. CASE closes = {}
    BY <2>2, <2>3, ClosedNone DEF IInv, TypeOK
  <2>4. CASE closes # {}
    BY <2>1, <2>2, <2>4, ClosedSome DEF IInv
  <2>5. QED BY <2>3, <2>4
<1>3. pass' \in Passes /\ pass'.pc \in {"idle", "rule"}
  BY <1>1, DoneIs DEF IInv, TypeOK
<1>4. Story'
  BY <1>1, <1>2, <1>3, ClosedKeeps
<1>5. Placed' /\ Claims' /\ ApprovalsOK'
  BY <1>1, <1>3, OwnStep DEF Working
<1>6. TypeOK'
  BY <1>1, <1>2, <1>3, <1>5 DEF IInv, TypeOK, PassOK, HistoryOK
<1>7. QED BY <1>4, <1>5, <1>6 DEF IInv, Story, Order

LEMMA ViolatedRuleKeeps == ASSUME IInv, NEW r \in Rules, ViolatedRule(r) PROVE IInv'
<1>1. /\ pass.pc = "rule"
      /\ UNCHANGED <<verdict, live, armed, approver, clock, sent, lastFire>>
      /\ quietAt' = [quietAt EXCEPT ![r] = Never]
      /\ burst' \in {burst, [burst EXCEPT ![r] = 0]}
  BY DEF ViolatedRule
<1>2. PICK i \in Ids : \E old, new \in AlertRows, f \in Details :
              /\ About(r, i, old)
              /\ \/ Waits(i, old, new, r)
                 \/ Launches(i, old, new, f, r)
                 \/ Notes(i, old, new, f, r)
  BY Violates DEF IInv
<1>3. PICK old \in AlertRows, new \in AlertRows, f \in Details :
              /\ About(r, i, old)
              /\ \/ Waits(i, old, new, r)
                 \/ Launches(i, old, new, f, r)
                 \/ Notes(i, old, new, f, r)
  BY <1>2
<1>4. alert' = [alert EXCEPT ![i] = new]
  BY <1>3 DEF Waits, Launches, Notes, Touched
<1>5. RowsOK' /\ Rows(alert') = Rows(alert) \cup {i}
  BY <1>4, OneRow DEF IInv, TypeOK
<1>6. pass' \in Passes /\ (Working' => pass'.id = i)
  <2>1. pass \in Passes /\ i \in 0 .. MaxAlerts
    BY DEF IInv, TypeOK, PassOK, Ids
  <2>2. CASE Waits(i, old, new, r) \/ Notes(i, old, new, f, r)
    BY <2>2, DoneIs DEF Waits, Notes, Working, IInv, TypeOK
  <2>3. CASE Launches(i, old, new, f, r)
    <3>1. pass' = [pass EXCEPT !.pc = "sending", !.id = i, !.detail = f]
      BY <2>3 DEF Launches
    <3>2. QED BY <2>1, <3>1 DEF Passes
  <2>4. QED BY <1>3, <2>2, <2>3
<1>7. requests' \in 0 .. MaxRequests
  <2>1. requests \in 0 .. MaxRequests /\ MaxRequests \in Nat
    BY AlertsAssumption DEF IInv, TypeOK, HistoryOK
  <2>2. requests' = requests \/ requests' = requests + 1
    BY <1>3 DEF Waits, Launches, Notes, Acted
  <2>3. requests' = requests \/ requests' <= MaxRequests
    BY DEF ViolatedRule
  <2>4. QED BY <2>1, <2>2, <2>3
<1>8. Story'
  BY ViolatedKeeps
<1>9. Placed' /\ Claims' /\ ApprovalsOK'
  BY <1>1, <1>5, <1>6, OwnStep
<1>10. HistoryOK'
  <2>1. quietAt \in [Rules -> Stamps] /\ burst \in [Rules -> Nat] /\ Never \in Stamps
    BY DEF IInv, TypeOK, HistoryOK, Stamps
  <2>2. quietAt' \in [Rules -> Stamps] /\ burst' \in [Rules -> Nat]
    BY <1>1, <2>1
  <2>3. QED BY <1>1, <1>7, <2>2 DEF IInv, TypeOK, HistoryOK
<1>11. TypeOK'
  BY <1>1, <1>5, <1>6, <1>9, <1>10 DEF IInv, TypeOK, PassOK
<1>12. QED BY <1>8, <1>9, <1>11 DEF IInv, Story, Order

LEMMA FinishRepairKeeps ==
    ASSUME IInv, NEW attempted \in BOOLEAN, FinishRepair(attempted) PROVE IInv'
<1>1. /\ pass.pc = "sending"
      /\ UNCHANGED <<verdict, live, armed, approver, clock, requests, sent, quietAt>>
  BY DEF FinishRepair
<1>2. /\ pass.id \in Rows(alert) /\ alert[pass.id] \in AlertRows
      /\ pass' = Done(alert[pass.id].rule, pass)
  BY RepairDoes DEF IInv, Order
<1>3. PICK d \in Details, new \in AlertRows : Repaired(attempted, d, new)
  BY RepairDoes DEF IInv, Order
<1>4. pass' \in Passes /\ pass'.pc \in {"idle", "rule"}
  BY <1>2, DoneIs DEF IInv, TypeOK
<1>5. RowsOK'
  <2>1. RowsOK /\ pass.id \in Ids /\ alert' = [alert EXCEPT ![pass.id] = new]
    BY <1>2, <1>3, Null DEF Repaired, IInv, TypeOK
  <2>2. QED BY <2>1, OneRow
<1>6. lastFire' \in [Rules -> Stamps] /\ burst' \in [Rules -> Nat]
  <2>1. /\ lastFire \in [Rules -> Stamps] /\ burst \in [Rules -> Nat] /\ clock \in Stamps
        /\ alert[pass.id].rule \in Rules
    BY <1>2, RowHas DEF IInv, TypeOK, HistoryOK, Stamps
  <2>2. CASE attempted
    BY <1>3, <2>1, <2>2 DEF Repaired
  <2>3. CASE ~attempted
    BY <1>3, <2>1, <2>3 DEF Repaired
  <2>4. QED BY <2>2, <2>3
<1>7. Story'
  BY RepairKeeps
<1>8. Placed' /\ Claims' /\ ApprovalsOK'
  BY <1>1, <1>4, OwnStep DEF Working
<1>9. TypeOK'
  BY <1>1, <1>4, <1>5, <1>6, <1>8 DEF IInv, TypeOK, PassOK, HistoryOK
<1>10. QED BY <1>7, <1>8, <1>9 DEF IInv, Story, Order

----------------------------------------------------------------------------
(* The administrators change a row without its counters.                    *)
RowCalm(new, now) ==
    /\ new.rule = now.rule /\ new.resolvedAt = now.resolvedAt
    /\ (new.status = "resolved") <=> (now.status = "resolved")
    /\ new.ver >= now.ver /\ Copied(now.detail, new.detail)

LEMMA CalmRow ==
    ASSUME IInv, NEW i \in Rows(alert), NEW new \in AlertRows,
           alert' = [alert EXCEPT ![i] = new], RowCalm(new, alert[i]),
           UNCHANGED <<pass, clock, lastFire, burst, quietAt>>
    PROVE  /\ RowsOK' /\ Story' /\ Rows(alert') = Rows(alert)
           /\ alert'[i] = new
           /\ \A j \in Rows(alert) : /\ alert'[j].ver \in Nat
                                     /\ alert'[j].ver >= alert[j].ver
                                     /\ Copied(alert[j].detail, alert'[j].detail)
<1>1. i \in Ids /\ RowsOK
  BY Null DEF IInv, TypeOK
<1>2. /\ RowsOK' /\ Rows(alert') = Rows(alert)
      /\ alert'[i] = new /\ \A j \in Ids \ {i} : alert'[j] = alert[j]
  <2>1. /\ RowsOK' /\ Rows(alert') = Rows(alert) \cup {i}
        /\ alert'[i] = new /\ \A j \in Ids \ {i} : alert'[j] = alert[j]
    BY <1>1, OneRow
  <2>2. QED BY <2>1
<1>3. ASSUME NEW j \in Rows(alert)
      PROVE  /\ SameRow(j) /\ alert'[j].ver \in Nat /\ alert'[j].ver >= alert[j].ver
             /\ Copied(alert[j].detail, alert'[j].detail)
  <2>1. alert[j].ver \in Nat /\ new.ver \in Nat
    BY <1>1, RowIs, RowHas DEF RowsOK
  <2>2. CASE j = i
    BY <1>2, <2>1, <2>2 DEF RowCalm, SameRow
  <2>3. CASE j # i
    <3>1. alert'[j] = alert[j]
      BY <1>2, <2>3, Null
    <3>2. QED BY <2>1, <3>1 DEF SameRow, Copied
  <2>4. QED BY <2>2, <2>3
<1>4. Calm
  BY <1>2, <1>3 DEF Calm
<1>5. Story'
  BY <1>4, CalmKeeps
<1>6. QED BY <1>2, <1>3, <1>5

(* The rows' new shapes.                                                    *)
LEMMA Edits ==
    ASSUME NEW now \in AlertRows, NEW d \in Details, NEW n \in Nat
    PROVE  /\ [d EXCEPT !.pending = 0] \in Details
           /\ [d EXCEPT !.pending = 0].declined = d.declined
           /\ [d EXCEPT !.pending = 0].pending = 0
           /\ Copied(d, [d EXCEPT !.pending = 0])
           /\ [d EXCEPT !.pending = 0, !.declined = TRUE] \in Details
           /\ [d EXCEPT !.pending = 0, !.declined = TRUE].pending = 0
           /\ [d EXCEPT !.pending = 0, !.declined = TRUE].declined
           /\ Copied(d, [d EXCEPT !.pending = 0, !.declined = TRUE])
           /\ [d EXCEPT !.approved = n] \in Details
           /\ [d EXCEPT !.approved = n].pending = d.pending
           /\ [d EXCEPT !.approved = n].declined = d.declined
           /\ Copied(d, [d EXCEPT !.approved = n])
<1>1. /\ [d EXCEPT !.pending = 0] \in Details
      /\ [d EXCEPT !.pending = 0].declined = d.declined
      /\ [d EXCEPT !.pending = 0].pending = 0
      /\ Copied(d, [d EXCEPT !.pending = 0])
  BY DEF Details, Copied
<1>2. /\ [d EXCEPT !.pending = 0, !.declined = TRUE] \in Details
      /\ [d EXCEPT !.pending = 0, !.declined = TRUE].pending = 0
      /\ [d EXCEPT !.pending = 0, !.declined = TRUE].declined
      /\ Copied(d, [d EXCEPT !.pending = 0, !.declined = TRUE])
  BY DEF Details, Copied
<1>3. /\ [d EXCEPT !.approved = n] \in Details
      /\ [d EXCEPT !.approved = n].pending = d.pending
      /\ [d EXCEPT !.approved = n].declined = d.declined
      /\ Copied(d, [d EXCEPT !.approved = n])
  BY DEF Details, Copied
<1>4. QED BY <1>1, <1>2, <1>3

LEMMA RowEdits ==
    ASSUME NEW now \in AlertRows, NEW d \in Details, Copied(now.detail, d)
    PROVE  /\ [now EXCEPT !.detail = d] \in AlertRows
           /\ [now EXCEPT !.detail = d].detail = d
           /\ RowCalm([now EXCEPT !.detail = d], now)
           /\ [now EXCEPT !.detail = d, !.ver = @ + 1] \in AlertRows
           /\ [now EXCEPT !.detail = d, !.ver = @ + 1].detail = d
           /\ [now EXCEPT !.detail = d, !.ver = @ + 1].ver = now.ver + 1
           /\ RowCalm([now EXCEPT !.detail = d, !.ver = @ + 1], now)
           /\ now.status = "pending" =>
                /\ [now EXCEPT !.status = "open"] \in AlertRows
                /\ [now EXCEPT !.status = "open"].detail = now.detail
                /\ [now EXCEPT !.status = "open"].ver = now.ver
                /\ RowCalm([now EXCEPT !.status = "open"], now)
<1>1. /\ [now EXCEPT !.detail = d] \in AlertRows
      /\ [now EXCEPT !.detail = d].detail = d
      /\ RowCalm([now EXCEPT !.detail = d], now)
  BY DEF AlertRows, RowCalm
<1>2. /\ [now EXCEPT !.detail = d, !.ver = @ + 1] \in AlertRows
      /\ [now EXCEPT !.detail = d, !.ver = @ + 1].detail = d
      /\ [now EXCEPT !.detail = d, !.ver = @ + 1].ver = now.ver + 1
      /\ RowCalm([now EXCEPT !.detail = d, !.ver = @ + 1], now)
  <2> DEFINE v == now.ver + 1
  <2>1. v \in Nat /\ now.ver \in Nat
    BY RowHas
  <2>2. v >= now.ver
    BY <2>1
  <2> HIDE DEF v
  <2>3. /\ [now EXCEPT !.detail = d, !.ver = v] \in AlertRows
        /\ [now EXCEPT !.detail = d, !.ver = v].detail = d
        /\ [now EXCEPT !.detail = d, !.ver = v].ver = v
        /\ RowCalm([now EXCEPT !.detail = d, !.ver = v], now)
    BY <2>1, <2>2 DEF AlertRows, RowCalm
  <2>4. QED BY <2>3 DEF v
<1>3. now.status = "pending" =>
                /\ [now EXCEPT !.status = "open"] \in AlertRows
                /\ [now EXCEPT !.status = "open"].detail = now.detail
                /\ [now EXCEPT !.status = "open"].ver = now.ver
                /\ RowCalm([now EXCEPT !.status = "open"], now)
  BY DEF AlertRows, RowCalm, Copied
<1>4. QED BY <1>1, <1>2, <1>3

LEMMA AcknowledgeKeeps == ASSUME IInv, NEW i \in Ids, Acknowledge(i) PROVE IInv'
<1> DEFINE new == [alert[i] EXCEPT !.status = "open"]
<1>1. /\ i \in Rows(alert) /\ alert[i].status = "pending"
      /\ alert' = [alert EXCEPT ![i] = new]
      /\ UNCHANGED <<verdict, live, armed, pass, approver, clock, requests, ghosts>>
  BY DEF Acknowledge, Active
<1>2. new \in AlertRows /\ RowCalm(new, alert[i]) /\ new.ver = alert[i].ver
  <2>1. alert[i] \in AlertRows /\ alert[i].detail \in Details
    BY <1>1, RowIs, RowHas DEF IInv, TypeOK, RowsOK
  <2>2. Copied(alert[i].detail, alert[i].detail)
    BY DEF Copied
  <2>3. QED BY <1>1, <2>1, <2>2, RowEdits
<1> HIDE DEF new
<1>3. /\ RowsOK' /\ Story' /\ Rows(alert') = Rows(alert)
      /\ \A j \in Rows(alert) : /\ alert'[j].ver \in Nat /\ alert'[j].ver >= alert[j].ver
                                /\ Copied(alert[j].detail, alert'[j].detail)
  BY <1>1, <1>2, CalmRow DEF ghosts
<1>4. Claims'
  <2>1. \A j \in Rows(alert) : alert[j].ver \in Nat
    BY RowIs, RowHas DEF IInv, TypeOK, RowsOK
  <2>2. QED BY <1>1, <1>3, <2>1, ClaimsKept
<1>5. TypeOK' /\ Placed'
  BY <1>1, <1>3 DEF IInv, TypeOK, PassOK, ApprovalsOK, HistoryOK, ghosts, Order, Placed, Working
<1>6. QED BY <1>3, <1>4, <1>5 DEF IInv, Story, Order

LEMMA ResolveByHandKeeps == ASSUME IInv, NEW i \in Ids, ResolveByHand(i) PROVE IInv'
<1>1. /\ {i} \subseteq Active(alert) /\ Resolve({i})
      /\ UNCHANGED <<verdict, live, armed, pass, approver, clock, requests, sent,
                     lastFire, burst>>
  BY DEF ResolveByHand
<1>2. RowsOK' /\ Closed({i}) /\ quietAt' \in [Rules -> Stamps]
  BY <1>1, ClosedSome DEF IInv
<1>3. Story'
  BY <1>1, <1>2, ClosedKeeps
<1>4. Claims'
  <2>1. \A j \in Rows(alert) : /\ alert'[j].ver \in Nat /\ alert'[j].ver = alert[j].ver
                               /\ Copied(alert[j].detail, alert'[j].detail)
    BY <1>2, RowIs, RowHas DEF IInv, TypeOK, RowsOK, Closed, Copied
  <2>2. QED BY <1>1, <2>1, ClaimsKept
<1>5. TypeOK' /\ Placed'
  BY <1>1, <1>2 DEF IInv, TypeOK, PassOK, ApprovalsOK, HistoryOK, Closed, Order, Placed, Working
<1>6. QED BY <1>3, <1>4, <1>5 DEF IInv, Story, Order

LEMMA RejectKeeps == ASSUME IInv, NEW i \in Ids, Reject(i) PROVE IInv'
<1> DEFINE d == [alert[i].detail EXCEPT !.pending = 0, !.declined = TRUE]
           new == [alert[i] EXCEPT !.detail = d]
<1>1. /\ i \in Rows(alert)
      /\ alert' = [alert EXCEPT ![i] = new]
      /\ UNCHANGED <<verdict, live, armed, pass, approver, clock, requests, sent,
                     lastFire, burst, quietAt>>
  BY DEF Reject, Rejectable
<1>2. new \in AlertRows /\ RowCalm(new, alert[i])
  <2>1. alert[i] \in AlertRows /\ alert[i].detail \in Details /\ 0 \in Nat
    BY <1>1, RowIs, RowHas DEF IInv, TypeOK, RowsOK
  <2>2. d \in Details /\ Copied(alert[i].detail, d)
    BY <2>1, Edits
  <2> HIDE DEF d
  <2>3. QED BY <2>1, <2>2, RowEdits
<1> HIDE DEF new
<1>3. /\ RowsOK' /\ Story' /\ Rows(alert') = Rows(alert)
      /\ \A j \in Rows(alert) : /\ alert'[j].ver \in Nat /\ alert'[j].ver >= alert[j].ver
                                /\ Copied(alert[j].detail, alert'[j].detail)
  BY <1>1, <1>2, CalmRow
<1>4. Claims'
  <2>1. \A j \in Rows(alert) : alert[j].ver \in Nat
    BY RowIs, RowHas DEF IInv, TypeOK, RowsOK
  <2>2. QED BY <1>1, <1>3, <2>1, ClaimsKept
<1>5. TypeOK' /\ Placed'
  BY <1>1, <1>3 DEF IInv, TypeOK, PassOK, ApprovalsOK, HistoryOK, Order, Placed, Working
<1>6. QED BY <1>3, <1>4, <1>5 DEF IInv, Story, Order

----------------------------------------------------------------------------
(* The approvals.                                                           *)
LEMMA StartApprovalKeeps ==
    ASSUME IInv, Apart, NEW a \in Approvers, NEW i \in Ids, StartApproval(a, i) PROVE IInv'
<1> DEFINE mine == [IdleApprover EXCEPT !.pc = "claim", !.id = i]
<1>1. /\ i \in Rows(alert) /\ pass.pc = "idle"
      /\ approver' = [approver EXCEPT ![a] = mine]
      /\ UNCHANGED <<alert, verdict, live, armed, pass, clock, requests, ghosts>>
  BY Alone DEF StartApproval, Active
<1>2. mine \in Approvals /\ mine.pc = "claim" /\ mine.id = i
  <2> DEFINE z == IdleApprover
  <2>1. z \in Approvals /\ i \in 0 .. MaxAlerts
    BY Blank, AlertsAssumption DEF Ids
  <2> HIDE DEF z
  <2>2. LET m == [z EXCEPT !.pc = "claim", !.id = i]
        IN  m \in Approvals /\ m.pc = "claim" /\ m.id = i
    BY <2>1 DEF Approvals
  <2>3. QED BY <2>2 DEF z
<1> HIDE DEF mine
<1>3. ApprovalsOK' /\ approver'[a] = mine /\ \A b \in Approvers \ {a} : approver'[b] = approver[b]
  BY <1>1, <1>2 DEF IInv, TypeOK, ApprovalsOK
<1>4. TypeOK' /\ Story'
  <2>1. TypeOK'
    BY <1>1, <1>3 DEF IInv, TypeOK, RowsOK, PassOK, HistoryOK, ghosts
  <2>2. Calm
    BY <1>1 DEF Calm, SameRow, Copied, ghosts
  <2>3. QED BY <2>1, <2>2, CalmKeeps
<1>5. Placed' /\ Claims'
  BY <1>1, <1>2, <1>3 DEF IInv, Order, Placed, Claims, Working
<1>6. QED BY <1>4, <1>5 DEF IInv, Story, Order

LEMMA ReadClaimKeeps == ASSUME IInv, NEW a \in Approvers, ReadClaim(a) PROVE IInv'
<1> DEFINE me == approver[a]
           now == alert[me.id]
           read == [me EXCEPT !.pc = "write", !.detail = now.detail, !.ver = now.ver,
                              !.req = now.detail.pending]
<1>1. /\ approver' = [approver EXCEPT ![a] = IF now.detail.declined \/ now.detail.pending = 0
                                             THEN IdleApprover ELSE read]
      /\ me.pc = "claim"
      /\ UNCHANGED <<alert, verdict, live, armed, pass, clock, requests, ghosts>>
  BY DEF ReadClaim
<1>2. me.id \in Rows(alert) /\ now \in AlertRows /\ pass.pc = "idle" /\ me \in Approvals
  BY <1>1, RowIs DEF IInv, Order, Placed, TypeOK, RowsOK, ApprovalsOK
<1>3. read \in Approvals /\ read.id = me.id /\ read.ver = now.ver /\ read.detail = now.detail
  BY <1>2, RowHas, DetailHas DEF Approvals
<1>4. approver' \in [Approvers -> Approvals] /\ approver'[a] \in {IdleApprover, read}
        /\ \A b \in Approvers \ {a} : approver'[b] = approver[b]
  BY <1>1, <1>3, Blank DEF IInv, TypeOK, ApprovalsOK
<1> HIDE DEF read, me
<1>5. TypeOK' /\ Story'
  <2>1. TypeOK'
    BY <1>1, <1>4 DEF IInv, TypeOK, RowsOK, PassOK, ApprovalsOK, HistoryOK, ghosts
  <2>2. Calm
    BY <1>1 DEF Calm, SameRow, Copied, ghosts
  <2>3. QED BY <2>1, <2>2, CalmKeeps
<1>6. Placed'
  BY <1>1, <1>2, <1>3, <1>4, Blank DEF IInv, Order, Placed, Working
<1>7. Claims'
  <2>1. \A j \in Rows(alert) : /\ alert'[j].ver \in Nat /\ alert'[j].ver = alert[j].ver
                               /\ Copied(alert[j].detail, alert'[j].detail)
    BY <1>1, RowIs, RowHas DEF IInv, TypeOK, RowsOK, Copied
  <2>2. ASSUME NEW b \in Approvers, approver'[b].pc = "write"
        PROVE  \/ approver'[b] = approver[b]
               \/ LET row == alert'[approver'[b].id]
                  IN  /\ row.ver \in Nat
                      /\ approver'[b].ver = row.ver /\ approver'[b].detail = row.detail
    <3>1. CASE b # a
      BY <1>4, <3>1
    <3>2. CASE b = a
      <4>1. approver'[b] = read
        BY <1>4, <2>2, <3>2, Blank
      <4>2. now.ver \in Nat
        BY <1>2, RowHas
      <4>3. QED BY <1>1, <1>3, <4>1, <4>2
    <3>3. QED BY <3>1, <3>2
  <2>3. QED BY <2>1, <2>2, ClaimsKept
<1>8. QED BY <1>5, <1>6, <1>7 DEF IInv, Story, Order

(* The rest of an approval changes its alert's version, if anything.        *)
Moved(a, pc) ==
    /\ approver'[a] \in Approvals /\ approver'[a].pc = pc /\ pc # "write"
    /\ approver'[a].id = approver[a].id \/ pc = "idle"
    /\ approver' = [approver EXCEPT ![a] = approver'[a]]

LEMMA MovedKeeps ==
    ASSUME IInv, NEW a \in Approvers, NEW pc, Moved(a, pc), approver[a].pc # "idle",
           UNCHANGED <<verdict, live, armed, pass, clock, requests, lastFire, burst, quietAt>>,
           sent' \in [1 .. MaxRequests -> Nat],
           \/ alert' = alert
           \/ \E new \in AlertRows : /\ alert' = [alert EXCEPT ![approver[a].id] = new]
                                     /\ RowCalm(new, alert[approver[a].id])
                                     /\ new.ver = alert[approver[a].id].ver + 1
    PROVE  IInv'
<1> DEFINE i == approver[a].id
<1>1. i \in Rows(alert) /\ pass.pc = "idle" /\ alert[i] \in AlertRows
  BY RowIs DEF IInv, Order, Placed, TypeOK, RowsOK
<1>2. /\ ApprovalsOK' /\ approver'[a].pc # "write"
      /\ \A b \in Approvers \ {a} : approver'[b] = approver[b]
      /\ approver'[a].pc # "idle" => approver'[a].id = i
  BY DEF Moved, IInv, TypeOK, ApprovalsOK
<1>3. /\ RowsOK' /\ Story' /\ Rows(alert') = Rows(alert)
      /\ \A j \in Rows(alert) :
            /\ alert'[j].ver \in Nat /\ alert'[j].ver >= alert[j].ver
            /\ Copied(alert[j].detail, alert'[j].detail)
  <2>1. CASE alert' = alert
    <3>1. Calm
      BY <2>1 DEF Calm, SameRow, Copied
    <3>2. \A j \in Rows(alert) : alert[j].ver \in Nat
      BY RowIs, RowHas DEF IInv, TypeOK, RowsOK
    <3>3. QED BY <2>1, <3>1, <3>2, CalmKeeps DEF Copied, IInv, TypeOK, RowsOK
  <2>2. CASE alert' # alert
    <3>1. PICK new \in AlertRows : /\ alert' = [alert EXCEPT ![i] = new]
                                   /\ RowCalm(new, alert[i])
      BY <2>2
    <3> HIDE DEF i
    <3>2. QED BY <1>1, <3>1, CalmRow
  <2>3. QED BY <2>1, <2>2
<1>4. Claims'
  <2>1. \A j \in Rows(alert) : alert[j].ver \in Nat
    BY RowIs, RowHas DEF IInv, TypeOK, RowsOK
  <2>2. \A b \in Approvers : approver'[b].pc = "write" => approver'[b] = approver[b]
    BY <1>2
  <2>3. QED BY <1>3, <2>1, <2>2, ClaimsKept
<1>5. TypeOK'
  BY <1>2, <1>3 DEF IInv, TypeOK, PassOK, HistoryOK
<1>6. Placed'
  BY <1>1, <1>2, <1>3 DEF IInv, Order, Placed, Working
<1>7. QED BY <1>3, <1>4, <1>5, <1>6 DEF IInv, Story, Order

LEMMA WriteClaimKeeps == ASSUME IInv, NEW a \in Approvers, WriteClaim(a) PROVE IInv'
<1> DEFINE me == approver[a]
           now == alert[me.id]
           d == [me.detail EXCEPT !.pending = 0]
           new == [now EXCEPT !.detail = d, !.ver = @ + 1]
<1>1. /\ me.pc = "write"
      /\ UNCHANGED <<verdict, live, armed, pass, clock, requests, ghosts>>
      /\ \/ /\ now.ver = me.ver /\ alert' = [alert EXCEPT ![me.id] = new]
            /\ approver' = [approver EXCEPT ![a].pc = "send"]
         \/ /\ alert' = alert
            /\ \/ approver' = [approver EXCEPT ![a].pc = "claim"]
               \/ approver' = [approver EXCEPT ![a] = IdleApprover]
  BY DEF WriteClaim
<1>2. me \in Approvals /\ me.detail \in Details /\ now \in AlertRows /\ now.detail \in Details
  BY <1>1, RowIs, RowHas DEF IInv, Order, Placed, TypeOK, RowsOK, ApprovalsOK, Approvals
<1>3. \E pc : Moved(a, pc)
  <2>1. approver \in [Approvers -> Approvals]
    BY DEF IInv, TypeOK, ApprovalsOK
  <2>2. \A pc \in {"send", "claim"} : [me EXCEPT !.pc = pc] \in Approvals
           /\ [me EXCEPT !.pc = pc].pc = pc /\ [me EXCEPT !.pc = pc].id = me.id
    BY <1>2 DEF Approvals
  <2>3. ASSUME NEW pc \in {"send", "claim"}, approver' = [approver EXCEPT ![a].pc = pc]
        PROVE  Moved(a, pc)
    <3>1. approver'[a] = [me EXCEPT !.pc = pc] /\ approver' = [approver EXCEPT ![a] = approver'[a]]
      BY <2>1, <2>3
    <3>2. QED BY <2>2, <3>1 DEF Moved
  <2>4. ASSUME approver' = [approver EXCEPT ![a] = IdleApprover] PROVE Moved(a, "idle")
    BY <2>1, <2>4, Blank DEF Moved
  <2>5. QED BY <1>1, <2>3, <2>4
<1>4. ASSUME now.ver = me.ver, alert' = [alert EXCEPT ![me.id] = new]
      PROVE  /\ new \in AlertRows /\ RowCalm(new, now) /\ new.ver = now.ver + 1
  <2>1. Copied(me.detail, now.detail)
    BY <1>1, <1>4 DEF IInv, Claims
  <2>2. d \in Details /\ Copied(me.detail, d)
    BY <1>2, Edits
  <2>3. Copied(now.detail, d)
    BY <2>1, <2>2 DEF Copied
  <2> HIDE DEF d, now
  <2>4. QED BY <1>2, <2>2, <2>3, RowEdits
<1>5. sent' \in [1 .. MaxRequests -> Nat]
  BY <1>1 DEF ghosts, IInv, TypeOK, HistoryOK
<1> HIDE DEF new
<1>6. QED BY <1>1, <1>3, <1>4, <1>5, MovedKeeps DEF ghosts

LEMMA SendApprovedKeeps == ASSUME IInv, NEW a \in Approvers, SendApproved(a) PROVE IInv'
<1>1. /\ approver[a].pc = "send"
      /\ approver' = [approver EXCEPT ![a].pc = "record"]
      /\ sent' \in {sent, [sent EXCEPT ![approver[a].req] = @ + 1]}
      /\ UNCHANGED <<alert, verdict, live, armed, pass, clock, requests,
                     lastFire, burst, quietAt>>
  BY DEF SendApproved
<1>2. Moved(a, "record")
  BY <1>1 DEF Moved, IInv, TypeOK, ApprovalsOK, Approvals
<1>3. sent' \in [1 .. MaxRequests -> Nat]
  BY <1>1 DEF IInv, TypeOK, HistoryOK
<1>4. QED BY <1>1, <1>2, <1>3, MovedKeeps

LEMMA RecordOutcomeKeeps == ASSUME IInv, NEW a \in Approvers, RecordOutcome(a) PROVE IInv'
<1> DEFINE i == approver[a].id
           now == alert[i]
           d == [now.detail EXCEPT !.approved = requests]
           new == [now EXCEPT !.detail = d, !.ver = @ + 1]
<1>1. /\ approver[a].pc = "record"
      /\ alert' = [alert EXCEPT ![i] = new]
      /\ approver' = [approver EXCEPT ![a] = IdleApprover]
      /\ UNCHANGED <<verdict, live, armed, pass, clock, requests, ghosts>>
  BY DEF RecordOutcome
<1>2. Moved(a, "idle")
  BY <1>1, Blank DEF Moved, IInv, TypeOK, ApprovalsOK
<1>3. new \in AlertRows /\ RowCalm(new, now) /\ new.ver = now.ver + 1
  <2>1. now \in AlertRows /\ now.detail \in Details /\ requests \in Nat
    <3>1. now \in AlertRows
      BY <1>1, RowIs DEF IInv, Order, Placed, TypeOK, RowsOK
    <3>2. requests \in Nat
      BY DEF IInv, TypeOK, HistoryOK
    <3>3. QED BY <3>1, <3>2, RowHas
  <2>2. d \in Details /\ Copied(now.detail, d)
    BY <2>1, Edits
  <2> HIDE DEF d, now
  <2>3. QED BY <2>1, <2>2, RowEdits
<1>4. sent' \in [1 .. MaxRequests -> Nat]
  BY <1>1 DEF ghosts, IInv, TypeOK, HistoryOK
<1> HIDE DEF new
<1>5. QED BY <1>1, <1>2, <1>3, <1>4, MovedKeeps DEF ghosts

----------------------------------------------------------------------------
(* What happens to the device and to dispatcher.yaml, and the clock.        *)
LEMMA ChangeKeeps == ASSUME IInv, Change PROVE IInv'
<1>1. UNCHANGED <<alert, pass, approver, clock, requests, sent, lastFire, burst, quietAt>>
  BY DEF Change, ghosts
<1>2. verdict' \in [Rules -> Verdicts] /\ live' \subseteq Rules /\ armed' \in BOOLEAN
  BY DEF Change, IInv, TypeOK, PassOK, Verdicts
<1>3. TypeOK'
  BY <1>1, <1>2 DEF IInv, TypeOK, RowsOK, PassOK, ApprovalsOK, HistoryOK
<1>4. Story'
  <2>1. Calm
    BY <1>1 DEF Calm, SameRow, Copied
  <2>2. QED BY <2>1, CalmKeeps
<1>5. Placed' /\ Claims'
  BY <1>1 DEF IInv, Order, Placed, Claims, Working
<1>6. QED BY <1>3, <1>4, <1>5 DEF IInv, Story, Order

LEMMA TickKeepsAll == ASSUME IInv, Tick PROVE IInv'
<1>1. /\ clock' = clock + 1 /\ clock' \in Nat
      /\ UNCHANGED <<alert, verdict, live, armed, pass, approver, requests, sent,
                     lastFire, burst, quietAt>>
  BY DEF Tick, ghosts, IInv, TypeOK, HistoryOK
<1>2. TypeOK'
  BY <1>1 DEF IInv, TypeOK, RowsOK, PassOK, ApprovalsOK, HistoryOK
<1>3. Placed' /\ Claims'
  BY <1>1 DEF IInv, Order, Placed, Claims, Working
<1>4. QED BY <1>2, <1>3, TickKeeps DEF IInv, Story, Order

----------------------------------------------------------------------------
LEMMA InitHolds == Init => IInv
<1> SUFFICES ASSUME Init PROVE IInv
  OBVIOUS
<1>1. Rows(alert) = {}
  BY DEF Init, Rows
<1>2. TypeOK
  <2>1. RowsOK
    BY DEF Init, RowsOK
  <2>2. PassOK
    BY Blank DEF Init, PassOK, Verdicts
  <2>3. ApprovalsOK
    BY Blank DEF Init, ApprovalsOK
  <2>4. HistoryOK
    BY AlertsAssumption DEF Init, HistoryOK, Stamps
  <2>5. QED BY <2>1, <2>2, <2>3, <2>4 DEF TypeOK
<1>3. InOrder
  <2>1. 0 \in 0 .. MaxAlerts /\ Rows(alert) = 1 .. 0
    BY <1>1, AlertsAssumption
  <2>2. QED BY <2>1 DEF InOrder
<1>4. pass.pc = "idle" /\ \A a \in Approvers : approver[a].pc = "idle"
  BY Blank DEF Init
<1>5. Order /\ Claims /\ Firing
  BY <1>1, <1>3, <1>4 DEF Order, Placed, Succession, Claims, Firing, Working
<1>6. Budgets
  <2>1. MaxAttempts \in Nat /\ \A r \in Rules : burst[r] = 0 /\ lastFire[r] = -1 /\ clock = 0
    BY AlertsAssumption DEF Init, Never
  <2>2. \A r, i : ~Latest(alert, r, i)
    BY <1>1 DEF Latest
  <2>3. QED BY <2>1, <2>2 DEF Budgets, Counted, Spaced, Init
<1>7. QED BY <1>2, <1>5, <1>6 DEF IInv

LEMMA StepKeeps == ASSUME Apart, IInv, Next PROVE IInv'
<1>1. ASSUME NEW sweep \in BOOLEAN, StartPass(sweep) PROVE IInv'
  BY <1>1, StartPassKeeps
<1>2. ASSUME NEW r \in Rules, ResolveRule(r) \/ ViolatedRule(r) PROVE IInv'
  BY <1>2, ResolveRuleKeeps, ViolatedRuleKeeps
<1>3. ASSUME NEW attempted \in BOOLEAN, FinishRepair(attempted) PROVE IInv'
  BY <1>3, FinishRepairKeeps
<1>4. ASSUME NEW i \in Ids, Acknowledge(i) \/ ResolveByHand(i) \/ Reject(i) PROVE IInv'
  BY <1>4, AcknowledgeKeeps, ResolveByHandKeeps, RejectKeeps
<1>5. ASSUME NEW a \in Approvers, NEW i \in Ids, StartApproval(a, i) PROVE IInv'
  BY <1>5, StartApprovalKeeps
<1>6. ASSUME NEW a \in Approvers,
             ReadClaim(a) \/ WriteClaim(a) \/ SendApproved(a) \/ RecordOutcome(a)
      PROVE  IInv'
  BY <1>6, ReadClaimKeeps, WriteClaimKeeps, SendApprovedKeeps, RecordOutcomeKeeps
<1>7. QED BY <1>1, <1>2, <1>3, <1>4, <1>5, <1>6, ChangeKeeps, TickKeepsAll DEF Next

LEMMA StutterKeeps == ASSUME IInv, UNCHANGED vars PROVE IInv'
<1>1. TypeOK'
  BY DEF vars, IInv, TypeOK, RowsOK, PassOK, ApprovalsOK, HistoryOK
<1>2. Order' /\ Claims'
  BY DEF vars, IInv, Order, InOrder, Placed, Succession, Claims, Working
<1>3. Story'
  <2>1. Calm
    BY DEF vars, Calm, SameRow, Copied
  <2>2. QED BY <2>1, CalmKeeps
<1>4. QED BY <1>1, <1>2, <1>3 DEF IInv, Story

THEOREM Invariance == ASSUME Apart PROVE Spec => []IInv
<1>1. IInv /\ [Next]_vars => IInv'
  BY StepKeeps, StutterKeeps
<1>2. QED BY InitHolds, <1>1, PTL DEF Spec

(* A rule that is never quiet for longer than the cooldown gets MaxAttempts *)
(* runs of its remediation in all, however often its alert is resolved and  *)
(* a new one takes its place: the new one carries the count.                *)
THEOREM BudgetOfRepairs == ASSUME Apart PROVE Spec => []BudgetHeld
<1>1. IInv => BudgetHeld
  BY DEF IInv, Budgets, Counted, BudgetHeld
<1>2. QED BY <1>1, Invariance, PTL

(* Two runs of a rule's remediation are a cooldown apart, also when its     *)
(* alert was resolved and a new one opened in between.                      *)
THEOREM CooldownOfRepairs == ASSUME Apart PROVE Spec => CooldownRespected
<1> DEFINE Apart2(r) == burst'[r] > burst[r] /\ lastFire[r] # Never
                           => clock - lastFire[r] >= Cooldown
<1>1. ASSUME IInv, Next PROVE \A r \in Rules : Apart2(r)
  <2>1. burst \in [Rules -> Nat]
    BY <1>1 DEF IInv, TypeOK, HistoryOK
  <2>2. CASE \E attempted \in BOOLEAN : FinishRepair(attempted)
    <3>1. PICK attempted \in BOOLEAN : FinishRepair(attempted)
      BY <2>2
    <3>2. /\ Working
          /\ burst' \in {burst, [burst EXCEPT ![alert[pass.id].rule] = @ + 1]}
      BY <3>1 DEF FinishRepair, Working
    <3>3. ASSUME NEW r \in Rules, burst'[r] > burst[r] PROVE r = alert[pass.id].rule
      BY <2>1, <3>2, <3>3
    <3>4. QED BY <1>1, <3>2, <3>3 DEF IInv, Firing
  <2>3. CASE ~ \E attempted \in BOOLEAN : FinishRepair(attempted)
    <3>1. burst' = burst \/ \E r \in Rules : burst' = [burst EXCEPT ![r] = 0]
      <4>1. ASSUME NEW sweep \in BOOLEAN, StartPass(sweep) PROVE burst' = burst
        BY <4>1 DEF StartPass
      <4>2. ASSUME NEW r \in Rules, ResolveRule(r) PROVE burst' = burst
        BY <4>2 DEF ResolveRule
      <4>3. ASSUME NEW r \in Rules, ViolatedRule(r)
            PROVE  burst' = burst \/ burst' = [burst EXCEPT ![r] = 0]
        BY <4>3 DEF ViolatedRule
      <4>4. ASSUME NEW i \in Ids, Acknowledge(i) \/ ResolveByHand(i) \/ Reject(i)
            PROVE  burst' = burst
        BY <4>4 DEF Acknowledge, ResolveByHand, Reject, ghosts
      <4>5. ASSUME NEW a \in Approvers, NEW i \in Ids, StartApproval(a, i) PROVE burst' = burst
        BY <4>5 DEF StartApproval, ghosts
      <4>6. ASSUME NEW a \in Approvers,
                   ReadClaim(a) \/ WriteClaim(a) \/ SendApproved(a) \/ RecordOutcome(a)
            PROVE  burst' = burst
        BY <4>6 DEF ReadClaim, WriteClaim, SendApproved, RecordOutcome, ghosts
      <4>7. ASSUME Change \/ Tick PROVE burst' = burst
        BY <4>7 DEF Change, Tick, ghosts
      <4>8. QED BY <1>1, <2>3, <4>1, <4>2, <4>3, <4>4, <4>5, <4>6, <4>7 DEF Next
    <3>2. QED BY <2>1, <3>1
  <2>4. QED BY <2>2, <2>3
<1>2. ASSUME UNCHANGED vars, IInv PROVE \A r \in Rules : Apart2(r)
  BY <1>2 DEF vars, IInv, TypeOK, HistoryOK
<1>3. IInv /\ [Next]_vars => [\A r \in Rules : Apart2(r)]_vars
  BY <1>1, <1>2
<1>4. QED BY <1>3, Invariance, PTL DEF Spec, CooldownRespected

----------------------------------------------------------------------------
(* Refusals. Requests are numbered as they are asked for, no two alerts     *)
(* have the same one pending, and the copy an evaluation will write back    *)
(* has none that was refused, unless the row says so.                       *)
Pending(i) == alert[i].detail.pending
Numbered ==
    /\ refused \subseteq 1 .. requests
    /\ \A i \in Rows(alert) : Pending(i) <= requests
    /\ \A i, j \in Rows(alert) : i # j /\ Pending(i) # 0 => Pending(i) # Pending(j)
Carrying ==
    Working /\ pass.detail.pending # 0 =>
        /\ pass.detail.pending <= requests
        /\ \A j \in Rows(alert) \ {pass.id} : Pending(j) # pass.detail.pending
        /\ ~pass.detail.declined
        /\ pass.detail.pending \in refused => alert[pass.id].detail.declined
Asked == Numbered /\ Carrying /\ VetoHolds

(* Most steps leave the requests and the rows' tags alone.                  *)
Unasked ==
    /\ Rows(alert') = Rows(alert)
    /\ \A i \in Rows(alert) : /\ alert'[i].detail.pending = alert[i].detail.pending
                              /\ alert'[i].detail.declined = alert[i].detail.declined
                              /\ alert'[i].detail.tags = alert[i].detail.tags
                              /\ alert'[i].ver >= alert[i].ver
    /\ UNCHANGED <<requests, refused>>
    /\ pass'.pc # "sending" \/ pass' = pass

LEMMA UnaskedKeeps == ASSUME IInv, Asked, Unasked PROVE Asked'
<1>1. Numbered'
  BY DEF Asked, Numbered, Unasked, Pending
<1>2. Carrying'
  BY DEF IInv, Order, Placed, Asked, Carrying, Unasked, Pending, Working
<1>3. VetoHolds'
  BY DEF Asked, VetoHolds, Unasked
<1>4. QED BY <1>1, <1>2, <1>3 DEF Asked

LEMMA ClosedUnasked ==
    ASSUME IInv, NEW ids, ids \subseteq Active(alert),
           Resolve(ids) \/ UNCHANGED <<alert, tags, quietAt>>,
           UNCHANGED <<requests, refused>>, pass'.pc # "sending" \/ pass' = pass
    PROVE  Unasked
<1>1. Closed(ids) \/ Closed({})
  BY ClosedSome, ClosedNone DEF IInv, TypeOK
<1>2. \A i \in Rows(alert) : alert[i].ver \in Nat
  BY RowIs, RowHas DEF IInv, TypeOK, RowsOK
<1>3. QED BY <1>1, <1>2 DEF Closed, Unasked

LEMMA SameUnasked ==
    ASSUME IInv, UNCHANGED <<alert, requests, refused, pass>> PROVE Unasked
<1>1. \A i \in Rows(alert) : alert[i].ver \in Nat
  BY RowIs, RowHas DEF IInv, TypeOK, RowsOK
<1>2. QED BY <1>1 DEF Unasked

LEMMA StartsUnasked == ASSUME IInv, NEW sweep \in BOOLEAN, StartPass(sweep) PROVE Unasked
<1>1. /\ UNCHANGED <<requests, refused>> /\ pass'.pc # "sending"
      /\ Resolve(Orphans) \/ UNCHANGED <<alert, tags, quietAt>>
  BY DEF StartPass, IdlePass
<1>2. QED BY <1>1, ClosedUnasked DEF Orphans

LEMMA ResolvesUnasked == ASSUME IInv, NEW r \in Rules, ResolveRule(r) PROVE Unasked
<1> DEFINE mine == IF r \in pass.pairs THEN ActiveOf(alert, r) ELSE {}
           closes == {i \in mine : \/ pass.verdict[r] = "out"
                                   \/ alert[i].status = "pending"
                                   \/ r \in AutoResolve}
<1>1. /\ closes \subseteq Active(alert) /\ pass' = Done(r, pass)
      /\ UNCHANGED <<requests, refused>>
      /\ Resolve(closes) \/ UNCHANGED <<alert, tags, quietAt>>
  BY DEF ActiveOf, ResolveRule
<1>2. pass'.pc # "sending"
  BY <1>1, DoneIs DEF IInv, TypeOK
<1> HIDE DEF closes
<1>3. QED BY <1>1, <1>2, ClosedUnasked

LEMMA AcknowledgesUnasked == ASSUME IInv, NEW i \in Ids, Acknowledge(i) PROVE Unasked
<1> DEFINE new == [alert[i] EXCEPT !.status = "open"]
<1>1. /\ i \in Rows(alert) /\ alert[i].status = "pending"
      /\ alert' = [alert EXCEPT ![i] = new]
      /\ UNCHANGED <<pass, clock, requests, ghosts>>
  BY DEF Acknowledge, Active
<1>2. /\ new \in AlertRows /\ new.detail = alert[i].detail /\ new.ver >= alert[i].ver
      /\ \A j \in Rows(alert) : alert[j].ver >= alert[j].ver
  <2>1. alert[i] \in AlertRows /\ alert[i].detail \in Details
    BY <1>1, RowIs, RowHas DEF IInv, TypeOK, RowsOK
  <2>2. Copied(alert[i].detail, alert[i].detail)
    BY DEF Copied
  <2>3. \A j \in Rows(alert) : alert[j].ver \in Nat
    BY RowIs, RowHas DEF IInv, TypeOK, RowsOK
  <2>4. new \in AlertRows /\ new.detail = alert[i].detail /\ RowCalm(new, alert[i])
    BY <1>1, <2>1, <2>2, RowEdits
  <2> HIDE DEF new
  <2>5. QED BY <2>3, <2>4 DEF RowCalm
<1> HIDE DEF new
<1>3. Rows(alert') = Rows(alert) /\ alert'[i] = new /\ \A j \in Ids \ {i} : alert'[j] = alert[j]
  <2>1. RowsOK /\ RowsOK' /\ alert'[i] = new /\ Rows(alert') = Rows(alert) \cup {i}
          /\ \A j \in Ids \ {i} : alert'[j] = alert[j]
    BY <1>1, <1>2, OneRow DEF IInv, TypeOK
  <2>2. QED BY <1>1, <2>1
<1>4. QED BY <1>1, <1>2, <1>3, Null DEF Unasked, ghosts

LEMMA RecordsUnasked == ASSUME IInv, NEW a \in Approvers, RecordOutcome(a) PROVE Unasked
<1> DEFINE i == approver[a].id
           d == [alert[i].detail EXCEPT !.approved = requests]
           new == [alert[i] EXCEPT !.detail = d, !.ver = @ + 1]
<1>1. i \in Rows(alert) /\ alert' = [alert EXCEPT ![i] = new] /\ RowsOK
        /\ UNCHANGED <<pass, requests, refused>>
  BY DEF RecordOutcome, ghosts, IInv, Order, Placed, TypeOK
<1>2. /\ new \in AlertRows /\ new.detail = d /\ d.pending = alert[i].detail.pending
      /\ d.declined = alert[i].detail.declined /\ d.tags = alert[i].detail.tags
      /\ new.ver >= alert[i].ver
      /\ \A j \in Rows(alert) : alert[j].ver >= alert[j].ver
  <2>1. alert[i] \in AlertRows /\ alert[i].detail \in Details
    BY <1>1, RowIs, RowHas DEF RowsOK
  <2>2. requests \in Nat
    BY DEF IInv, TypeOK, HistoryOK
  <2>3. d \in Details /\ Copied(alert[i].detail, d) /\ d.pending = alert[i].detail.pending
          /\ d.declined = alert[i].detail.declined
    BY <2>1, <2>2, Edits
  <2>4. \A j \in Rows(alert) : alert[j].ver \in Nat
    BY <1>1, RowIs, RowHas DEF RowsOK
  <2> HIDE DEF d, i
  <2>5. new \in AlertRows /\ new.detail = d /\ RowCalm(new, alert[i])
    BY <2>1, <2>3, RowEdits
  <2> HIDE DEF new
  <2>6. QED BY <2>3, <2>4, <2>5 DEF RowCalm, Copied
<1> HIDE DEF new
<1>3. Rows(alert') = Rows(alert) \cup {i} /\ alert'[i] = new
        /\ \A j \in Ids \ {i} : alert'[j] = alert[j]
  BY <1>1, <1>2, OneRow, Null
<1>4. QED BY <1>1, <1>2, <1>3, Null DEF Unasked

LEMMA QuietSteps ==
    ASSUME IInv, [Next]_vars,
           ~ \E r \in Rules : ViolatedRule(r),
           ~ \E attempted \in BOOLEAN : FinishRepair(attempted),
           ~ \E i \in Ids : Reject(i),
           ~ \E a \in Approvers : WriteClaim(a)
    PROVE  Unasked
<1>1. ASSUME NEW i \in Ids, ResolveByHand(i) PROVE Unasked
  <2>1. /\ {i} \subseteq Active(alert) /\ Resolve({i})
        /\ UNCHANGED <<pass, requests, refused>>
    BY <1>1 DEF ResolveByHand
  <2>2. QED BY <2>1, ClosedUnasked
<1>2. ASSUME \/ \E a \in Approvers : \/ \E i \in Ids : StartApproval(a, i)
                                     \/ ReadClaim(a) \/ SendApproved(a)
             \/ Change \/ Tick \/ UNCHANGED vars
      PROVE  Unasked
  BY <1>2, SameUnasked DEF StartApproval, ReadClaim, SendApproved, Change, Tick, vars, ghosts
<1>3. QED
  BY <1>1, <1>2, StartsUnasked, ResolvesUnasked, AcknowledgesUnasked, RecordsUnasked DEF Next

(* The others change one row: its request is answered, or written back.     *)
RowOnly(i) ==
    /\ i \in Rows(alert) /\ Rows(alert') = Rows(alert)
    /\ \A j \in Rows(alert) \ {i} : alert'[j] = alert[j]
Answered(i) ==
    /\ RowOnly(i) /\ alert'[i].detail.pending = 0
    /\ alert'[i].status = alert[i].status /\ alert'[i].detail.tags = alert[i].detail.tags
    /\ UNCHANGED <<pass, requests>>

LEMMA ClaimWritten ==
    ASSUME IInv, NEW a \in Approvers, WriteClaim(a), approver[a].ver = alert[approver[a].id].ver
    PROVE  /\ Answered(approver[a].id) /\ refused' = refused /\ sent' = sent
           /\ approver[a].pc = "write"
           /\ alert'[approver[a].id].ver = approver[a].ver + 1
           /\ approver' = [approver EXCEPT ![a].pc = "send"]
           /\ pass.pc = "idle"
<1> DEFINE me == approver[a]
           now == alert[me.id]
           d == [me.detail EXCEPT !.pending = 0]
           new == [now EXCEPT !.detail = d, !.ver = @ + 1]
<1>1. /\ me.pc = "write" /\ now.ver = me.ver /\ alert' = [alert EXCEPT ![me.id] = new]
      /\ approver' = [approver EXCEPT ![a].pc = "send"]
      /\ UNCHANGED <<pass, requests, sent, refused>>
  BY DEF WriteClaim, ghosts
<1>2. /\ me.detail \in Details /\ now \in AlertRows /\ me.id \in Rows(alert) /\ me.id \in Ids
      /\ pass.pc = "idle"
  BY <1>1, RowIs DEF IInv, Order, Placed, TypeOK, RowsOK, ApprovalsOK, Approvals
<1>3. /\ new \in AlertRows /\ new.status = now.status /\ new.detail.pending = 0
      /\ new.detail.tags = now.detail.tags /\ new.ver = now.ver + 1
  <2>1. Copied(me.detail, now.detail)
    BY <1>1 DEF IInv, Claims
  <2>2. d \in Details /\ Copied(me.detail, d) /\ d.pending = 0
    BY <1>2, Edits
  <2>3. Copied(now.detail, d) /\ d.tags = now.detail.tags
    BY <2>1, <2>2 DEF Copied
  <2> HIDE DEF d, now
  <2>4. new \in AlertRows /\ new.detail = d /\ new.ver = now.ver + 1
    BY <1>2, <2>2, <2>3, RowEdits
  <2>5. new.status = now.status
    <3> DEFINE v == now.ver + 1
    <3> HIDE DEF v
    <3>1. [now EXCEPT !.detail = d, !.ver = v].status = now.status
      BY <1>2 DEF AlertRows
    <3>2. QED BY <3>1 DEF v
  <2>6. QED BY <2>2, <2>3, <2>4, <2>5
<1> HIDE DEF new
<1>4. /\ alert'[me.id] = new /\ Rows(alert') = Rows(alert) \cup {me.id}
      /\ \A j \in Ids \ {me.id} : alert'[j] = alert[j]
  <2>1. RowsOK /\ alert' = [alert EXCEPT ![me.id] = new] /\ me.id \in Ids /\ new \in AlertRows
    BY <1>1, <1>2, <1>3 DEF IInv, TypeOK
  <2> HIDE DEF me
  <2>2. QED BY <2>1, OneRow
<1>5. Answered(me.id)
  BY <1>1, <1>2, <1>3, <1>4, Null DEF Answered, RowOnly
<1>6. QED BY <1>1, <1>2, <1>3, <1>4, <1>5

LEMMA Rejected ==
    ASSUME IInv, NEW i \in Ids, Reject(i)
    PROVE  /\ Answered(i) /\ alert'[i].detail.declined /\ alert'[i].ver = alert[i].ver
           /\ Pending(i) # 0 /\ refused' = refused \cup {Pending(i)}
           /\ UNCHANGED <<approver, sent>>
<1> DEFINE d == [alert[i].detail EXCEPT !.pending = 0, !.declined = TRUE]
           new == [alert[i] EXCEPT !.detail = d]
<1>1. /\ i \in Rows(alert) /\ Pending(i) # 0 /\ refused' = refused \cup {Pending(i)}
      /\ alert' = [alert EXCEPT ![i] = new] /\ RowsOK
      /\ UNCHANGED <<pass, approver, requests, sent>>
  BY DEF Reject, Rejectable, Pending, IInv, TypeOK
<1>2. /\ new \in AlertRows /\ new.status = alert[i].status /\ new.ver = alert[i].ver
      /\ new.detail.pending = 0 /\ new.detail.declined
      /\ new.detail.tags = alert[i].detail.tags
  <2>1. alert[i] \in AlertRows /\ alert[i].detail \in Details /\ 0 \in Nat
    BY <1>1, RowIs, RowHas DEF RowsOK
  <2>2. d \in Details /\ Copied(alert[i].detail, d) /\ d.pending = 0 /\ d.declined
    BY <2>1, Edits
  <2> HIDE DEF d
  <2>3. new \in AlertRows /\ new.detail = d /\ RowSame(new, alert[i])
    BY <2>1, <2>2, Rewrites
  <2>4. QED BY <2>2, <2>3 DEF RowSame, Copied
<1> HIDE DEF new
<1>3. /\ alert'[i] = new /\ Rows(alert') = Rows(alert) \cup {i}
      /\ \A j \in Ids \ {i} : alert'[j] = alert[j]
  BY <1>1, <1>2, OneRow
<1>4. Answered(i)
  BY <1>1, <1>2, <1>3, Null DEF Answered, RowOnly
<1>5. QED BY <1>1, <1>2, <1>3, <1>4

LEMMA AnsweredKeeps ==
    ASSUME IInv, Asked, NEW i \in Ids, Answered(i),
           \/ refused' = refused /\ ~Working
           \/ refused' = refused \cup {Pending(i)} /\ Pending(i) # 0 /\ alert'[i].detail.declined
    PROVE  Asked'
<1>1. /\ i \in Rows(alert) /\ Rows(alert') = Rows(alert) /\ alert'[i].detail.pending = 0
      /\ \A j \in Rows(alert) \ {i} : alert'[j] = alert[j]
      /\ pass' = pass /\ requests' = requests
  BY DEF Answered, RowOnly
<1>2. \A j \in Rows(alert) : Pending(j) \in Nat
  BY RowIs, RowHas, DetailHas DEF Pending, IInv, TypeOK, RowsOK
<1>3. requests \in Nat
  BY DEF IInv, TypeOK, HistoryOK
<1>4. Numbered'
  <2>1. Pending(i) # 0 => Pending(i) \in 1 .. requests
    BY <1>1, <1>2, <1>3 DEF Asked, Numbered
  <2>2. refused' \subseteq 1 .. requests'
    BY <1>1, <2>1 DEF Asked, Numbered
  <2>3. \A j \in Rows(alert) : Pending(j)' = IF j = i THEN 0 ELSE Pending(j)
    BY <1>1 DEF Pending
  <2>4. \A j \in Rows(alert') : Pending(j)' <= requests'
    BY <1>1, <1>3, <2>3 DEF Asked, Numbered
  <2>5. \A j, k \in Rows(alert') : j # k /\ Pending(j)' # 0 => Pending(j)' # Pending(k)'
    BY <1>1, <2>3 DEF Asked, Numbered
  <2>6. QED BY <2>2, <2>4, <2>5 DEF Numbered
<1>5. Carrying'
  <2> DEFINE n == pass.detail.pending
  <2>1. SUFFICES ASSUME Working, n # 0, refused' = refused \cup {Pending(i)}, Pending(i) # 0,
                        alert'[i].detail.declined
                 PROVE  Carrying'
    BY <1>1 DEF Carrying, Working
  <2>2. /\ n <= requests /\ ~pass.detail.declined /\ pass.id \in Rows(alert)
        /\ \A j \in Rows(alert) \ {pass.id} : Pending(j) # n
        /\ n \in refused => alert[pass.id].detail.declined
    BY <2>1 DEF Asked, Carrying, IInv, Order, Placed
  <2>3. \A j \in Rows(alert) \ {pass.id} : Pending(j)' # n
    BY <1>1, <2>1, <2>2 DEF Pending
  <2>4. n \in refused' => alert'[pass.id].detail.declined
    BY <1>1, <2>1, <2>2
  <2>5. QED BY <1>1, <2>2, <2>3, <2>4 DEF Carrying
<1>6. VetoHolds'
  BY <1>1 DEF Asked, VetoHolds, Numbered, Pending
<1>7. QED BY <1>4, <1>5, <1>6 DEF Asked

(* An evaluation asks once, for a rule whose alert has no request and was   *)
(* not declined.                                                            *)
LEMMA OneRowOf ==
    ASSUME IInv, NEW r \in Rules, NEW i \in Ids, NEW old \in AlertRows, NEW new \in AlertRows,
           About(r, i, old), old.rule = r, alert' = [alert EXCEPT ![i] = new]
    PROVE  /\ Rows(alert') = Rows(alert) \cup {i} /\ alert'[i] = new
           /\ \A j \in Rows(alert) \ {i} : alert'[j] = alert[j]
           /\ i \in Rows(alert) => old = alert[i]
           /\ i \notin Rows(alert) => /\ old.detail.pending = 0 /\ old.detail.tags = {}
                                      /\ ~old.detail.declined
           /\ old.detail \in Details
<1>1. RowsOK
  BY DEF IInv, TypeOK
<1>2. Rows(alert') = Rows(alert) \cup {i} /\ alert'[i] = new
        /\ \A j \in Ids \ {i} : alert'[j] = alert[j]
  BY <1>1, OneRow
<1>3. i \in Rows(alert) => old = alert[i]
  BY DEF About, Rows
<1>4. i \notin Rows(alert) => ActiveOf(alert, r) = {} /\ old = NewRow(r)
  BY DEF About, ActiveOf, Active
<1>5. i \notin Rows(alert) => /\ old.detail.pending = 0 /\ old.detail.tags = {}
                              /\ ~old.detail.declined
  BY <1>4, CarriedIs DEF NewRow, IInv
<1>6. QED BY <1>2, <1>3, <1>5, Null, RowHas

LEMMA ViolatedAsks == ASSUME IInv, Asked, NEW r \in Rules, ViolatedRule(r) PROVE Asked'
<1>1. PICK i \in Ids : \E old, new \in AlertRows, f \in Details :
              /\ About(r, i, old) /\ old.rule = r
              /\ \/ Waits(i, old, new, r)
                 \/ Launches(i, old, new, f, r)
                 \/ Notes(i, old, new, f, r)
  BY Violates DEF IInv
<1>2. PICK old \in AlertRows, new \in AlertRows, f \in Details :
              /\ About(r, i, old) /\ old.rule = r
              /\ \/ Waits(i, old, new, r)
                 \/ Launches(i, old, new, f, r)
                 \/ Notes(i, old, new, f, r)
  BY <1>1
<1> DEFINE d == old.detail
<1>3. /\ Rows(alert') = Rows(alert) \cup {i} /\ alert'[i] = new
      /\ \A j \in Rows(alert) \ {i} : alert'[j] = alert[j]
      /\ i \in Rows(alert) => old = alert[i]
      /\ i \notin Rows(alert) => d.pending = 0 /\ ~d.declined
      /\ d \in Details
  BY <1>2, OneRowOf DEF Waits, Launches, Notes, Touched
<1> HIDE DEF d
<1>4. refused' = refused /\ requests \in Nat
  BY DEF ViolatedRule, IInv, TypeOK, HistoryOK
<1>5. /\ d.pending \in Nat /\ d.pending <= requests
      /\ d.pending # 0 => /\ ~d.declined /\ d.pending \notin refused
                          /\ \A j \in Rows(alert) \ {i} : Pending(j) # d.pending
  <2>1. CASE i \in Rows(alert)
    <3>1. d.pending = Pending(i) /\ d.declined = alert[i].detail.declined
      BY <1>3, <2>1 DEF Pending, d
    <3>2. QED BY <1>3, <2>1, <3>1, DetailHas DEF Asked, Numbered, VetoHolds, Pending
  <2>2. CASE i \notin Rows(alert)
    BY <1>3, <1>4, <2>2
  <2>3. QED BY <2>1, <2>2
<1>6. ASSUME NEW p \in Nat, p \in {d.pending, requests + 1},
             p = requests + 1 => d.pending = 0 /\ ~d.declined, p # 0
      PROVE  /\ p <= requests + 1 /\ ~d.declined /\ p \notin refused
             /\ \A j \in Rows(alert) \ {i} : Pending(j) # p
  <2>1. CASE p = requests + 1
    <3>1. \A j \in Rows(alert) : Pending(j) \in Nat /\ Pending(j) <= requests
      BY RowIs, RowHas, DetailHas DEF Pending, Asked, Numbered, IInv, TypeOK, RowsOK
    <3>2. QED BY <1>4, <1>6, <2>1, <3>1 DEF Asked, Numbered
  <2>2. CASE p # requests + 1
    BY <1>4, <1>5, <1>6, <2>2
  <2>3. QED BY <2>1, <2>2
<1>7. /\ requests' \in {requests, requests + 1}
      /\ \/ new.detail = d
         \/ new.detail = WithFreshVetoes(d, f) /\ Acted(d, f, r)
      /\ Working' => new.detail = d /\ Acted(d, f, r) /\ pass'.id = i /\ pass'.detail = f
  <2>1. CASE Waits(i, old, new, r)
    BY <2>1, DoneIs DEF Waits, Working, IInv, TypeOK, d
  <2>2. CASE Launches(i, old, new, f, r)
    <3>1. pass' = [pass EXCEPT !.pc = "sending", !.id = i, !.detail = f] /\ pass \in Passes
      BY <2>2 DEF Launches, IInv, TypeOK, PassOK
    <3>2. pass'.id = i /\ pass'.detail = f
      BY <3>1 DEF Passes
    <3>3. QED BY <2>2, <3>2 DEF Launches, Acted, d
  <2>3. CASE Notes(i, old, new, f, r)
    BY <2>3, DoneIs DEF Notes, Acted, Working, IInv, TypeOK, d
  <2>4. QED BY <1>2, <2>1, <2>2, <2>3
<1>8. Acted(d, f, r) => /\ f.pending \in Nat /\ f.pending \in {d.pending, requests + 1}
                        /\ f.pending = requests + 1 =>
                              d.pending = 0 /\ ~d.declined /\ requests' = requests + 1
                        /\ f.declined = d.declined
  BY <1>4, <1>5, DetailHas DEF Acted
<1>9. new.detail = WithFreshVetoes(d, f) /\ Acted(d, f, r) =>
        /\ new.detail.pending \in {0, f.pending}
        /\ new.detail.declined = d.declined
  <2>1. d \in Details /\ f \in Details
    BY <1>3
  <2>2. d.declined \in BOOLEAN
    BY <2>1, DetailHas
  <2>3. /\ WithFreshVetoes(d, f).pending \in {0, f.pending}
        /\ WithFreshVetoes(d, f).declined = (f.declined \/ d.declined)
    BY <2>1, FreshVetoes
  <2>4. Acted(d, f, r) => f.declined = d.declined
    BY <1>8
  <2>5. QED BY <2>2, <2>3, <2>4, Zenon
<1>10. LET p == new.detail.pending
       IN  /\ p \in Nat /\ p <= requests'
           /\ p # 0 => /\ ~new.detail.declined /\ p \notin refused
                       /\ \A j \in Rows(alert) \ {i} : Pending(j) # p
  <2>1. CASE new.detail = d
    BY <1>4, <1>5, <1>7, <2>1
  <2>2. CASE new.detail = WithFreshVetoes(d, f) /\ Acted(d, f, r)
    BY <1>4, <1>5, <1>6, <1>7, <1>8, <1>9, <2>2
  <2>3. QED BY <1>7, <2>1, <2>2
<1>11. /\ \A j \in Rows(alert) \ {i} : Pending(j)' = Pending(j)
       /\ Pending(i)' = new.detail.pending
       /\ \A j \in Rows(alert) : Pending(j) \in Nat /\ Pending(j) <= requests
  <2>1. \A j \in Rows(alert) : Pending(j) \in Nat
    BY RowIs, RowHas, DetailHas DEF Pending, IInv, TypeOK, RowsOK
  <2>2. QED BY <1>3, <2>1 DEF Pending, Asked, Numbered
<1>12. Numbered'
  <2>1. refused' \subseteq 1 .. requests'
    BY <1>4, <1>7 DEF Asked, Numbered
  <2>2. \A j \in Rows(alert') : Pending(j)' <= requests'
    BY <1>3, <1>4, <1>7, <1>10, <1>11
  <2>3. \A j, k \in Rows(alert') : j # k /\ Pending(j)' # 0 => Pending(j)' # Pending(k)'
    BY <1>3, <1>10, <1>11 DEF Asked, Numbered
  <2>4. QED BY <2>1, <2>2, <2>3 DEF Numbered
<1>13. VetoHolds'
  <2>1. ASSUME NEW j \in Rows(alert'), alert'[j].detail.pending # 0
        PROVE  ~alert'[j].detail.declined /\ alert'[j].detail.pending \notin refused'
    BY <1>3, <1>4, <1>10, <2>1 DEF Asked, VetoHolds
  <2>2. QED BY <2>1 DEF VetoHolds
<1>14. Carrying'
  <2>1. SUFFICES ASSUME Working', pass'.detail.pending # 0 PROVE Carrying'
    BY DEF Carrying
  <2>2. /\ Acted(d, f, r) /\ pass'.id = i /\ pass'.detail = f /\ f.pending # 0
    BY <1>7, <2>1
  <2>3. /\ ~d.declined /\ f.pending \notin refused
        /\ \A j \in Rows(alert) \ {i} : Pending(j) # f.pending
    BY <1>6, <1>8, <2>2
  <2>4. f.pending <= requests'
    BY <1>4, <1>5, <1>7, <1>8, <2>2
  <2>5. QED BY <1>3, <1>4, <1>8, <1>11, <2>2, <2>3, <2>4 DEF Carrying
<1>15. QED BY <1>12, <1>13, <1>14 DEF Asked

LEMMA RepairAsks ==
    ASSUME IInv, Asked, NEW attempted \in BOOLEAN, FinishRepair(attempted) PROVE Asked'
<1> DEFINE i == pass.id
           now == alert[i]
<1>1. /\ i \in Rows(alert) /\ i \in Ids /\ now \in AlertRows /\ Working /\ RowsOK
      /\ pass' = Done(now.rule, pass)
  BY RepairDoes, Null DEF IInv, Order, TypeOK
<1>2. PICK d \in Details, new \in AlertRows :
              /\ Repaired(attempted, d, new)
              /\ new.detail = WithFreshVetoes(now.detail, d)
  BY RepairDoes DEF IInv, Order
<1>3. /\ alert' = [alert EXCEPT ![i] = new]
      /\ d.pending = pass.detail.pending /\ d.declined = pass.detail.declined
  BY <1>2 DEF Repaired
<1>4. /\ alert'[i] = new /\ Rows(alert') = Rows(alert)
      /\ \A j \in Rows(alert) \ {i} : alert'[j] = alert[j]
  <2>1. /\ alert'[i] = new /\ Rows(alert') = Rows(alert) \cup {i}
        /\ \A j \in Ids \ {i} : alert'[j] = alert[j]
    BY <1>1, <1>3, OneRow
  <2>2. QED BY <1>1, <2>1, Null
<1>5. /\ new.detail.pending \in {0, pass.detail.pending}
      /\ new.detail.pending # 0 => ~now.detail.declined
      /\ new.detail.declined = (pass.detail.declined \/ now.detail.declined)
  BY <1>1, <1>2, <1>3, FreshVetoes, RowHas
<1>6. refused' = refused /\ requests' = requests /\ requests \in Nat
  BY DEF FinishRepair, IInv, TypeOK, HistoryOK
<1>7. ~Working'
  BY <1>1, DoneIs DEF Working, IInv, TypeOK
<1>8. \A j \in Rows(alert) : alert'[j].detail.pending = IF j = i THEN new.detail.pending
                                                         ELSE Pending(j)
  BY <1>4 DEF Pending
<1>9. new.detail.pending # 0 =>
        /\ new.detail.pending <= requests /\ ~new.detail.declined
        /\ new.detail.pending \notin refused
        /\ \A j \in Rows(alert) \ {i} : Pending(j) # new.detail.pending
  BY <1>1, <1>5 DEF Asked, Carrying
<1>10. Numbered'
  <2>1. \A j \in Rows(alert') : Pending(j)' <= requests'
    BY <1>4, <1>6, <1>8, <1>9 DEF Asked, Numbered, Pending
  <2>2. \A j, k \in Rows(alert') : j # k /\ Pending(j)' # 0 => Pending(j)' # Pending(k)'
    BY <1>4, <1>8, <1>9 DEF Asked, Numbered, Pending
  <2>3. QED BY <1>6, <2>1, <2>2 DEF Asked, Numbered
<1>11. VetoHolds'
  <2>1. ASSUME NEW j \in Rows(alert'), alert'[j].detail.pending # 0
        PROVE  ~alert'[j].detail.declined /\ alert'[j].detail.pending \notin refused'
    BY <1>4, <1>6, <1>9, <2>1 DEF Asked, VetoHolds
  <2>2. QED BY <2>1 DEF VetoHolds
<1>12. QED BY <1>7, <1>10, <1>11 DEF Asked, Carrying

LEMMA AskedKeeps == ASSUME IInv, Asked, [Next]_vars PROVE Asked'
<1>1. CASE \E r \in Rules : ViolatedRule(r)
  BY <1>1, ViolatedAsks
<1>2. CASE \E attempted \in BOOLEAN : FinishRepair(attempted)
  BY <1>2, RepairAsks
<1>3. CASE \E i \in Ids : Reject(i)
  BY <1>3, Rejected, AnsweredKeeps
<1>4. ASSUME NEW a \in Approvers, WriteClaim(a) PROVE Asked'
  <2>1. CASE approver[a].ver # alert[approver[a].id].ver
    <3>1. Unasked
      BY <1>4, <2>1, SameUnasked DEF WriteClaim, ghosts
    <3>2. QED BY <3>1, UnaskedKeeps
  <2>2. CASE approver[a].ver = alert[approver[a].id].ver
    <3>1. approver[a].id \in Ids /\ ~Working
      BY <1>4, Null DEF WriteClaim, IInv, Order, Placed, Working
    <3>2. QED BY <1>4, <2>2, <3>1, ClaimWritten, AnsweredKeeps
  <2>3. QED BY <2>1, <2>2
<1>5. QED BY <1>1, <1>2, <1>3, <1>4, QuietSteps, UnaskedKeeps

LEMMA InitAsked == Init => Asked
<1> SUFFICES ASSUME Init PROVE Asked
  OBVIOUS
<1>1. Rows(alert) = {} /\ refused = {} /\ ~Working
  BY Blank DEF Init, Rows, Working
<1>2. QED BY <1>1 DEF Asked, Numbered, Carrying, VetoHolds

THEOREM Asking == ASSUME Apart PROVE Spec => []Asked
BY InitAsked, AskedKeeps, Invariance, PTL DEF Spec

(* A refusal outlives the evaluations of the alert: no request is pending   *)
(* on an alert that carries one, also when an evaluation that had read the  *)
(* alert before the refusal writes it back.                                 *)
THEOREM Refusals == ASSUME Apart PROVE Spec => []VetoHolds
<1>1. Asked => VetoHolds
  BY DEF Asked
<1>2. QED BY <1>1, Asking, PTL

----------------------------------------------------------------------------
(* Approvals. A request is pending, or held by an evaluation; or approvals  *)
(* have read it and may still claim it, all on the row it came from; or one *)
(* has claimed it and will send it; or it is gone.                          *)
Sending(a, n) == approver[a].pc = "send" /\ approver[a].req = n
Writing(a, n) ==
    /\ approver[a].pc = "write" /\ approver[a].req = n
    /\ approver[a].ver = alert[approver[a].id].ver
Held(n) == (\E i \in Rows(alert) : Pending(i) = n) \/ (Working /\ pass.detail.pending = n)

SentAtMostOnce(n) == sent[n] <= 1 /\ (n > requests => sent[n] = 0)
HeldUnsent(n) == Held(n) => sent[n] = 0 /\ \A a \in Approvers : ~Sending(a, n)
ReadUnsent(n) ==
    \A a \in Approvers : Writing(a, n) =>
        /\ sent[n] = 0
        /\ \A j \in Rows(alert) \ {approver[a].id} : Pending(j) # n
        /\ \A b \in Approvers : /\ ~Sending(b, n)
                                /\ Writing(b, n) => approver[b].id = approver[a].id
ClaimedByOne(n) ==
    \A a \in Approvers : Sending(a, n) =>
        sent[n] = 0 /\ \A b \in Approvers : Sending(b, n) => b = a
Once(n) == SentAtMostOnce(n) /\ HeldUnsent(n) /\ ReadUnsent(n) /\ ClaimedByOne(n)
Requested ==
    \A a \in Approvers : approver[a].pc \in {"write", "send"} => approver[a].req \in 1 .. requests
AllOnce == Requested /\ \A n \in 1 .. MaxRequests : Once(n)

(* What keeps it for a request that no approval takes a step with.          *)
LEMMA OnceKept ==
    ASSUME IInv, NEW n \in 1 .. MaxRequests, Once(n), sent'[n] = sent[n],
           requests' \in {requests, requests + 1},
           Held(n)' => Held(n) \/ n > requests,
           \A a \in Approvers :
               /\ Sending(a, n)' => Sending(a, n)
               /\ Writing(a, n)' =>
                     /\ Writing(a, n) /\ approver'[a].id = approver[a].id
                     /\ Rows(alert') = Rows(alert)
                     /\ \A j \in Rows(alert) : alert'[j].detail.pending \in {0, Pending(j)},
           n > requests => \A a \in Approvers : ~Sending(a, n)
    PROVE  Once(n)'
<1>1. requests \in Nat /\ n \in Nat /\ n # 0
  BY AlertsAssumption DEF IInv, TypeOK, HistoryOK
<1>2. SentAtMostOnce(n)'
  BY <1>1 DEF Once, SentAtMostOnce
<1>3. HeldUnsent(n)'
  BY <1>1 DEF Once, HeldUnsent, SentAtMostOnce
<1>4. ReadUnsent(n)'
  BY <1>1 DEF Once, ReadUnsent, Pending
<1>5. ClaimedByOne(n)'
  BY DEF Once, ClaimedByOne
<1>6. QED BY <1>2, <1>3, <1>4, <1>5 DEF Once

LEMMA NothingBeyond ==
    ASSUME Requested, NEW n, n > requests, requests \in Nat
    PROVE  \A a \in Approvers : ~Sending(a, n)
BY DEF Requested, Sending

LEMMA UnaskedHeld == ASSUME IInv, Unasked, NEW n, n # 0, Held(n)' PROVE Held(n)
BY DEF IInv, Order, Placed, Unasked, Held, Pending, Working

LEMMA ViolatedHeld ==
    ASSUME IInv, NEW r \in Rules, ViolatedRule(r), NEW n, n # 0, Held(n)'
    PROVE  Held(n) \/ n = requests + 1
<1>1. PICK i \in Ids : \E old, new \in AlertRows, f \in Details :
              /\ About(r, i, old) /\ old.rule = r
              /\ \/ Waits(i, old, new, r)
                 \/ Launches(i, old, new, f, r)
                 \/ Notes(i, old, new, f, r)
  BY Violates DEF IInv
<1>2. PICK old \in AlertRows, new \in AlertRows, f \in Details :
              /\ About(r, i, old) /\ old.rule = r
              /\ \/ Waits(i, old, new, r)
                 \/ Launches(i, old, new, f, r)
                 \/ Notes(i, old, new, f, r)
  BY <1>1
<1>3. /\ Rows(alert') = Rows(alert) \cup {i} /\ alert'[i] = new
      /\ \A j \in Rows(alert) \ {i} : alert'[j] = alert[j]
      /\ i \in Rows(alert) => old = alert[i]
      /\ i \notin Rows(alert) => old.detail.pending = 0
      /\ old.detail \in Details
  BY <1>2, OneRowOf DEF Waits, Launches, Notes, Touched
<1>4. Acted(old.detail, f, r) => f.pending \in {old.detail.pending, requests + 1}
  BY DEF Acted
<1>5. new.detail.pending \in {0, old.detail.pending, requests + 1}
  BY <1>2, <1>3, <1>4, FreshVetoes DEF Waits, Launches, Notes
<1>6. old.detail.pending # 0 => Held(old.detail.pending)
  BY <1>3 DEF Held, Pending
<1>7. CASE \E j \in Rows(alert') : alert'[j].detail.pending = n
  BY <1>3, <1>5, <1>6, <1>7 DEF Held, Pending
<1>8. CASE Working' /\ pass'.detail.pending = n
  <2>1. Launches(i, old, new, f, r)
    BY <1>2, <1>8, DoneIs DEF Waits, Notes, Working, IInv, TypeOK
  <2>2. pass' = [pass EXCEPT !.pc = "sending", !.id = i, !.detail = f] /\ pass \in Passes
    BY <2>1 DEF Launches, IInv, TypeOK, PassOK
  <2>3. pass'.detail = f
    BY <2>2 DEF Passes
  <2>4. QED BY <1>4, <1>6, <1>8, <2>1, <2>3 DEF Launches
<1>9. QED BY <1>7, <1>8 DEF Held, Pending

LEMMA RepairHeld ==
    ASSUME IInv, NEW attempted \in BOOLEAN, FinishRepair(attempted), NEW n, n # 0, Held(n)'
    PROVE  Held(n)
<1> DEFINE i == pass.id
           now == alert[i]
<1>1. /\ i \in Rows(alert) /\ i \in Ids /\ now \in AlertRows /\ Working /\ RowsOK
      /\ pass' = Done(now.rule, pass)
  BY RepairDoes, Null DEF IInv, Order, TypeOK
<1>2. PICK d \in Details, new \in AlertRows :
              /\ Repaired(attempted, d, new)
              /\ new.detail = WithFreshVetoes(now.detail, d)
  BY RepairDoes DEF IInv, Order
<1>3. alert' = [alert EXCEPT ![i] = new] /\ d.pending = pass.detail.pending
  BY <1>2 DEF Repaired
<1>4. /\ alert'[i] = new /\ Rows(alert') = Rows(alert)
      /\ \A j \in Rows(alert) \ {i} : alert'[j] = alert[j]
  <2>1. /\ alert'[i] = new /\ Rows(alert') = Rows(alert) \cup {i}
        /\ \A j \in Ids \ {i} : alert'[j] = alert[j]
    BY <1>1, <1>3, OneRow
  <2>2. QED BY <1>1, <2>1, Null
<1>5. new.detail.pending \in {0, pass.detail.pending}
  BY <1>1, <1>2, <1>3, FreshVetoes, RowHas
<1>6. ~Working'
  BY <1>1, DoneIs DEF Working, IInv, TypeOK
<1>7. PICK j \in Rows(alert') : alert'[j].detail.pending = n
  BY <1>6 DEF Held, Pending
<1>8. QED BY <1>1, <1>4, <1>5, <1>7 DEF Held, Pending

LEMMA EvaluationOnce ==
    ASSUME Apart, IInv, AllOnce,
           \/ \E sweep \in BOOLEAN : StartPass(sweep)
           \/ \E r \in Rules : ResolveRule(r) \/ ViolatedRule(r)
           \/ \E attempted \in BOOLEAN : FinishRepair(attempted)
    PROVE  AllOnce'
<1>1. /\ approver' = approver /\ sent' = sent
      /\ \A a \in Approvers : approver[a].pc = "idle"
  <2>1. CASE \E sweep \in BOOLEAN : StartPass(sweep)
    BY <2>1, Alone DEF StartPass
  <2>2. CASE \/ \E r \in Rules : ResolveRule(r) \/ ViolatedRule(r)
             \/ \E attempted \in BOOLEAN : FinishRepair(attempted)
    BY <2>2 DEF ResolveRule, ViolatedRule, FinishRepair, IInv, Order, Placed
  <2>3. QED BY <2>1, <2>2
<1>2. requests' \in {requests, requests + 1} /\ requests \in Nat
  <2>1. ASSUME NEW r \in Rules, ViolatedRule(r) PROVE requests' \in {requests, requests + 1}
    <3>1. PICK i \in Ids : \E old, new \in AlertRows, f \in Details :
                 \/ Waits(i, old, new, r)
                 \/ Launches(i, old, new, f, r)
                 \/ Notes(i, old, new, f, r)
      BY <2>1, Violates DEF IInv
    <3>2. QED BY <3>1 DEF Waits, Launches, Notes, Acted
  <2>2. requests \in Nat
    BY DEF IInv, TypeOK, HistoryOK
  <2>3. ASSUME NEW sweep \in BOOLEAN, StartPass(sweep) PROVE requests' = requests
    BY <2>3 DEF StartPass
  <2>4. ASSUME NEW r \in Rules, ResolveRule(r) PROVE requests' = requests
    BY <2>4 DEF ResolveRule
  <2>5. ASSUME NEW attempted \in BOOLEAN, FinishRepair(attempted) PROVE requests' = requests
    BY <2>5 DEF FinishRepair
  <2>6. QED BY <2>1, <2>2, <2>3, <2>4, <2>5
<1>3. ASSUME NEW n, n # 0, Held(n)' PROVE Held(n) \/ n = requests + 1
  <2>1. CASE \E r \in Rules : ViolatedRule(r)
    BY <1>3, <2>1, ViolatedHeld
  <2>2. CASE \E attempted \in BOOLEAN : FinishRepair(attempted)
    BY <1>3, <2>2, RepairHeld
  <2>3. CASE \/ \E sweep \in BOOLEAN : StartPass(sweep)
             \/ \E r \in Rules : ResolveRule(r)
    BY <1>3, <2>3, StartsUnasked, ResolvesUnasked, UnaskedHeld
  <2>4. QED BY <2>1, <2>2, <2>3
<1>4. \A a \in Approvers : \A n : ~Sending(a, n)' /\ ~Writing(a, n)'
  BY <1>1 DEF Sending, Writing
<1>5. ASSUME NEW n \in 1 .. MaxRequests PROVE Once(n)'
  <2>1. Once(n) /\ (n > requests => \A a \in Approvers : ~Sending(a, n))
    BY <1>2, NothingBeyond DEF AllOnce
  <2>2. Held(n)' => Held(n) \/ n > requests
    BY <1>2, <1>3
  <2>3. QED BY <1>1, <1>2, <1>4, <2>1, <2>2, OnceKept
<1>6. Requested'
  BY <1>1 DEF Requested
<1>7. QED BY <1>5, <1>6 DEF AllOnce

(* What else leaves the approvals alone, or ends one, and a refusal.        *)
Ending ==
    \A a \in Approvers : approver'[a] = approver[a] \/ approver'[a].pc \notin {"write", "send"}

LEMMA AsideOnce ==
    ASSUME IInv, AllOnce, Ending, UNCHANGED <<sent, requests>>,
           Rows(alert') = Rows(alert),
           \A j \in Rows(alert) : /\ alert'[j].detail.pending \in {0, Pending(j)}
                                  /\ alert'[j].ver >= alert[j].ver
                                  /\ alert[j].ver \in Nat /\ alert'[j].ver \in Nat,
           \A n : n # 0 /\ Held(n)' => Held(n)
    PROVE  AllOnce'
<1>1. requests \in Nat
  BY DEF IInv, TypeOK, HistoryOK
<1>2. ASSUME NEW a \in Approvers, NEW n
      PROVE  /\ Sending(a, n)' => Sending(a, n)
             /\ Writing(a, n)' => Writing(a, n) /\ approver'[a] = approver[a]
  <2>1. Writing(a, n)' => Writing(a, n) /\ approver'[a] = approver[a]
    <3>1. SUFFICES ASSUME Writing(a, n)' PROVE Writing(a, n) /\ approver'[a] = approver[a]
      OBVIOUS
    <3>2. /\ approver'[a] = approver[a] /\ approver[a].pc = "write" /\ approver[a].req = n
          /\ approver[a].ver = alert'[approver[a].id].ver
      BY <3>1 DEF Writing, Ending
    <3>3. approver[a].id \in Rows(alert) /\ approver[a].ver <= alert[approver[a].id].ver
      BY <3>2 DEF IInv, Order, Placed, Claims
    <3>4. approver[a].ver = alert[approver[a].id].ver
      BY <3>2, <3>3
    <3>5. QED BY <3>2, <3>4 DEF Writing
  <2>2. QED BY <2>1 DEF Sending, Ending
<1>3. ASSUME NEW n \in 1 .. MaxRequests PROVE Once(n)'
  <2>1. Once(n) /\ (n > requests => \A a \in Approvers : ~Sending(a, n))
    BY <1>1, NothingBeyond DEF AllOnce
  <2>2. n # 0
    BY AlertsAssumption
  <2>3. QED BY <1>2, <2>1, <2>2, OnceKept
<1>4. Requested'
  BY DEF AllOnce, Requested, Ending
<1>5. QED BY <1>3, <1>4 DEF AllOnce

LEMMA RejectOnce == ASSUME IInv, AllOnce, NEW i \in Ids, Reject(i) PROVE AllOnce'
<1>1. /\ i \in Rows(alert) /\ Rows(alert') = Rows(alert)
      /\ alert'[i].detail.pending = 0 /\ alert'[i].ver = alert[i].ver
      /\ \A j \in Rows(alert) \ {i} : alert'[j] = alert[j]
      /\ UNCHANGED <<pass, requests, approver, sent>>
  BY Rejected DEF Answered, RowOnly
<1>2. \A j \in Rows(alert) : alert[j].ver \in Nat
  BY RowIs, RowHas DEF IInv, TypeOK, RowsOK
<1>3. \A n : n # 0 /\ Held(n)' => Held(n)
  BY <1>1 DEF Held, Pending, Working
<1>4. QED BY <1>1, <1>2, <1>3, AsideOnce DEF Pending, Ending

LEMMA UnaskedOnce ==
    ASSUME IInv, RowsOK', AllOnce, Unasked, Ending, sent' = sent PROVE AllOnce'
<1>1. \A j \in Rows(alert) : /\ alert[j].ver \in Nat /\ alert'[j].ver \in Nat
                             /\ alert'[j].ver >= alert[j].ver
                             /\ alert'[j].detail.pending \in {0, Pending(j)}
  <2>1. \A j \in Rows(alert) : alert[j].ver \in Nat
    BY RowIs, RowHas DEF IInv, TypeOK, RowsOK
  <2>2. \A j \in Rows(alert') : alert'[j].ver \in Nat
    BY RowIs, RowHas DEF RowsOK
  <2>3. QED BY <2>1, <2>2 DEF Unasked, Pending
<1>2. \A n : n # 0 /\ Held(n)' => Held(n)
  BY UnaskedHeld
<1>3. QED BY <1>1, <1>2, AsideOnce DEF Unasked

(* A claim that is read names a request no approval has claimed.            *)
LEMMA ReadOnce == ASSUME IInv, Asked, AllOnce, NEW a \in Approvers, ReadClaim(a) PROVE AllOnce'
<1> DEFINE me == approver[a]
           now == alert[me.id]
           read == [me EXCEPT !.pc = "write", !.detail = now.detail, !.ver = now.ver,
                              !.req = now.detail.pending]
<1>1. /\ me.pc = "claim"
      /\ UNCHANGED <<alert, pass, requests, sent, refused>>
      /\ approver' = [approver EXCEPT ![a] = IF now.detail.declined \/ now.detail.pending = 0
                                             THEN IdleApprover ELSE read]
  BY DEF ReadClaim, ghosts
<1>2. approver \in [Approvers -> Approvals] /\ RowsOK'
  BY <1>1 DEF IInv, TypeOK, ApprovalsOK, RowsOK
<1>3. CASE now.detail.declined \/ now.detail.pending = 0
  <2>1. Ending
    BY <1>1, <1>2, <1>3, Blank DEF Ending
  <2>2. QED BY <1>1, <1>2, <2>1, SameUnasked, UnaskedOnce
<1>4. CASE now.detail.pending # 0 /\ approver' = [approver EXCEPT ![a] = read]
  <2> DEFINE m == now.detail.pending
  <2>1. me \in Approvals /\ me.id \in Rows(alert) /\ m = Pending(me.id) /\ m # 0 /\ m \in Nat
    BY <1>1, <1>2, <1>4, RowIs, RowHas, DetailHas
       DEF IInv, Order, Placed, TypeOK, RowsOK, Pending
  <2>2. read.pc = "write" /\ read.id = me.id /\ read.req = m /\ read.ver = now.ver
    BY <2>1 DEF Approvals
  <2> HIDE DEF read
  <2>3. approver'[a] = read /\ \A b \in Approvers \ {a} : approver'[b] = approver[b]
    BY <1>2, <1>4
  <2>4. m \in 1 .. requests /\ requests \in Nat
    BY <2>1 DEF Asked, Numbered, IInv, TypeOK, HistoryOK
  <2>5. Requested'
    <3>1. \A b \in Approvers \ {a} : approver'[b].pc \in {"write", "send"} =>
             approver'[b].req \in 1 .. requests'
      BY <1>1, <2>3 DEF AllOnce, Requested
    <3>2. approver'[a].req \in 1 .. requests'
      BY <1>1, <2>2, <2>3, <2>4
    <3>3. QED BY <3>1, <3>2 DEF Requested
  <2>6. ASSUME NEW n
        PROVE  /\ \A b \in Approvers : Sending(b, n)' <=> b # a /\ Sending(b, n)
               /\ \A b \in Approvers \ {a} : Writing(b, n)' <=> Writing(b, n)
               /\ Writing(a, n)' <=> n = m
               /\ Held(n)' <=> Held(n)
               /\ \A j \in Rows(alert) : Pending(j)' = Pending(j)
    BY <1>1, <2>2, <2>3 DEF Sending, Writing, Held, Pending, Working
  <2>7. ~Sending(a, m) /\ \A n : ~Writing(a, n) /\ ~Sending(a, n)
    BY <1>1 DEF Sending, Writing
  <2>8. /\ Held(m) /\ \A j \in Rows(alert) \ {me.id} : Pending(j) # m
    BY <2>1 DEF Held, Asked, Numbered
  <2>9. ASSUME NEW n \in 1 .. MaxRequests PROVE Once(n)'
    <3>1. Once(n)
      BY DEF AllOnce
    <3>2. SentAtMostOnce(n)' /\ ClaimedByOne(n)'
      BY <1>1, <2>6, <3>1 DEF Once, SentAtMostOnce, ClaimedByOne
    <3>3. HeldUnsent(n)'
      BY <1>1, <2>6, <3>1 DEF Once, HeldUnsent
    <3>4. ReadUnsent(n)'
      <4>1. CASE n # m
        <5>1. \A b \in Approvers : Writing(b, n)' => b # a /\ Writing(b, n) /\ approver'[b] = approver[b]
          BY <2>3, <2>6, <4>1
        <5>2. QED BY <1>1, <2>6, <3>1, <5>1 DEF Once, ReadUnsent
      <4>2. CASE n = m
        <5>1. sent[n] = 0 /\ \A b \in Approvers : ~Sending(b, n)
          BY <2>8, <3>1, <4>2 DEF Once, HeldUnsent
        <5>2. ASSUME NEW b \in Approvers, Writing(b, n)' PROVE approver'[b].id = me.id
          <6>1. CASE b = a
            BY <2>2, <2>3, <6>1
          <6>2. CASE b # a
            <7>1. Writing(b, n) /\ approver'[b] = approver[b]
              BY <2>3, <2>6, <5>2, <6>2
            <7>2. \A j \in Rows(alert) \ {approver[b].id} : Pending(j) # n
              BY <3>1, <7>1 DEF Once, ReadUnsent
            <7>3. QED BY <2>1, <4>2, <7>1, <7>2
          <6>3. QED BY <6>1, <6>2
        <5>3. \A j \in Rows(alert) \ {me.id} : Pending(j)' # n
          BY <2>6, <2>8, <4>2
        <5> HIDE DEF me, m
        <5>4. QED BY <1>1, <2>6, <5>1, <5>2, <5>3 DEF ReadUnsent
      <4>3. QED BY <4>1, <4>2
    <3>5. QED BY <3>2, <3>3, <3>4 DEF Once
  <2>10. QED BY <2>5, <2>9 DEF AllOnce
<1>5. QED BY <1>1, <1>3, <1>4

(* A claim that holds makes every other one fail.                           *)
LEMMA WriteOnce == ASSUME IInv, AllOnce, NEW a \in Approvers, WriteClaim(a) PROVE AllOnce'
<1> DEFINE i == approver[a].id
           m == approver[a].req
<1>1. CASE approver[a].ver # alert[i].ver
  <2>1. /\ UNCHANGED <<alert, requests, refused, pass, sent>> /\ RowsOK'
        /\ \/ approver' = [approver EXCEPT ![a].pc = "claim"]
           \/ approver' = [approver EXCEPT ![a] = IdleApprover]
    BY <1>1 DEF WriteClaim, ghosts, IInv, TypeOK, RowsOK
  <2>2. Ending
    BY <2>1, Blank DEF Ending, IInv, TypeOK, ApprovalsOK, Approvals
  <2>3. QED BY <2>1, <2>2, SameUnasked, UnaskedOnce
<1>2. CASE approver[a].ver = alert[i].ver
  <2>1. /\ approver[a].pc = "write" /\ UNCHANGED <<requests, refused, sent, pass>>
        /\ i \in Rows(alert) /\ Rows(alert') = Rows(alert)
        /\ alert'[i].detail.pending = 0 /\ alert'[i].ver = alert[i].ver + 1
        /\ \A j \in Rows(alert) \ {i} : alert'[j] = alert[j]
        /\ approver' = [approver EXCEPT ![a].pc = "send"] /\ ~Working
    BY <1>2, ClaimWritten DEF Answered, RowOnly, Working
  <2>2. /\ approver'[a].pc = "send" /\ approver'[a].req = m /\ Writing(a, m)
        /\ \A b \in Approvers \ {a} : approver'[b] = approver[b]
    BY <1>2, <2>1 DEF Writing, IInv, TypeOK, ApprovalsOK, Approvals
  <2>3. m \in 1 .. requests
    BY <2>1 DEF AllOnce, Requested
  <2>4. \A j \in Rows(alert) : alert[j].ver \in Nat
    BY RowIs, RowHas DEF IInv, TypeOK, RowsOK
  <2>5. Requested'
    <3>1. \A b \in Approvers \ {a} : approver'[b].pc \in {"write", "send"} =>
             approver'[b].req \in 1 .. requests'
      BY <2>1, <2>2 DEF AllOnce, Requested
    <3>2. approver'[a].req \in 1 .. requests'
      BY <2>1, <2>2, <2>3
    <3> HIDE DEF m, i
    <3>3. QED BY <3>1, <3>2 DEF Requested
  <2>6. \A j \in Rows(alert) : alert'[j].detail.pending = IF j = i THEN 0 ELSE Pending(j)
    BY <2>1 DEF Pending
  <2>7. ASSUME NEW n, n # 0, Held(n)'
        PROVE  Held(n) /\ \E j \in Rows(alert) \ {i} : Pending(j) = n
    BY <2>1, <2>6, <2>7 DEF Held, Pending, Working
  <2>8. ASSUME NEW b \in Approvers, NEW n, Writing(b, n)'
        PROVE  b # a /\ Writing(b, n) /\ approver'[b] = approver[b] /\ approver[b].id # i
    <3>1. b # a /\ approver'[b] = approver[b]
      BY <2>2, <2>8 DEF Writing
    <3>2. /\ approver[b].pc = "write" /\ approver[b].req = n
          /\ approver[b].ver = alert'[approver[b].id].ver
      BY <2>8, <3>1 DEF Writing
    <3>3. approver[b].id \in Rows(alert) /\ approver[b].ver <= alert[approver[b].id].ver
      BY <3>2 DEF IInv, Order, Placed, Claims
    <3>4. approver[b].id # i
      BY <2>1, <2>4, <3>2, <3>3
    <3>5. alert'[approver[b].id] = alert[approver[b].id]
      BY <2>1, <3>3, <3>4
    <3>6. QED BY <3>1, <3>2, <3>4, <3>5 DEF Writing
  <2>9. \A b \in Approvers : \A n : Sending(b, n)' <=> (b = a /\ n = m) \/ (b # a /\ Sending(b, n))
    BY <2>2 DEF Sending
  <2>10. \A n : ~Sending(a, n)
    BY <2>1 DEF Sending
  <2>11. ASSUME NEW n \in 1 .. MaxRequests PROVE Once(n)'
    <3>1. Once(n) /\ n # 0
      BY AlertsAssumption DEF AllOnce
    <3>2. CASE n # m
      <4>1. SentAtMostOnce(n)' /\ HeldUnsent(n)' /\ ClaimedByOne(n)'
        BY <2>1, <2>7, <2>9, <3>1, <3>2 DEF Once, SentAtMostOnce, HeldUnsent, ClaimedByOne
      <4>2. ReadUnsent(n)'
        BY <2>1, <2>6, <2>8, <2>9, <3>1, <3>2 DEF Once, ReadUnsent, Pending
      <4>3. QED BY <4>1, <4>2 DEF Once
    <3>3. CASE n = m
      <4>1. /\ sent[n] = 0 /\ \A j \in Rows(alert) \ {i} : Pending(j) # n
            /\ \A b \in Approvers : /\ ~Sending(b, n)
                                    /\ Writing(b, n) => approver[b].id = i
        BY <2>2, <3>1, <3>3 DEF Once, ReadUnsent
      <4>2. ~Held(n)' /\ \A b \in Approvers : ~Writing(b, n)'
        BY <2>7, <2>8, <3>1, <4>1
      <4>3. SentAtMostOnce(n)'
        BY <2>1, <3>1 DEF Once, SentAtMostOnce
      <4>4. ClaimedByOne(n)'
        BY <2>1, <2>9, <4>1 DEF ClaimedByOne
      <4>5. QED BY <4>2, <4>3, <4>4 DEF Once, HeldUnsent, ReadUnsent
    <3>4. QED BY <3>2, <3>3
  <2>12. QED BY <2>5, <2>11 DEF AllOnce
<1>3. QED BY <1>1, <1>2

(* The command goes out, or is refused on the way.                          *)
LEMMA SendOnce == ASSUME IInv, AllOnce, NEW a \in Approvers, SendApproved(a) PROVE AllOnce'
<1> DEFINE m == approver[a].req
<1>1. /\ approver[a].pc = "send" /\ approver' = [approver EXCEPT ![a].pc = "record"]
      /\ sent' \in {sent, [sent EXCEPT ![m] = @ + 1]}
      /\ UNCHANGED <<alert, requests, pass>>
  BY DEF SendApproved
<1>2. /\ approver'[a].pc = "record"
      /\ \A b \in Approvers \ {a} : approver'[b] = approver[b]
  BY <1>1 DEF IInv, TypeOK, ApprovalsOK
<1>3. /\ Sending(a, m) /\ m \in 1 .. requests /\ requests \in 0 .. MaxRequests
      /\ MaxRequests \in Nat /\ sent \in [1 .. MaxRequests -> Nat]
  BY <1>1, AlertsAssumption DEF Sending, AllOnce, Requested, IInv, TypeOK, HistoryOK
<1>4. m \in 1 .. MaxRequests
  BY <1>3
<1>5. ASSUME NEW n
      PROVE  /\ \A b \in Approvers : /\ Sending(b, n)' <=> b # a /\ Sending(b, n)
                                     /\ Writing(b, n)' <=> Writing(b, n)
                                     /\ Writing(b, n) => approver'[b] = approver[b]
             /\ Held(n)' <=> Held(n)
             /\ \A j \in Rows(alert) : Pending(j)' = Pending(j)
  BY <1>1, <1>2 DEF Sending, Writing, Held, Pending, Working
<1>6. Requested'
  BY <1>1, <1>2 DEF AllOnce, Requested
<1>7. ASSUME NEW n \in 1 .. MaxRequests PROVE Once(n)'
  <2>1. Once(n)
    BY DEF AllOnce
  <2>2. CASE n # m
    <3>1. sent'[n] = sent[n]
      BY <1>1, <1>3, <2>2
    <3>2. SentAtMostOnce(n)' /\ HeldUnsent(n)' /\ ClaimedByOne(n)'
      BY <1>1, <1>5, <2>1, <3>1 DEF Once, SentAtMostOnce, HeldUnsent, ClaimedByOne
    <3>3. ReadUnsent(n)'
      BY <1>1, <1>5, <2>1, <3>1 DEF Once, ReadUnsent
    <3>4. QED BY <3>2, <3>3 DEF Once
  <2>3. CASE n = m
    <3>1. sent[n] = 0 /\ \A b \in Approvers : Sending(b, n) => b = a
      BY <1>3, <2>1, <2>3 DEF Once, ClaimedByOne
    <3>2. ~Held(n) /\ \A b \in Approvers : ~Writing(b, n)
      BY <1>3, <2>1, <2>3 DEF Once, HeldUnsent, ReadUnsent
    <3>3. sent'[n] <= 1 /\ ~(n > requests')
      BY <1>1, <1>3, <1>4, <2>3, <3>1
    <3>4. \A b \in Approvers : ~Sending(b, n)' /\ ~Writing(b, n)'
      BY <1>5, <3>1, <3>2
    <3>5. QED BY <1>5, <3>2, <3>3, <3>4
                 DEF Once, SentAtMostOnce, HeldUnsent, ReadUnsent, ClaimedByOne
  <2>4. QED BY <2>2, <2>3
<1>8. QED BY <1>6, <1>7 DEF AllOnce

LEMMA OnceKeeps == ASSUME Apart, IInv, Asked, AllOnce, [Next]_vars PROVE AllOnce'
<1>1. RowsOK'
  BY StepKeeps, StutterKeeps DEF IInv, TypeOK
<1>2. ASSUME \/ \E sweep \in BOOLEAN : StartPass(sweep)
             \/ \E r \in Rules : ResolveRule(r) \/ ViolatedRule(r)
             \/ \E attempted \in BOOLEAN : FinishRepair(attempted)
      PROVE  AllOnce'
  BY <1>2, EvaluationOnce
<1>3. ASSUME NEW i \in Ids, Acknowledge(i) PROVE AllOnce'
  BY <1>1, <1>3, AcknowledgesUnasked, UnaskedOnce DEF Acknowledge, Ending, ghosts
<1>4. ASSUME NEW i \in Ids, ResolveByHand(i) PROVE AllOnce'
  <2>1. /\ {i} \subseteq Active(alert) /\ Resolve({i})
        /\ UNCHANGED <<pass, requests, refused, approver, sent>>
    BY <1>4 DEF ResolveByHand
  <2>2. Unasked
    BY <2>1, ClosedUnasked
  <2>3. QED BY <1>1, <2>1, <2>2, UnaskedOnce DEF Ending
<1>5. ASSUME NEW i \in Ids, Reject(i) PROVE AllOnce'
  BY <1>5, RejectOnce
<1>6. ASSUME NEW a \in Approvers, NEW i \in Ids, StartApproval(a, i) PROVE AllOnce'
  <2>1. /\ approver' = [approver EXCEPT ![a] = [IdleApprover EXCEPT !.pc = "claim", !.id = i]]
        /\ UNCHANGED <<alert, requests, refused, pass, sent>>
    BY <1>6 DEF StartApproval, ghosts
  <2>2. Ending
    BY <2>1 DEF Ending, IInv, TypeOK, ApprovalsOK, IdleApprover
  <2>3. QED BY <1>1, <2>1, <2>2, SameUnasked, UnaskedOnce
<1>7. ASSUME NEW a \in Approvers, ReadClaim(a) \/ WriteClaim(a) \/ SendApproved(a) PROVE AllOnce'
  BY <1>7, ReadOnce, WriteOnce, SendOnce
<1>8. ASSUME NEW a \in Approvers, RecordOutcome(a) PROVE AllOnce'
  <2>1. Unasked /\ sent' = sent /\ approver' = [approver EXCEPT ![a] = IdleApprover]
    BY <1>8, RecordsUnasked DEF RecordOutcome, ghosts
  <2>2. Ending
    BY <2>1, Blank DEF Ending, IInv, TypeOK, ApprovalsOK
  <2>3. QED BY <1>1, <2>1, <2>2, UnaskedOnce
<1>9. ASSUME Change \/ Tick \/ UNCHANGED vars PROVE AllOnce'
  BY <1>1, <1>9, SameUnasked, UnaskedOnce DEF Change, Tick, vars, ghosts, Ending
<1>10. QED
  BY <1>2, <1>3, <1>4, <1>5, <1>6, <1>7, <1>8, <1>9 DEF Next

LEMMA InitOnce == Init => AllOnce
<1> SUFFICES ASSUME Init PROVE AllOnce
  OBVIOUS
<1>1. /\ Rows(alert) = {} /\ ~Working /\ \A a \in Approvers : approver[a].pc = "idle"
      /\ \A n \in 1 .. MaxRequests : sent[n] = 0
  BY Blank DEF Init, Rows, Working
<1>2. \A a \in Approvers : \A n : ~Sending(a, n) /\ ~Writing(a, n) /\ ~Held(n)
  BY <1>1 DEF Sending, Writing, Held
<1>3. Requested
  BY <1>1 DEF Requested
<1>4. QED BY <1>1, <1>2, <1>3 DEF AllOnce, Once, SentAtMostOnce, HeldUnsent, ReadUnsent, ClaimedByOne

(* A request that is approved, by any number of administrators at once, is  *)
(* sent at most once: the claims are written only over what they read.      *)
THEOREM ApprovedRequests == ASSUME Apart PROVE Spec => []ApprovedOnce
<1>1. AllOnce => ApprovedOnce
  BY DEF AllOnce, Once, SentAtMostOnce, ApprovedOnce
<1>2. Spec => []AllOnce
  BY InitOnce, OnceKeeps, Asking, Invariance, PTL DEF Spec
<1>3. QED BY <1>1, <1>2, PTL

----------------------------------------------------------------------------
(* Tags. The device has the tags of its active alerts, and those that the   *)
(* evaluation has set and not yet written to its alert, which stays active  *)
(* meanwhile if no administrator resolves one beside an evaluation.         *)
Unresolved == {"pass", "resolve"} \notin Overlaps
Carries(i, t) == i \in Active(alert) /\ t \in alert[i].detail.tags
Tagging ==
    /\ \A t : t \in tags <=> (\E i \in Ids : Carries(i, t)) \/ (Working /\ t \in pass.detail.tags)
    /\ Working => /\ pass.id \in Active(alert)
                  /\ alert[pass.id].detail.tags \subseteq pass.detail.tags

LEMMA ResolveTags ==
    ASSUME IInv, Tagging, ~Working, ~Working', NEW ids, ids \subseteq Active(alert), Resolve(ids)
    PROVE  Tagging'
<1>1. /\ Rows(alert') = Rows(alert)
      /\ \A i \in Rows(alert) : /\ alert'[i].detail = alert[i].detail
                                /\ i \in ids => alert'[i].status = "resolved"
                                /\ i \notin ids => alert'[i] = alert[i]
  BY Resolves DEF IInv
<1>2. \A i \in Ids : \A t : Carries(i, t)' <=> Carries(i, t) /\ i \notin ids
  BY <1>1 DEF Carries, Active
<1>3. \A i : i \in ids => i \in Ids
  BY Null DEF Active
<1>4. \A t : t \in tags' <=>
         t \in tags /\ ~((\E i \in ids : t \in alert[i].detail.tags)
                           /\ ~ \E i \in Active(alert) \ ids : t \in alert[i].detail.tags)
  <2> DEFINE dropped == UNION {alert[i].detail.tags : i \in ids}
             needed == StillNeeded(alert, ids)
  <2>1. tags' = tags \ (dropped \ needed)
    BY DEF Resolve
  <2>2. \A t : t \in dropped <=> \E i \in ids : t \in alert[i].detail.tags
    OBVIOUS
  <2>3. \A t : t \in needed <=> \E i \in Active(alert) \ ids : t \in alert[i].detail.tags
    BY DEF StillNeeded
  <2> HIDE DEF dropped, needed
  <2>4. QED BY <2>1, <2>2, <2>3
<1>5. \A t : t \in tags' <=> \E i \in Ids : Carries(i, t) /\ i \notin ids
  <2>1. ASSUME NEW t, t \in tags' PROVE \E i \in Ids : Carries(i, t) /\ i \notin ids
    <3>1. t \in tags
      BY <1>4, <2>1
    <3>2. PICK i \in Ids : Carries(i, t)
      BY <3>1 DEF Tagging
    <3>3. CASE i \notin ids
      BY <3>2, <3>3
    <3>4. CASE i \in ids
      <4>1. PICK j \in Active(alert) \ ids : t \in alert[j].detail.tags
        BY <1>4, <2>1, <3>2, <3>4 DEF Carries
      <4>2. j \in Ids
        BY Null DEF Active
      <4>3. QED BY <4>1, <4>2 DEF Carries
    <3>5. QED BY <3>3, <3>4
  <2>2. ASSUME NEW t, NEW i \in Ids, Carries(i, t), i \notin ids PROVE t \in tags'
    <3>1. t \in tags
      BY <2>2 DEF Tagging
    <3>2. QED BY <1>4, <2>2, <3>1 DEF Carries
  <2>3. QED BY <2>1, <2>2
<1>6. QED BY <1>2, <1>5 DEF Tagging

(* Steps that leave the tags and the activity of the rows alone.            *)
Untagged ==
    /\ tags' = tags /\ Rows(alert') = Rows(alert)
    /\ \A i \in Rows(alert) : /\ alert'[i].detail.tags = alert[i].detail.tags
                              /\ alert'[i].status = "resolved" <=> alert[i].status = "resolved"
    /\ (~Working /\ pass'.pc # "sending") \/ pass' = pass

LEMMA UntaggedKeeps == ASSUME IInv, Tagging, Untagged PROVE Tagging'
<1>1. \A i \in Ids : \A t : Carries(i, t)' <=> Carries(i, t)
  BY DEF Carries, Active, Untagged
<1>2. \A i \in Active(alert) : i \in Active(alert') /\ alert'[i].detail.tags = alert[i].detail.tags
  BY DEF Active, Untagged
<1>3. tags' = tags /\ ((~Working /\ ~Working') \/ pass' = pass)
  BY DEF Untagged, Working
<1>4. QED BY <1>1, <1>2, <1>3 DEF Tagging, Working

LEMMA ViolatedTags == ASSUME IInv, Tagging, NEW r \in Rules, ViolatedRule(r) PROVE Tagging'
<1>1. PICK i \in Ids : \E old, new \in AlertRows, f \in Details :
              /\ About(r, i, old) /\ old.rule = r /\ old.status # "resolved"
              /\ \/ Waits(i, old, new, r)
                 \/ Launches(i, old, new, f, r)
                 \/ Notes(i, old, new, f, r)
  BY Violates DEF IInv
<1>2. PICK old \in AlertRows, new \in AlertRows, f \in Details :
              /\ About(r, i, old) /\ old.rule = r /\ old.status # "resolved"
              /\ \/ Waits(i, old, new, r)
                 \/ Launches(i, old, new, f, r)
                 \/ Notes(i, old, new, f, r)
  BY <1>1
<1>3. /\ Rows(alert') = Rows(alert) \cup {i} /\ alert'[i] = new
      /\ \A j \in Rows(alert) \ {i} : alert'[j] = alert[j]
      /\ i \in Rows(alert) => old = alert[i]
      /\ i \notin Rows(alert) => old.detail.tags = {}
      /\ old.detail \in Details /\ new.status # "resolved"
  BY <1>2, OneRowOf DEF Waits, Launches, Notes, Touched
<1>4. ~Working
  BY DEF ViolatedRule, Working
<1>5. /\ i \in Active(alert')
      /\ \A j \in Ids : \A t : Carries(j, t)' <=> IF j = i THEN t \in new.detail.tags ELSE Carries(j, t)
      /\ \A t : Carries(i, t) <=> t \in old.detail.tags
  <2>1. i \in Active(alert')
    BY <1>3 DEF Active
  <2>2. \A j \in Ids : \A t : Carries(j, t)' <=> IF j = i THEN t \in new.detail.tags ELSE Carries(j, t)
    BY <1>3 DEF Carries, Active
  <2>3. \A t : Carries(i, t) <=> t \in old.detail.tags
    BY <1>2, <1>3 DEF Carries, Active
  <2>4. QED BY <2>1, <2>2, <2>3
<1>6. CASE Waits(i, old, new, r)
  <2>1. ~Working' /\ tags' = tags /\ new.detail = old.detail
    BY <1>6, DoneIs DEF Waits, Working, IInv, TypeOK
  <2>2. QED BY <1>4, <1>5, <2>1 DEF Tagging
<1>7. CASE Notes(i, old, new, f, r)
  <2>1. ~Working' /\ tags' = tags \cup TagsOf[r]
    BY <1>7, DoneIs DEF Notes, Working, IInv, TypeOK
  <2>2. new.detail.tags = old.detail.tags \cup TagsOf[r]
    <3>1. /\ new.detail = WithFreshVetoes(old.detail, f) /\ f.tags = old.detail.tags \cup TagsOf[r]
      BY <1>7 DEF Notes, Acted
    <3>2. Copied(f, WithFreshVetoes(old.detail, f))
      BY <1>3, FreshVetoes
    <3>3. QED BY <3>1, <3>2 DEF Copied
  <2>3. \A t : (\E j \in Ids : Carries(j, t)') <=> (\E j \in Ids : Carries(j, t)) \/ t \in TagsOf[r]
    BY <1>5, <2>2
  <2>4. QED BY <1>4, <2>1, <2>3 DEF Tagging
<1>8. CASE Launches(i, old, new, f, r)
  <2>1. pass' = [pass EXCEPT !.pc = "sending", !.id = i, !.detail = f] /\ pass \in Passes
    BY <1>8 DEF Launches, IInv, TypeOK, PassOK
  <2>2. Working' /\ pass'.id = i /\ pass'.detail = f
    BY <2>1 DEF Passes, Working
  <2>3. /\ new.detail = old.detail /\ tags' = tags \cup TagsOf[r]
        /\ f.tags = old.detail.tags \cup TagsOf[r]
    BY <1>8 DEF Launches, Acted
  <2>4. \A t : (\E j \in Ids : Carries(j, t)') <=> (\E j \in Ids : Carries(j, t))
    BY <1>5, <2>3
  <2>5. \A t : t \in tags' <=> (\E j \in Ids : Carries(j, t)') \/ t \in f.tags
    BY <1>4, <1>5, <2>3, <2>4 DEF Tagging
  <2>6. QED BY <1>3, <1>5, <2>2, <2>3, <2>5 DEF Tagging
<1>9. QED BY <1>2, <1>6, <1>7, <1>8

LEMMA RepairTags ==
    ASSUME IInv, Tagging, NEW attempted \in BOOLEAN, FinishRepair(attempted) PROVE Tagging'
<1> DEFINE i == pass.id
           now == alert[i]
<1>1. /\ i \in Rows(alert) /\ i \in Ids /\ now \in AlertRows /\ Working /\ RowsOK
      /\ pass' = Done(now.rule, pass) /\ tags' = tags
  BY RepairDoes, Null DEF IInv, Order, TypeOK, FinishRepair
<1>2. PICK d \in Details, new \in AlertRows :
              /\ Repaired(attempted, d, new) /\ RowSame(new, now)
              /\ Copied(d, new.detail)
  BY RepairDoes DEF IInv, Order
<1>3. /\ alert' = [alert EXCEPT ![i] = new] /\ d.tags = pass.detail.tags
  BY <1>2 DEF Repaired
<1>4. /\ alert'[i] = new /\ Rows(alert') = Rows(alert)
      /\ \A j \in Rows(alert) \ {i} : alert'[j] = alert[j]
  <2>1. /\ alert'[i] = new /\ Rows(alert') = Rows(alert) \cup {i}
        /\ \A j \in Ids \ {i} : alert'[j] = alert[j]
    BY <1>1, <1>3, OneRow
  <2>2. QED BY <1>1, <2>1, Null
<1>5. new.detail.tags = pass.detail.tags /\ new.status = now.status
  BY <1>2, <1>3 DEF Copied, RowSame
<1>6. ~Working'
  BY <1>1, DoneIs DEF Working, IInv, TypeOK
<1>7. i \in Active(alert) /\ now.detail.tags \subseteq pass.detail.tags
  BY <1>1 DEF Tagging
<1>8. \A j \in Ids : \A t : Carries(j, t)' <=> IF j = i THEN t \in pass.detail.tags ELSE Carries(j, t)
  BY <1>4, <1>5, <1>7 DEF Carries, Active
<1>9. \A t : (\E j \in Ids : Carries(j, t)') <=>
                (\E j \in Ids : Carries(j, t)) \/ t \in pass.detail.tags
  BY <1>1, <1>7, <1>8 DEF Carries
<1>10. QED BY <1>1, <1>6, <1>9 DEF Tagging

LEMMA TaggingKeeps ==
    ASSUME Apart, Unresolved, IInv, Tagging, [Next]_vars PROVE Tagging'
<1>1. ASSUME NEW sweep \in BOOLEAN, StartPass(sweep) PROVE Tagging'
  <2>1. ~Working /\ ~Working' /\ (sweep => Resolve(Orphans)) /\ (~sweep => UNCHANGED <<alert, tags>>)
    BY <1>1 DEF StartPass, Working, IdlePass
  <2>2. CASE sweep
    BY <2>1, <2>2, ResolveTags DEF Orphans
  <2>3. CASE ~sweep
    BY <2>1, <2>3, UntaggedKeeps DEF Untagged, Working
  <2>4. QED BY <2>2, <2>3
<1>2. ASSUME NEW r \in Rules, ResolveRule(r) PROVE Tagging'
  <2> DEFINE mine == IF r \in pass.pairs THEN ActiveOf(alert, r) ELSE {}
             closes == {i \in mine : \/ pass.verdict[r] = "out"
                                     \/ alert[i].status = "pending"
                                     \/ r \in AutoResolve}
  <2>1. /\ closes \subseteq Active(alert) /\ pass' = Done(r, pass) /\ ~Working
        /\ Resolve(closes) \/ UNCHANGED <<alert, tags>>
    BY <1>2 DEF ActiveOf, ResolveRule, Working
  <2>2. ~Working' /\ pass'.pc # "sending"
    BY <2>1, DoneIs DEF IInv, TypeOK, Working
  <2> HIDE DEF closes
  <2>3. CASE Resolve(closes)
    BY <2>1, <2>2, <2>3, ResolveTags
  <2>4. CASE UNCHANGED <<alert, tags>>
    BY <2>1, <2>2, <2>4, UntaggedKeeps DEF Untagged
  <2>5. QED BY <2>1, <2>3, <2>4
<1>3. ASSUME NEW i \in Ids, ResolveByHand(i) PROVE Tagging'
  <2>1. {i} \subseteq Active(alert) /\ Resolve({i}) /\ pass' = pass /\ MayStart("resolve")
    BY <1>3 DEF ResolveByHand
  <2>2. ~Working
    <3>1. SUFFICES ASSUME Working PROVE FALSE
      OBVIOUS
    <3>2. "pass" \in Running
      BY <3>1 DEF Running, Working
    <3>3. {"resolve", "pass"} \in Overlaps
      BY <2>1, <3>2 DEF MayStart
    <3>4. {"resolve", "pass"} = {"pass", "resolve"}
      OBVIOUS
    <3>5. QED BY <3>3, <3>4 DEF Unresolved
  <2>3. QED BY <2>1, <2>2, ResolveTags DEF Working
<1>4. ASSUME NEW i \in Ids, Acknowledge(i) PROVE Tagging'
  <2>1. /\ i \in Rows(alert) /\ alert[i].status = "pending"
        /\ alert' = [alert EXCEPT ![i].status = "open"] /\ UNCHANGED <<tags, pass>>
    BY <1>4 DEF Acknowledge, Active
  <2>2. Unasked
    BY <1>4, AcknowledgesUnasked
  <2>3. alert'[i].status = "open" /\ \A j \in Rows(alert) \ {i} : alert'[j] = alert[j]
    <3>1. alert \in [Ids -> AlertRows \cup {NoRow}] /\ i \in Ids /\ alert[i] \in AlertRows
      BY <2>1, RowIs DEF IInv, TypeOK, RowsOK
    <3>2. [alert[i] EXCEPT !.status = "open"].status = "open"
      BY <3>1 DEF AlertRows
    <3>3. QED BY <2>1, <3>1, <3>2, Null
  <2>4. QED BY <2>1, <2>2, <2>3, UntaggedKeeps DEF Untagged, Unasked
<1>5. ASSUME NEW i \in Ids, Reject(i) PROVE Tagging'
  <2>1. Answered(i) /\ tags' = tags
    BY <1>5, Rejected DEF Reject
  <2>2. QED BY <2>1, UntaggedKeeps DEF Untagged, Answered, RowOnly
<1>6. ASSUME NEW a \in Approvers, WriteClaim(a) PROVE Tagging'
  <2>1. CASE approver[a].ver # alert[approver[a].id].ver
    BY <1>6, <2>1, UntaggedKeeps DEF WriteClaim, Untagged
  <2>2. CASE approver[a].ver = alert[approver[a].id].ver
    <3>1. Answered(approver[a].id) /\ tags' = tags
      BY <1>6, <2>2, ClaimWritten DEF WriteClaim
    <3>2. QED BY <3>1, UntaggedKeeps DEF Untagged, Answered, RowOnly
  <2>3. QED BY <2>1, <2>2
<1>7. ASSUME NEW a \in Approvers, RecordOutcome(a) PROVE Tagging'
  <2> DEFINE i == approver[a].id
  <2>1. /\ i \in Rows(alert) /\ UNCHANGED <<tags, pass>>
        /\ alert' = [alert EXCEPT ![i].detail.approved = requests, ![i].ver = @ + 1]
    BY <1>7 DEF RecordOutcome, IInv, Order, Placed
  <2>2. Unasked
    BY <1>7, RecordsUnasked
  <2>3. \A j \in Rows(alert) : alert'[j].status = alert[j].status
    <3>1. alert \in [Ids -> AlertRows \cup {NoRow}] /\ i \in Ids /\ alert[i] \in AlertRows
      BY <2>1, RowIs DEF IInv, TypeOK, RowsOK
    <3>2. ASSUME NEW d, NEW v PROVE [alert[i] EXCEPT !.detail = d, !.ver = v].status = alert[i].status
      BY <3>1 DEF AlertRows
    <3> DEFINE d == [alert[i].detail EXCEPT !.approved = requests]
               v == alert[i].ver + 1
    <3>3. alert' = [alert EXCEPT ![i] = [alert[i] EXCEPT !.detail = d, !.ver = v]]
      BY <2>1
    <3> HIDE DEF d, v, i
    <3>4. QED BY <3>1, <3>2, <3>3, Null
  <2>4. QED BY <2>1, <2>2, <2>3, UntaggedKeeps DEF Untagged, Unasked
<1>8. ASSUME \/ \E a \in Approvers : \/ \E i \in Ids : StartApproval(a, i)
                                     \/ ReadClaim(a) \/ SendApproved(a)
             \/ Change \/ Tick \/ UNCHANGED vars
      PROVE  Tagging'
  <2>1. UNCHANGED <<alert, tags, pass>>
    BY <1>8 DEF StartApproval, ReadClaim, SendApproved, Change, Tick, vars
  <2>2. QED BY <2>1, UntaggedKeeps DEF Untagged
<1>9. QED
  BY <1>1, <1>2, <1>3, <1>4, <1>5, <1>6, <1>7, <1>8, ViolatedTags, RepairTags DEF Next

LEMMA InitTagging == Init => Tagging
<1> SUFFICES ASSUME Init PROVE Tagging
  OBVIOUS
<1>1. Rows(alert) = {} /\ ~Working /\ tags = {}
  BY Blank DEF Init, Rows, Working
<1>2. QED BY <1>1 DEF Tagging, Carries, Active

(* Between evaluations the device carries exactly the tags of its active    *)
(* alerts: one that two rules add stays until the last alert is resolved.   *)
(* An administrator must not resolve an alert beside an evaluation of it.   *)
THEOREM TagsOfAlerts == ASSUME Apart, Unresolved PROVE Spec => []TagsFollowAlerts
<1>1. Tagging => TagsFollowAlerts
  <2>1. SUFFICES ASSUME Tagging, ~Working
                 PROVE  tags = UNION {alert[i].detail.tags : i \in Active(alert)}
    BY DEF TagsFollowAlerts, Working
  <2>2. \A t : t \in tags <=> \E i \in Active(alert) : t \in alert[i].detail.tags
    BY <2>1, Null DEF Tagging, Carries, Active
  <2>3. QED BY <2>2
<1>2. Spec => []Tagging
  BY InitTagging, TaggingKeeps, Invariance, PTL DEF Spec
<1>3. QED BY <1>1, <1>2, PTL
=============================================================================
