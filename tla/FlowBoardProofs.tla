--------------------------- MODULE FlowBoardProofs ---------------------------
(***************************************************************************)
(* Proofs about the flows: of FlowBoard and FlowChecks, for any palette of *)
(* steps, any flow that may be drawn with it, and any number of            *)
(* enrollments: the alerts of a held Mac, what the recursive Reach         *)
(* computes, and from it that the validator's verdicts are right about     *)
(* every run. And of FlowFiles, for any ids, passwords and editors: what   *)
(* the file of those flows holds, and that a save loses nobody's work.     *)
(***************************************************************************)
EXTENDS FlowBoard, FlowFiles, TLAPS, WellFoundedInduction, FiniteSetTheorems

-----------------------------------------------------------------------------
(* The inductive invariant *)

Shape ==
    /\ mark \in [opened : BOOLEAN, released : BOOLEAN, saved : BOOLEAN]
    /\ failure \in Severities
    /\ "status" \in DOMAIN run

\* A flow does not change under its runs, and nothing is parked before it is saved.
FlowSettled ==
    /\ saved => DOMAIN flow = 1..last
    /\ ~saved => ~parked

\* The context says of a held Mac that its alert was opened and that nothing let it out;
\* it is what tells _settle_in_setup_on_terminal and _raise_run_failed_alert that the Mac
\* is still at Remote Management.
MarkTrue ==
    held => /\ ~mark.released /\ ~mark.saved
            /\ saved /\ parked /\ HasRelease => mark.opened

IInv == Shape /\ FlowSettled /\ MarkTrue /\ HeldIsOnBoard

-----------------------------------------------------------------------------
(* What the steps of the flow do to the status of the run *)

LEMMA OnwardStatus ==
    ASSUME NEW r, "status" \in DOMAIN r, NEW handle
    PROVE  /\ "status" \in DOMAIN Onward(r, handle)
           /\ Onward(r, handle).status \in {r.status, "broken"}
BY DEF Onward

LEMMA ConsumedStatus ==
    ASSUME NEW r, "status" \in DOMAIN r
    PROVE  "status" \in DOMAIN Consumed(r) /\ Consumed(r).status = r.status
BY DEF Consumed

LEMMA WithGapStatus ==
    ASSUME NEW r, "status" \in DOMAIN r, NEW steps
    PROVE  "status" \in DOMAIN WithGap(r, steps) /\ WithGap(r, steps).status = r.status
BY DEF WithGap

\* A step that marks nothing on the board fails no run.
LEMMA UnseenStatus ==
    ASSUME "status" \in DOMAIN run, Unseen
    PROVE  "status" \in DOMAIN run' /\ (run'.status = "failed" => run.status = "failed")
<1>1. CASE Draw \/ Save
  BY <1>1 DEF Draw, Save
<1>2. CASE AtStart
  BY <1>2, OnwardStatus DEF AtStart, AtA
<1>3. CASE AtInstall
  <2>1. /\ "status" \in DOMAIN Queued(run) /\ Queued(run).status = run.status
        /\ "status" \in DOMAIN NotQueued(run) /\ NotQueued(run).status = run.status
        /\ "status" \in DOMAIN [run EXCEPT !.ungated = TRUE]
        /\ [run EXCEPT !.ungated = TRUE].status = run.status
    BY WithGapStatus DEF Queued, NotQueued
  <2>2. \/ run' = Onward(Queued(run), "next")
        \/ run' = Onward(NotQueued(run), "next")
        \/ run' = Onward([run EXCEPT !.ungated = TRUE], "next")
    BY <1>3 DEF AtInstall
  <2>3. run.status = "running"
    BY <1>3 DEF AtInstall, AtA
  <2>4. QED BY <2>1, <2>2, <2>3, OnwardStatus
<1>4. CASE AtBranch
  BY <1>4, OnwardStatus DEF AtBranch, AtA
<1>5. CASE PassWait
  <2>1. PICK r : /\ r = run \/ r = WithGap(run, {run.at})
                 /\ run' = Onward(Consumed(r), "next")
    BY <1>5 DEF PassWait
  <2>2. "status" \in DOMAIN r /\ r.status = "running"
    BY <1>5, <2>1, WithGapStatus DEF PassWait, AtA
  <2>3. QED BY <2>1, <2>2, ConsumedStatus, OnwardStatus
<1>6. CASE DeviceInstalls
  BY <1>6 DEF DeviceInstalls
<1>7. CASE Resume
  <2> DEFINE r == [run EXCEPT !.status = "running", !.steps = 0]
  <2>1. "status" \in DOMAIN r /\ r.status = "running"
    OBVIOUS
  <2>2. run' = Onward(Consumed(r), "next")
    BY <1>7 DEF Resume
  <2> HIDE DEF r
  <2>3. QED BY <2>1, <2>2, ConsumedStatus, OnwardStatus
<1>8. QED BY <1>1, <1>2, <1>3, <1>4, <1>5, <1>6, <1>7 DEF Unseen

-----------------------------------------------------------------------------
(* What the end of a run does to the board *)

LEMMA Climbs ==
    ASSUME NEW old \in Severities, NEW new \in Severities
    PROVE  Climbed(old, new) \in Severities /\ (new = "red" => Climbed(old, new) = "red")
BY DEF Climbed, Rank, Severities

\* A run whose context says that the Mac is held leaves both alerts on the board.
LEMMA FailureShows ==
    ASSUME failure \in Severities, NEW marked, RaiseFailure(marked)
    PROVE  /\ failure' \in Severities
           /\ marked.opened /\ ~marked.released =>
                 failure' = "red" /\ (inSetup # "none" => inSetup' # "none")
<1>1. PICK severity \in FailureOf(marked) : failure' = Climbed(failure, severity)
  BY DEF RaiseFailure
<1>2. severity \in Severities /\ (marked.opened /\ ~marked.released => severity = "red")
  BY <1>1 DEF FailureOf, Severities
<1>3. inSetup' = Settled(marked, "failed")
  BY DEF RaiseFailure
<1>4. marked.opened /\ ~marked.released /\ inSetup # "none" => inSetup' # "none"
  BY <1>3 DEF Settled
<1>5. QED BY <1>1, <1>2, <1>4, Climbs

\* A step that ends a run, or not, and leaves the Mac, the flow and the marks as they are.
LEMMA SettlingKeeps ==
    ASSUME IInv, UNCHANGED <<last, flow, saved, held, mark, parked>>,
           "status" \in DOMAIN run', failure' \in Severities,
           saved /\ held /\ parked /\ HasRelease =>
              inSetup' # "none" /\ (run'.status = "failed" => failure' = "red")
    PROVE  IInv'
<1>1. HasRelease' = HasRelease
  BY DEF HasRelease, OfType
<1>2. QED BY <1>1 DEF IInv, Shape, FlowSettled, MarkTrue, HeldIsOnBoard

-----------------------------------------------------------------------------
(* One lemma for each step *)

LEMMA UnseenKeeps == IInv /\ Unseen => IInv'
<1> SUFFICES ASSUME IInv, Unseen PROVE IInv'
  OBVIOUS
<1>1. "status" \in DOMAIN run' /\ (run'.status = "failed" => run.status = "failed")
  BY UnseenStatus DEF IInv, Shape
<1>2. UNCHANGED boardVars
  BY DEF Unseen
<1>3. CASE Draw \/ Save
  <2>1. ~saved
    BY <1>3 DEF Draw, Save, IInv, FlowSettled
  <2>2. ~parked' /\ (saved' => DOMAIN flow' = 1..last')
    BY <1>2, <1>3, <2>1 DEF boardVars, IInv, FlowSettled, Draw, Save
  <2>3. QED BY <1>1, <1>2, <2>1, <2>2
            DEF boardVars, IInv, Shape, FlowSettled, MarkTrue, HeldIsOnBoard
<1>4. CASE UNCHANGED <<last, flow, saved>>
  BY <1>1, <1>2, <1>4, SettlingKeeps DEF boardVars, IInv, Shape, HeldIsOnBoard
<1>5. QED BY <1>3, <1>4 DEF Unseen, AtStart, AtInstall, AtBranch, PassWait, DeviceInstalls, Resume

LEMMA ParkKeeps == IInv /\ ParkOnBoard => IInv'
<1> SUFFICES ASSUME IInv, ParkOnBoard PROVE IInv'
  OBVIOUS
<1>1. /\ UNCHANGED <<last, flow, saved, held, failure>>
      /\ saved /\ parked'
      /\ mark' = [mark EXCEPT !.saved = mark.released, !.opened = @ \/ HasRelease]
      /\ "status" \in DOMAIN run' /\ run'.status = "waiting"
  BY DEF ParkOnBoard, Park, AtA, IInv, Shape
<1>2. HasRelease' = HasRelease
  BY <1>1 DEF HasRelease, OfType
<1>3. HasRelease \in BOOLEAN
  BY DEF HasRelease
<1>4. /\ mark' \in [opened : BOOLEAN, released : BOOLEAN, saved : BOOLEAN]
      /\ mark'.released = mark.released /\ mark'.saved = mark.released
      /\ HasRelease => mark'.opened
  BY <1>1, <1>3 DEF IInv, Shape
<1>5. HasRelease => inSetup' # "none"
  BY DEF ParkOnBoard
<1>6. QED BY <1>1, <1>2, <1>4, <1>5 DEF IInv, Shape, FlowSettled, MarkTrue, HeldIsOnBoard

\* Once the push is sure to arrive, whoever lets the Mac out ends the hold.
LEMMA LetOutKeeps ==
    ASSUME "pushFails" \notin Mishaps, IInv, LetOut,
           UNCHANGED <<last, flow, saved, failure, parked>>, "status" \in DOMAIN run',
           mark' \in [opened : BOOLEAN, released : BOOLEAN, saved : BOOLEAN]
    PROVE  IInv'
<1>1. ~held'
  BY DEF LetOut
<1>2. QED BY <1>1 DEF IInv, Shape, FlowSettled, MarkTrue, HeldIsOnBoard

LEMMA ReleaseKeeps ==
    ASSUME "pushFails" \notin Mishaps, IInv, ReleaseOnBoard PROVE IInv'
<1>1. LetOut /\ UNCHANGED <<last, flow, saved, failure, parked>>
  BY DEF ReleaseOnBoard, AtRelease
<1>2. mark' \in [opened : BOOLEAN, released : BOOLEAN, saved : BOOLEAN]
  BY DEF ReleaseOnBoard, IInv, Shape
<1>3. PICK u : run' = Onward([run EXCEPT !.unverified = u], "next")
  BY DEF ReleaseOnBoard, AtRelease
<1>4. "status" \in DOMAIN [run EXCEPT !.unverified = u]
  BY DEF IInv, Shape
<1>5. "status" \in DOMAIN run'
  BY <1>3, <1>4, OnwardStatus
<1>6. QED BY <1>1, <1>2, <1>5, LetOutKeeps

LEMMA ByHandKeeps ==
    ASSUME "pushFails" \notin Mishaps, IInv, ReleaseByHand PROVE IInv'
<1>1. LetOut /\ UNCHANGED <<last, flow, saved, run, mark, failure, parked>>
  BY DEF ReleaseByHand
<1>2. QED BY <1>1, LetOutKeeps DEF IInv, Shape

LEMMA EndKeeps == IInv /\ EndOnBoard => IInv'
<1> SUFFICES ASSUME IInv, EndOnBoard PROVE IInv'
  OBVIOUS
<1>1. /\ UNCHANGED <<last, flow, saved, held, mark, parked>>
      /\ "status" \in DOMAIN run'
  BY DEF EndOnBoard, AtEnd, IInv, Shape
<1>2. saved /\ held /\ parked /\ HasRelease =>
         mark.opened /\ ~mark.released /\ inSetup # "none"
  BY DEF IInv, MarkTrue, HeldIsOnBoard
<1>3. CASE run'.status = "failed"
  <2>1. RaiseFailure(mark)
    BY <1>3 DEF EndOnBoard
  <2>2. QED BY <1>1, <1>2, <2>1, FailureShows, SettlingKeeps DEF IInv, Shape
<1>4. CASE run'.status # "failed"
  <2>1. inSetup' = Settled(mark, "completed") /\ failure' = "none"
    BY <1>4 DEF EndOnBoard
  <2>2. mark.opened /\ ~mark.released => inSetup' = inSetup
    BY <2>1 DEF Settled
  <2>3. failure' \in Severities
    BY <2>1 DEF Severities
  <2>4. QED BY <1>1, <1>2, <1>4, <2>2, <2>3, SettlingKeeps
<1>5. QED BY <1>3, <1>4

LEMMA TimeOutKeeps == IInv /\ TimeOutOnBoard => IInv'
<1> SUFFICES ASSUME IInv, TimeOutOnBoard PROVE IInv'
  OBVIOUS
<1>1. UNCHANGED <<last, flow, saved, held, mark, parked>>
  BY DEF TimeOutOnBoard, TimeOut
<1>2. "status" \in DOMAIN run'
  <2>1. CASE run' = [run EXCEPT !.status = "failed"]
    BY <2>1 DEF IInv, Shape
  <2>2. CASE run' # [run EXCEPT !.status = "failed"]
    <3> DEFINE unmet == WithGap(run, Wanted \ run.satisfied)
               r == [unmet EXCEPT !.status = "running", !.steps = 0]
    <3>1. "status" \in DOMAIN unmet
      BY WithGapStatus DEF IInv, Shape
    <3>2. "status" \in DOMAIN r
      BY <3>1
    <3>3. run' = Onward(Consumed(r), "on_timeout")
      BY <2>2 DEF TimeOutOnBoard, TimeOut
    <3> HIDE DEF r
    <3>4. QED BY <3>2, <3>3, ConsumedStatus, OnwardStatus
  <2>3. QED BY <2>1, <2>2
<1>3. saved /\ held /\ parked /\ HasRelease =>
         mark.opened /\ ~mark.released /\ inSetup # "none"
  BY DEF IInv, MarkTrue, HeldIsOnBoard
<1>4. CASE run'.status = "failed"
  <2>1. RaiseFailure(mark)
    BY <1>4 DEF TimeOutOnBoard
  <2>2. QED BY <1>1, <1>2, <1>3, <2>1, FailureShows, SettlingKeeps DEF IInv, Shape
<1>5. CASE run'.status # "failed"
  <2>1. inSetup' = inSetup /\ failure' = failure
    BY <1>5 DEF TimeOutOnBoard
  <2>2. QED BY <1>1, <1>2, <1>3, <1>5, <2>1, SettlingKeeps DEF IInv, Shape
<1>6. QED BY <1>4, <1>5

LEMMA OrphanKeeps == IInv /\ FailOrphan => IInv'
<1> SUFFICES ASSUME IInv, FailOrphan PROVE IInv'
  OBVIOUS
<1> DEFINE marked == [mark EXCEPT !.released = mark.saved]
<1>1. /\ UNCHANGED <<last, flow, saved, held, mark, parked>>
      /\ RaiseFailure(marked)
      /\ "status" \in DOMAIN run'
  BY DEF FailOrphan, IInv, Shape
<1>2. marked.opened = mark.opened /\ marked.released = mark.saved
  BY DEF IInv, Shape
<1>3. saved /\ held /\ parked /\ HasRelease =>
         mark.opened /\ ~mark.saved /\ inSetup # "none"
  BY DEF IInv, MarkTrue, HeldIsOnBoard
<1> HIDE DEF marked
<1>4. QED BY <1>1, <1>2, <1>3, FailureShows, SettlingKeeps DEF IInv, Shape

LEMMA EnrollKeeps == IInv /\ EnrollAgain => IInv'
<1> SUFFICES ASSUME IInv, EnrollAgain PROVE IInv'
  OBVIOUS
<1>1. /\ UNCHANGED <<last, flow, saved, failure>>
      /\ ~parked' /\ mark' = NewMark /\ "status" \in DOMAIN run'
  BY DEF EnrollAgain, NewRun
<1>2. mark' \in [opened : BOOLEAN, released : BOOLEAN, saved : BOOLEAN]
      /\ ~mark'.released /\ ~mark'.saved
  BY <1>1 DEF NewMark
<1>3. QED BY <1>1, <1>2 DEF IInv, Shape, FlowSettled, MarkTrue, HeldIsOnBoard

-----------------------------------------------------------------------------
LEMMA InitHolds == BoardInit => IInv
<1> SUFFICES ASSUME BoardInit PROVE IInv
  OBVIOUS
<1>1. ~saved /\ ~parked /\ failure = "none" /\ mark = NewMark /\ run = NewRun
  BY DEF BoardInit, Init
<1>2. QED BY <1>1 DEF NewMark, NewRun, Severities, IInv, Shape, FlowSettled, MarkTrue,
                      HeldIsOnBoard

LEMMA StepKeeps ==
    ASSUME "pushFails" \notin Mishaps, IInv, [BoardNext]_<<vars, boardVars>>
    PROVE  IInv'
<1>1. CASE BoardNext
  BY <1>1, UnseenKeeps, ParkKeeps, ReleaseKeeps, ByHandKeeps, EndKeeps, TimeOutKeeps,
     OrphanKeeps, EnrollKeeps DEF BoardNext
<1>2. CASE UNCHANGED <<vars, boardVars>>
  BY <1>2, SettlingKeeps DEF vars, boardVars, IInv, Shape, HeldIsOnBoard
<1>3. QED BY <1>1, <1>2

\* As long as the DeviceConfigured push does not fail, whatever the flow: a Mac that a
\* releasing flow keeps waiting is on the board for as long as it is held, with a red
\* failure alert once its run has failed (_settle_in_setup_on_terminal,
\* _raise_run_failed_alert).
THEOREM HeldAlwaysOnBoard ==
    ASSUME "pushFails" \notin Mishaps
    PROVE  BoardSpec => []HeldIsOnBoard
<1>1. BoardInit => IInv
  BY InitHolds
<1>2. IInv /\ [BoardNext]_<<vars, boardVars>> => IInv'
  BY StepKeeps
<1>3. IInv => HeldIsOnBoard
  BY DEF IInv
<1>4. QED BY <1>1, <1>2, <1>3, PTL DEF BoardSpec

-----------------------------------------------------------------------------
(* FlowChecks: what _reach_nodes returns *)

LEMMA LeastNat ==
    ASSUME NEW B \in SUBSET Nat, B # {} PROVE \E b \in B : \A c \in B : b <= c
<1> DEFINE R == OpToRel(<, Nat)
<1>1. IsWellFoundedOn(R, Nat)
  BY NatLessThanWellFounded
<1>2. \A x, y \in Nat : x < y => <<x, y>> \in R
  BY DEF OpToRel
<1> HIDE DEF R
<1>3. PICK b \in B : \A c \in B : ~(<<c, b>> \in R)
  BY <1>1, WFMin
<1>4. ASSUME NEW c \in B PROVE b <= c
  <2>1. b \in Nat /\ c \in Nat
    OBVIOUS
  <2>2. ~(c < b)
    BY <1>2, <1>3, <2>1
  <2>3. QED BY <2>1, <2>2
<1>5. QED BY <1>4

\* The first n iterates of G from a.
Iterates(G, S, a, n, g) ==
    /\ g \in [0..n -> S]
    /\ g[0] = a
    /\ \A k \in 1..n : g[k] = G[g[k - 1]]

LEMMA IteratesAgree ==
    ASSUME NEW S, NEW G \in [S -> S], NEW a \in S, NEW n \in Nat, NEW m \in Nat,
           NEW g, NEW h, Iterates(G, S, a, n, g), Iterates(G, S, a, m, h),
           NEW k \in Nat, k <= n, k <= m
    PROVE  g[k] = h[k]
<1> DEFINE B == {i \in Nat : i <= n /\ i <= m /\ g[i] # h[i]}
<1>1. SUFFICES ASSUME B # {} PROVE FALSE
  OBVIOUS
<1>2. PICK b \in B : \A c \in B : b <= c
  <2> HIDE DEF B
  <2>1. B \in SUBSET Nat
    BY DEF B
  <2>2. QED BY <1>1, <2>1, LeastNat
<1>3. b # 0
  BY DEF Iterates
<1>4. b - 1 \in Nat /\ b - 1 <= n /\ b - 1 <= m /\ ~(b <= b - 1)
  BY <1>3
<1>5. g[b - 1] = h[b - 1]
  BY <1>2, <1>4
<1>6. b \in 1..n /\ b \in 1..m
  BY <1>3
<1>7. g[b] = h[b]
  BY <1>5, <1>6 DEF Iterates
<1>8. QED BY <1>7

LEMMA IteratesExist ==
    ASSUME NEW S, NEW G \in [S -> S], NEW a \in S, NEW n \in Nat
    PROVE  \E g : Iterates(G, S, a, n, g)
<1> DEFINE B == {i \in Nat : ~\E g : Iterates(G, S, a, i, g)}
<1>1. SUFFICES ASSUME B # {} PROVE FALSE
  OBVIOUS
<1>2. PICK b \in B : \A c \in B : b <= c
  <2> HIDE DEF B
  <2>1. B \in SUBSET Nat
    BY DEF B
  <2>2. QED BY <1>1, <2>1, LeastNat
<1>3. b # 0
  <2>1. Iterates(G, S, a, 0, [i \in 0..0 |-> a])
    BY DEF Iterates
  <2>2. QED BY <2>1
<1>4. b - 1 \in Nat /\ ~(b <= b - 1)
  BY <1>3
<1>5. PICK g : Iterates(G, S, a, b - 1, g)
  BY <1>2, <1>4
<1> DEFINE h == [i \in 0..b |-> IF i = b THEN G[g[b - 1]] ELSE g[i]]
<1>6. g \in [0..(b - 1) -> S] /\ g[0] = a /\ \A i \in 1..(b - 1) : g[i] = G[g[i - 1]]
  BY <1>5 DEF Iterates
<1>7. h \in [0..b -> S]
  <2>1. G[g[b - 1]] \in S
    BY <1>4, <1>6
  <2>2. \A i \in 0..b : i # b => i \in 0..(b - 1)
    OBVIOUS
  <2>3. QED BY <1>6, <2>1, <2>2
<1>8. h[0] = a
  BY <1>3, <1>6
<1>9. ASSUME NEW i \in 1..b PROVE h[i] = G[h[i - 1]]
  <2>1. i - 1 \in 0..b /\ i - 1 # b /\ h[i - 1] = g[i - 1]
    OBVIOUS
  <2>2. CASE i = b
    BY <2>1, <2>2
  <2>3. CASE i # b
    <3>1. i \in 1..(b - 1)
      BY <2>3
    <3>2. h[i] = g[i]
      BY <2>3
    <3>3. QED BY <1>6, <2>1, <3>1, <3>2
  <2>4. QED BY <2>2, <2>3
<1>10. Iterates(G, S, a, b, h)
  <2> HIDE DEF h
  <2>1. QED BY <1>7, <1>8, <1>9 DEF Iterates
<1>11. QED BY <1>10

\* The recursive function that a step G defines.
IsStep(G, S, a) == G \in [S -> S] /\ a \in S
IsOrbit(f, G, S, a) ==
    f \in [Nat -> S] /\ f[0] = a /\ \A k \in Nat : k # 0 => f[k] = G[f[k - 1]]

LEMMA StagesExist ==
    ASSUME NEW S, NEW G, NEW a, IsStep(G, S, a) PROVE \E f : IsOrbit(f, G, S, a)
<1>0. G \in [S -> S] /\ a \in S
  BY DEF IsStep
<1> DEFINE Up(n) == CHOOSE g : Iterates(G, S, a, n, g)
           f == [n \in Nat |-> Up(n)[n]]
<1>1. \A n \in Nat : Iterates(G, S, a, n, Up(n))
  BY <1>0, IteratesExist
<1> HIDE DEF Up
<1>2. f \in [Nat -> S]
  <2>1. \A n \in Nat : Up(n)[n] \in S
    BY <1>1 DEF Iterates
  <2>2. QED BY <2>1
<1>3. f[0] = a
  BY <1>1 DEF Iterates
<1>4. ASSUME NEW k \in Nat, k # 0 PROVE f[k] = G[f[k - 1]]
  <2>1. k - 1 \in Nat /\ k - 1 <= k /\ k - 1 <= k - 1 /\ k \in 1..k
    BY <1>4
  <2>2. Up(k)[k - 1] = Up(k - 1)[k - 1]
    <3>1. Iterates(G, S, a, k, Up(k)) /\ Iterates(G, S, a, k - 1, Up(k - 1))
      BY <1>1, <2>1
    <3>2. QED BY <1>0, <2>1, <3>1, IteratesAgree
  <2>3. Up(k)[k] = G[Up(k)[k - 1]]
    BY <1>1, <2>1 DEF Iterates
  <2>4. QED BY <2>1, <2>2, <2>3
<1>5. QED
  <2> HIDE DEF f
  <2>1. IsOrbit(f, G, S, a)
    BY <1>2, <1>3, <1>4 DEF IsOrbit
  <2>2. QED BY <2>1

-----------------------------------------------------------------------------
\* Reach's stages: the recursive function it takes its last word from.
Ahead(edges, blocked, near) == near \cup ((UNION {edges[n] : n \in near}) \ blocked)
IsStages(w, edges, roots, blocked) ==
    /\ w[0] = roots \ blocked
    /\ \A k \in Nat : w[k] \in SUBSET DOMAIN edges /\ w[k + 1] = Ahead(edges, blocked, w[k])

LEMMA ReachStages ==
    ASSUME NEW N, NEW edges \in [N -> SUBSET N], NEW roots \in SUBSET N, NEW blocked
    PROVE  \E w : /\ IsStages(w, edges, roots, blocked)
                  /\ Reach(edges, roots, blocked) = w[Cardinality(N)]
<1> DEFINE G == [s \in SUBSET N |-> Ahead(edges, blocked, s)]
           W == CHOOSE w : w = [k \in Nat |->
                    IF k = 0 THEN roots \ blocked
                    ELSE LET near == w[k - 1]
                         IN near \cup ((UNION {edges[n] : n \in near}) \ blocked)]
<1>1. G \in [SUBSET N -> SUBSET N]
  BY DEF Ahead
<1>2. roots \ blocked \in SUBSET N
  OBVIOUS
<1>3. PICK f \in [Nat -> SUBSET N] :
          f[0] = roots \ blocked /\ \A k \in Nat : k # 0 => f[k] = G[f[k - 1]]
  <2> DEFINE S == SUBSET N
             a == roots \ blocked
  <2>1. IsStep(G, S, a)
    BY <1>1, <1>2 DEF IsStep
  <2> HIDE DEF G, S, a
  <2>2. PICK f : IsOrbit(f, G, S, a)
    BY <2>1, StagesExist
  <2>3. QED BY <2>2 DEF IsOrbit, S, a
<1>4. f = [k \in Nat |-> IF k = 0 THEN roots \ blocked
                         ELSE LET near == f[k - 1]
                              IN near \cup ((UNION {edges[n] : n \in near}) \ blocked)]
  <2>1. \A k \in Nat : k # 0 => k - 1 \in Nat /\ f[k - 1] \in SUBSET N
    OBVIOUS
  <2>2. \A k \in Nat : k # 0 =>
          G[f[k - 1]] = f[k - 1] \cup ((UNION {edges[n] : n \in f[k - 1]}) \ blocked)
    BY <2>1 DEF Ahead
  <2> HIDE DEF G
  <2>3. QED BY <1>3, <2>2
<1>5. W = [k \in Nat |-> IF k = 0 THEN roots \ blocked
                         ELSE LET near == W[k - 1]
                              IN near \cup ((UNION {edges[n] : n \in near}) \ blocked)]
  BY <1>4
<1> HIDE DEF W
<1>6. W[0] = roots \ blocked
  BY <1>5
<1>7. \A k \in Nat : W[k + 1] = Ahead(edges, blocked, W[k])
  <2> SUFFICES ASSUME NEW k \in Nat PROVE W[k + 1] = Ahead(edges, blocked, W[k])
    OBVIOUS
  <2>1. k + 1 \in Nat /\ k + 1 # 0 /\ (k + 1) - 1 = k
    OBVIOUS
  <2>2. QED BY <1>5, <2>1 DEF Ahead
<1>8. \A k \in Nat : W[k] \in SUBSET N
  <2> DEFINE B == {k \in Nat : W[k] \notin SUBSET N}
  <2>1. SUFFICES ASSUME B # {} PROVE FALSE
    OBVIOUS
  <2>2. PICK b \in B : \A c \in B : b <= c
    <3> HIDE DEF B
    <3>1. B \in SUBSET Nat
      BY DEF B
    <3>2. QED BY <2>1, <3>1, LeastNat
  <2>3. b # 0
    BY <1>6
  <2>4. b - 1 \in Nat /\ ~(b <= b - 1) /\ (b - 1) + 1 = b
    BY <2>3
  <2>5. W[b - 1] \in SUBSET N
    BY <2>2, <2>4
  <2>6. W[b] = Ahead(edges, blocked, W[b - 1])
    BY <1>7, <2>4
  <2>7. QED BY <2>5, <2>6 DEF Ahead
<1>9. IsStages(W, edges, roots, blocked)
  BY <1>6, <1>7, <1>8 DEF IsStages
<1>10. Reach(edges, roots, blocked) = W[Cardinality(N)]
  <2>1. DOMAIN edges = N
    OBVIOUS
  <2>2. QED BY <2>1 DEF Reach, W
<1>11. QED BY <1>9, <1>10

\* A stage that adds nothing is the last.
LEMMA StandStill ==
    ASSUME NEW edges, NEW roots, NEW blocked, NEW w, IsStages(w, edges, roots, blocked),
           NEW k \in Nat, w[k + 1] = w[k], NEW m \in Nat, k <= m
    PROVE  w[m] = w[k]
<1> DEFINE B == {i \in Nat : k <= i /\ w[i] # w[k]}
<1>1. SUFFICES ASSUME B # {} PROVE FALSE
  OBVIOUS
<1>2. PICK b \in B : \A c \in B : b <= c
  <2> HIDE DEF B
  <2>1. B \in SUBSET Nat
    BY DEF B
  <2>2. QED BY <1>1, <2>1, LeastNat
<1>3. b - 1 \in Nat /\ k <= b - 1 /\ ~(b <= b - 1) /\ (b - 1) + 1 = b
  <2>1. b # k
    OBVIOUS
  <2>2. QED BY <2>1
<1>4. w[b - 1] = w[k]
  BY <1>2, <1>3
<1>5. w[b] = Ahead(edges, blocked, w[b - 1]) /\ w[k + 1] = Ahead(edges, blocked, w[k])
  BY <1>3 DEF IsStages
<1>6. QED BY <1>4, <1>5

\* Until then every stage is larger than the one before it.
LEMMA StagesClimb ==
    ASSUME NEW N, IsFiniteSet(N), NEW edges \in [N -> SUBSET N], NEW roots, NEW blocked,
           NEW w, IsStages(w, edges, roots, blocked),
           NEW n \in Nat, \A k \in 0..n : w[k + 1] # w[k]
    PROVE  n < Cardinality(N)
<1> DEFINE B == {i \in Nat : i <= n + 1 /\ Cardinality(w[i]) < i}
<1>1. \A k \in Nat : /\ w[k] \in SUBSET N
                     /\ IsFiniteSet(w[k]) /\ Cardinality(w[k]) \in Nat
                     /\ Cardinality(w[k]) <= Cardinality(N)
  <2>1. \A k \in Nat : w[k] \in SUBSET N
    BY DEF IsStages
  <2>2. QED BY <2>1, FS_Subset, FS_CardinalityType
<1>2. Cardinality(N) \in Nat
  BY FS_CardinalityType
<1>3. B = {}
  <2>1. SUFFICES ASSUME B # {} PROVE FALSE
    OBVIOUS
  <2>2. PICK b \in B : \A c \in B : b <= c
    <3> HIDE DEF B
    <3>1. B \in SUBSET Nat
      BY DEF B
    <3>2. QED BY <2>1, <3>1, LeastNat
  <2>3. b # 0
    BY <1>1
  <2>4. b - 1 \in Nat /\ b - 1 \in 0..n /\ ~(b <= b - 1) /\ (b - 1) + 1 = b
    BY <2>3
  <2>5. ~(Cardinality(w[b - 1]) < b - 1)
    BY <2>2, <2>4
  <2>6. w[b] # w[b - 1]
    BY <2>4
  <2>7. w[b - 1] \subseteq w[b]
    BY <2>4 DEF IsStages, Ahead
  <2>8. Cardinality(w[b - 1]) < Cardinality(w[b])
    <3>1. Cardinality(w[b - 1]) <= Cardinality(w[b])
          /\ Cardinality(w[b - 1]) # Cardinality(w[b])
      BY <1>1, <2>4, <2>6, <2>7, FS_Subset
    <3>2. QED BY <1>1, <2>4, <3>1
  <2>9. QED BY <1>1, <2>4, <2>5, <2>8
<1>4. ~(Cardinality(w[n + 1]) < n + 1)
  BY <1>3
<1>5. QED BY <1>1, <1>2, <1>4

\* What can be walked to is there ...
LEMMA ReachSound ==
    ASSUME NEW N, IsFiniteSet(N), NEW edges \in [N -> SUBSET N],
           NEW roots \in SUBSET N, NEW blocked
    PROVE  /\ Reach(edges, roots, blocked) \in SUBSET N
           /\ roots \ blocked \subseteq Reach(edges, roots, blocked)
           /\ \A n \in Reach(edges, roots, blocked) :
                 edges[n] \ blocked \subseteq Reach(edges, roots, blocked)
<1>1. PICK w : /\ IsStages(w, edges, roots, blocked)
               /\ Reach(edges, roots, blocked) = w[Cardinality(N)]
  BY ReachStages
<1> DEFINE c == Cardinality(N)
<1>2. c \in Nat
  BY FS_CardinalityType
<1>3. PICK k \in 0..c : w[k + 1] = w[k]
  <2>1. CASE \A k \in 0..c : w[k + 1] # w[k]
    <3>1. c < Cardinality(N)
      BY <1>1, <1>2, <2>1, StagesClimb
    <3>2. QED BY <1>2, <3>1
  <2>2. QED BY <2>1
<1>4. k \in Nat /\ k <= c
  BY <1>2
<1>5. w[c] = w[k]
  BY <1>1, <1>2, <1>3, <1>4, StandStill
<1>6. w[k] \in SUBSET N /\ w[k] = Ahead(edges, blocked, w[k])
  BY <1>1, <1>3, <1>4 DEF IsStages
<1>7. roots \ blocked \subseteq w[k]
  <2> DEFINE B == {i \in Nat : ~(roots \ blocked \subseteq w[i])}
  <2>1. SUFFICES ASSUME B # {} PROVE FALSE
    BY <1>4
  <2>2. PICK b \in B : \A i \in B : b <= i
    <3> HIDE DEF B
    <3>1. B \in SUBSET Nat
      BY DEF B
    <3>2. QED BY <2>1, <3>1, LeastNat
  <2>3. b # 0
    BY <1>1 DEF IsStages
  <2>4. b - 1 \in Nat /\ ~(b <= b - 1) /\ (b - 1) + 1 = b
    BY <2>3
  <2>5. roots \ blocked \subseteq w[b - 1]
    BY <2>2, <2>4
  <2>6. w[b - 1] \subseteq w[b]
    BY <1>1, <2>4 DEF IsStages, Ahead
  <2>7. QED BY <2>5, <2>6
<1>8. QED BY <1>1, <1>5, <1>6, <1>7 DEF Ahead

\* ... and nothing else: any set closed under the edges that has the roots has it all.
LEMMA ReachLeast ==
    ASSUME NEW N, IsFiniteSet(N), NEW edges \in [N -> SUBSET N],
           NEW roots \in SUBSET N, NEW blocked, NEW X,
           roots \ blocked \subseteq X, \A n \in X \cap N : edges[n] \ blocked \subseteq X
    PROVE  Reach(edges, roots, blocked) \subseteq X
<1>1. PICK w : /\ IsStages(w, edges, roots, blocked)
               /\ Reach(edges, roots, blocked) = w[Cardinality(N)]
  BY ReachStages
<1>2. Cardinality(N) \in Nat
  BY FS_CardinalityType
<1> DEFINE B == {i \in Nat : ~(w[i] \subseteq X)}
<1>3. SUFFICES ASSUME B # {} PROVE FALSE
  BY <1>1, <1>2
<1>4. PICK b \in B : \A i \in B : b <= i
  <2> HIDE DEF B
  <2>1. B \in SUBSET Nat
    BY DEF B
  <2>2. QED BY <1>3, <2>1, LeastNat
<1>5. b # 0
  BY <1>1 DEF IsStages
<1>6. b - 1 \in Nat /\ ~(b <= b - 1) /\ (b - 1) + 1 = b
  BY <1>5
<1>7. w[b - 1] \subseteq X /\ w[b - 1] \in SUBSET N
  BY <1>1, <1>4, <1>6 DEF IsStages
<1>8. w[b] = Ahead(edges, blocked, w[b - 1])
  BY <1>1, <1>6 DEF IsStages
<1>9. w[b] \subseteq X
  BY <1>7, <1>8 DEF Ahead
<1>10. QED BY <1>9

-----------------------------------------------------------------------------
(* FlowChecks: the inductive invariant *)

\* A node as it may be drawn; only the first is the start.
NodeDrawn(n) ==
    /\ flow[n].type \in Steps \cup {"start", "end"}
    /\ flow[n].type = "start" <=> n = 1
    /\ flow[n].edges \in [Handles(flow[n].type) -> {None, Unknown} \cup 1..last]

\* The document, before and after it is saved.
Document ==
    /\ last \in Sizes
    /\ \E k \in 1..last : DOMAIN flow = 1..k
    /\ \A n \in DOMAIN flow : NodeDrawn(n)
    /\ saved => DOMAIN flow = 1..last /\ Accepted(flow)
    /\ ~saved => run = NewRun /\ device = {} /\ asked = {}

Runs == [status : {"running", "waiting", "completed", "failed", "broken"}, at : 1..last,
         expected : SUBSET (1..last), satisfied : SUBSET (1..last), ungated : BOOLEAN,
         gaps : SUBSET (1..last), unverified : BOOLEAN, steps : Nat]

\* The nodes of a live flow that lead to n: on a flow without cycles, one more for every
\* step of a run.
Behind(f, n) == {m \in Live(f) : n \in Reach(Edges(f), Edges(f)[m], {})}

\* The run is where the flow's start leads, and no further than the nodes behind it.
OnItsWay(r) == r.at \in Live(flow) /\ r.steps <= Cardinality(Behind(flow, r.at))

\* What the run expects was asked for by live, gated installs, and no barrier lies between
\* them and where the run is.
Carried(r) ==
    \A i \in r.expected :
        /\ i \in LiveInstalls(flow)
        /\ r.at \in Reach(Edges(flow), Edges(flow)[i], Barriers(flow) \ {r.at})

\* A parked run waits for something it expects.
ParkedFor(r) ==
    r.status = "waiting" => /\ flow[r.at].type = "wait_for"
                            /\ flow[r.at].signal = "profile_installed" /\ r.expected # {}

\* Nothing the run asked for is lost from sight.
InSight(r) == asked \subseteq device \cup r.gaps \cup r.expected

Going == saved /\ run.status \in {"running", "waiting"}

ChecksInv ==
    /\ Document
    /\ run \in Runs /\ run.satisfied \subseteq device
    /\ Going => OnItsWay(run) /\ Carried(run) /\ ParkedFor(run) /\ InSight(run)
    /\ AcceptedRuns /\ ReleaseAccountedFor

-----------------------------------------------------------------------------
(* What the checks say of a flow, walked through *)

LEMMA EdgesType ==
    ASSUME NEW f PROVE Edges(f) \in [DOMAIN f -> SUBSET DOMAIN f]
BY DEF Edges

LEMMA LiveNodes ==
    ASSUME NEW f, IsFiniteSet(DOMAIN f)
    PROVE  /\ Live(f) \in SUBSET DOMAIN f
           /\ OfType(f, "start") \subseteq Live(f)
           /\ \A n \in Live(f) : Edges(f)[n] \subseteq Live(f)
<1>1. OfType(f, "start") \in SUBSET DOMAIN f
  BY DEF OfType
<1>2. QED BY <1>1, EdgesType, ReachSound DEF Live

\* Every step of an acyclic flow leaves one more node behind, and never all of them.
LEMMA OneMoreBehind ==
    ASSUME NEW f, IsFiniteSet(DOMAIN f), ~Cyclic(f), NEW n \in Live(f), NEW m \in Edges(f)[n]
    PROVE  /\ m \in Live(f)
           /\ Cardinality(Behind(f, n)) \in Nat
           /\ Cardinality(Behind(f, m)) \in Nat
           /\ Cardinality(Behind(f, n)) < Cardinality(Behind(f, m))
           /\ Cardinality(Behind(f, m)) < Cardinality(DOMAIN f)
<1> DEFINE E == Edges(f)
           N == DOMAIN f
<1>1. E \in [N -> SUBSET N] /\ IsFiniteSet(N)
  BY EdgesType
<1>2. Live(f) \in SUBSET N /\ m \in Live(f)
  BY LiveNodes
<1>3. \A x \in Live(f) : /\ Reach(E, E[x], {}) \in SUBSET N
                         /\ E[x] \subseteq Reach(E, E[x], {})
                         /\ \A y \in Reach(E, E[x], {}) : E[y] \subseteq Reach(E, E[x], {})
  <2> SUFFICES ASSUME NEW x \in Live(f)
               PROVE  /\ Reach(E, E[x], {}) \in SUBSET N
                      /\ E[x] \subseteq Reach(E, E[x], {})
                      /\ \A y \in Reach(E, E[x], {}) : E[y] \subseteq Reach(E, E[x], {})
    OBVIOUS
  <2>1. E[x] \in SUBSET N
    BY <1>1, <1>2
  <2> HIDE DEF E, N
  <2>2. QED BY <1>1, <2>1, ReachSound
<1>4. n \notin Behind(f, n) /\ m \notin Behind(f, m)
  BY <1>2 DEF Behind, Cyclic
<1>5. Behind(f, n) \cup {n} \subseteq Behind(f, m)
  BY <1>3 DEF Behind
<1>6. Behind(f, m) \subseteq N \ {m} /\ m \in N
  BY <1>2, <1>4 DEF Behind
<1> HIDE DEF E, N
<1>7. IsFiniteSet(N \ {m}) /\ Cardinality(N \ {m}) = Cardinality(N) - 1 /\ Cardinality(N) \in Nat
  BY <1>1, <1>6, FS_RemoveElement, FS_CardinalityType
<1>8. IsFiniteSet(Behind(f, m)) /\ Cardinality(Behind(f, m)) <= Cardinality(N \ {m})
      /\ Cardinality(Behind(f, m)) \in Nat
  BY <1>6, <1>7, FS_Subset, FS_CardinalityType
<1>9. IsFiniteSet(Behind(f, n) \cup {n})
      /\ Cardinality(Behind(f, n) \cup {n}) <= Cardinality(Behind(f, m))
  BY <1>5, <1>8, FS_Subset
<1>10. IsFiniteSet(Behind(f, n)) /\ Cardinality(Behind(f, n)) \in Nat
       /\ Cardinality(Behind(f, n) \cup {n}) = Cardinality(Behind(f, n)) + 1
  <2>1. IsFiniteSet(Behind(f, n))
    BY <1>5, <1>8, FS_Subset
  <2>2. QED BY <2>1, <1>4, FS_AddElement, FS_CardinalityType
<1>11. QED BY <1>2, <1>7, <1>8, <1>9, <1>10 DEF N

\* A walk past a node that is not in the way goes on to the next, whether or not that one
\* is in the way of others.
LEMMA WalksOn ==
    ASSUME NEW f, IsFiniteSet(DOMAIN f), NEW roots \in SUBSET DOMAIN f, NEW blocked,
           NEW n, n \in Reach(Edges(f), roots, blocked \ {n}), n \notin blocked,
           NEW m \in Edges(f)[n]
    PROVE  m \in Reach(Edges(f), roots, blocked \ {m})
<1> DEFINE E == Edges(f)
           N == DOMAIN f
           B == blocked \ {m}
           X == Reach(E, roots, B)
<1>1. E \in [N -> SUBSET N] /\ IsFiniteSet(N) /\ roots \in SUBSET N
  BY EdgesType
<1>2. blocked \ {n} = blocked
  OBVIOUS
<1>3. roots \ B \subseteq X /\ \A y \in X : E[y] \ B \subseteq X
  <2> HIDE DEF E, N, B
  <2>1. QED BY <1>1, ReachSound
<1>4. roots \ blocked \subseteq X /\ \A y \in X \cap N : E[y] \ blocked \subseteq X
  <2> HIDE DEF X
  <2>1. QED BY <1>3
<1>5. Reach(E, roots, blocked) \subseteq X
  <2> HIDE DEF E, N, X
  <2>1. QED BY <1>1, <1>4, ReachLeast
<1>6. n \in X
  BY <1>2, <1>5
<1>7. QED BY <1>3, <1>6

LEMMA WalkStarts ==
    ASSUME NEW f, IsFiniteSet(DOMAIN f), NEW i \in DOMAIN f, NEW blocked, NEW m \in Edges(f)[i]
    PROVE  m \in Reach(Edges(f), Edges(f)[i], blocked \ {m})
<1> DEFINE E == Edges(f)
           N == DOMAIN f
<1>1. E \in [N -> SUBSET N] /\ IsFiniteSet(N) /\ E[i] \in SUBSET N
  BY EdgesType
<1>2. E[i] \ (blocked \ {m}) \subseteq Reach(E, E[i], blocked \ {m})
  <2> HIDE DEF E, N
  <2>1. QED BY <1>1, ReachSound
<1>3. QED BY <1>2

\* The barrier that a gated install reaches with its list intact is fed.
LEMMA FeedsIt ==
    ASSUME NEW f, IsFiniteSet(DOMAIN f), NEW i \in LiveInstalls(f), NEW w \in Barriers(f),
           w \in Reach(Edges(f), Edges(f)[i], Barriers(f) \ {w})
    PROVE  w \in Fed(f)
<1> DEFINE E == Edges(f)
           N == DOMAIN f
           roots == UNION {E[j] : j \in LiveInstalls(f)}
           B == Barriers(f) \ {w}
           X == Reach(E, roots, B)
<1>1. E \in [N -> SUBSET N] /\ IsFiniteSet(N)
  BY EdgesType
<1>2. LiveInstalls(f) \subseteq N
  BY DEF LiveInstalls, Gated, OfType
<1>3. roots \in SUBSET N /\ E[i] \in SUBSET N /\ E[i] \subseteq roots
  BY <1>1, <1>2
<1>4. roots \ B \subseteq X /\ \A y \in X : E[y] \ B \subseteq X
  <2> HIDE DEF E, N, roots, B
  <2>1. QED BY <1>1, <1>3, ReachSound
<1>5. E[i] \ B \subseteq X /\ \A y \in X \cap N : E[y] \ B \subseteq X
  <2> HIDE DEF X, roots, B, E
  <2>1. QED BY <1>3, <1>4
<1>6. Reach(E, E[i], B) \subseteq X
  <2> HIDE DEF E, N, X, B
  <2>1. QED BY <1>1, <1>3, <1>5, ReachLeast
<1>7. QED BY <1>6 DEF Fed

-----------------------------------------------------------------------------
(* What a step of the run keeps *)

\* No flow has more nodes than one advance executes: the gate refuses more than
\* MAX_NODES_PER_FLOW, which is MAX_NODES_PER_ADVANCE unless somebody sets it higher.
Fits == Sizes \subseteq 2..MAX_NODES_PER_ADVANCE

LEMMA SavedFlow ==
    ASSUME ChecksInv, Going
    PROVE  /\ last \in Nat /\ last >= 2 /\ last < Unknown
           /\ DOMAIN flow = 1..last /\ IsFiniteSet(DOMAIN flow)
           /\ Cardinality(DOMAIN flow) = last
           /\ Accepted(flow) /\ run.at \in 1..last /\ NodeDrawn(run.at)
<1>1. DOMAIN flow = 1..last /\ Accepted(flow) /\ run.at \in 1..last /\ last \in Sizes
  BY DEF ChecksInv, Document, Runs, Going
<1>2. last \in 2..Unknown - 1
  BY <1>1, ConstantsAssumption DEF ConstantsAssumption
<1>3. last \in Nat /\ last >= 2 /\ last < Unknown
  BY <1>2 DEF Unknown
<1>4. IsFiniteSet(1..last) /\ Cardinality(1..last) = last
  BY <1>3, FS_Interval
<1>5. QED BY <1>1, <1>3, <1>4 DEF ChecksInv, Document

\* On a flow without errors a handle that has an edge, or must have one, leads on.
LEMMA LeadsOn ==
    ASSUME Fits, ChecksInv, Going, NEW h \in Handles(Node.type),
           Node.edges[h] # None \/ h \in Required(Node.type),
           NEW r \in Runs, r.at = run.at, r.steps <= Cardinality(Behind(flow, run.at))
    PROVE  /\ Node.edges[h] \in Edges(flow)[run.at]
           /\ Onward(r, h) = [r EXCEPT !.at = Node.edges[h], !.steps = @ + 1]
           /\ Onward(r, h) \in Runs
           /\ OnItsWay(Onward(r, h))
<1> DEFINE to == Node.edges[h]
<1>1. /\ last \in Nat /\ last >= 2 /\ last < Unknown
      /\ DOMAIN flow = 1..last /\ IsFiniteSet(DOMAIN flow) /\ Cardinality(DOMAIN flow) = last
      /\ Accepted(flow) /\ run.at \in 1..last /\ NodeDrawn(run.at)
  BY SavedFlow
<1>2. to # Unknown /\ to # None
  BY <1>1 DEF Accepted, BadEdge, Node
<1>3. to \in 1..last
  BY <1>1, <1>2 DEF NodeDrawn, Node
<1>4. to \in Edges(flow)[run.at]
  BY <1>1, <1>3 DEF Edges, Node
<1>5. run.at \in Live(flow) /\ ~Cyclic(flow)
  BY <1>1 DEF ChecksInv, OnItsWay, Accepted
<1> HIDE DEF to
<1>6. /\ to \in Live(flow)
      /\ Cardinality(Behind(flow, run.at)) \in Nat /\ Cardinality(Behind(flow, to)) \in Nat
      /\ Cardinality(Behind(flow, run.at)) < Cardinality(Behind(flow, to))
      /\ Cardinality(Behind(flow, to)) < last
  BY <1>1, <1>4, <1>5, OneMoreBehind
<1>7. last <= MAX_NODES_PER_ADVANCE /\ MAX_NODES_PER_ADVANCE \in Nat
  <2>1. MAX_NODES_PER_ADVANCE \in Nat
    BY ConstantsAssumption DEF ConstantsAssumption
  <2>2. last \in 2..MAX_NODES_PER_ADVANCE
    BY DEF Fits, ChecksInv, Document
  <2>3. QED BY <2>1, <2>2
<1>8. r.steps \in Nat
  BY DEF Runs
<1>9. r.steps + 1 <= Cardinality(Behind(flow, to)) /\ r.steps + 1 < MAX_NODES_PER_ADVANCE
  BY <1>1, <1>6, <1>7, <1>8
<1>10. Onward(r, h) = [r EXCEPT !.at = to, !.steps = @ + 1]
  BY <1>3, <1>9 DEF Onward, to
<1>11. Onward(r, h) \in Runs
  <2> DEFINE steps == r.steps + 1
  <2>1. steps \in Nat
    BY <1>8
  <2> HIDE DEF steps
  <2>2. [r EXCEPT !.at = to, !.steps = steps] \in Runs
    BY <1>3, <2>1, Zenon DEF Runs
  <2>3. QED BY <1>10, <2>2 DEF steps
<1>12. Onward(r, h).at = to /\ Onward(r, h).steps = r.steps + 1
  BY <1>10 DEF Runs
<1>13. OnItsWay(Onward(r, h))
  BY <1>6, <1>9, <1>12 DEF OnItsWay
<1>14. QED BY <1>4, <1>10, <1>11, <1>13 DEF to

\* What the run goes on with is carried to the next node: what it has just asked for, and
\* what it expected if it does not leave a barrier.
LEMMA CarriesOn ==
    ASSUME ChecksInv, Going, NEW to \in Edges(flow)[run.at], NEW q, q.at = to,
           \A i \in q.expected : \/ i = run.at /\ i \in LiveInstalls(flow)
                                 \/ i \in run.expected /\ run.at \notin Barriers(flow)
    PROVE  Carried(q)
<1>1. IsFiniteSet(DOMAIN flow)
  BY SavedFlow
<1>2. LiveInstalls(flow) \subseteq DOMAIN flow
  BY DEF LiveInstalls, Gated, OfType
<1>3. Carried(run)
  BY DEF ChecksInv
<1>4. ASSUME NEW i \in q.expected
      PROVE  /\ i \in LiveInstalls(flow)
             /\ to \in Reach(Edges(flow), Edges(flow)[i], Barriers(flow) \ {to})
  <2>1. CASE i = run.at /\ i \in LiveInstalls(flow)
    <3>1. i \in DOMAIN flow /\ to \in Edges(flow)[i]
      BY <1>2, <2>1
    <3>2. QED BY <1>1, <2>1, <3>1, WalkStarts
  <2>2. CASE i \in run.expected /\ run.at \notin Barriers(flow)
    <3>1. /\ i \in LiveInstalls(flow)
          /\ run.at \in Reach(Edges(flow), Edges(flow)[i], Barriers(flow) \ {run.at})
      BY <1>3, <2>2 DEF Carried
    <3>2. Edges(flow)[i] \in SUBSET DOMAIN flow
      BY <1>2, <3>1, EdgesType
    <3>3. QED BY <1>1, <2>2, <3>1, <3>2, WalksOn
  <2>3. QED BY <1>4, <2>1, <2>2
<1>5. QED BY <1>4 DEF Carried

LEMMA MovesOn ==
    ASSUME Fits, ChecksInv, Going, NEW h \in Handles(Node.type),
           Node.edges[h] # None \/ h \in Required(Node.type),
           NEW r \in Runs, r.at = run.at, r.status = "running",
           r.steps <= Cardinality(Behind(flow, run.at)), r.satisfied \subseteq device,
           \A i \in r.expected : \/ i = run.at /\ i \in LiveInstalls(flow)
                                 \/ i \in run.expected /\ run.at \notin Barriers(flow),
           asked' \subseteq device \cup r.gaps \cup r.expected, blind' = {},
           run' = Onward(r, h), UNCHANGED <<last, flow, saved, device>>
    PROVE  ChecksInv'
<1> DEFINE to == Node.edges[h]
<1>1. /\ to \in Edges(flow)[run.at]
      /\ run' = [r EXCEPT !.at = to, !.steps = @ + 1]
      /\ run' \in Runs /\ OnItsWay(run')
  BY LeadsOn
<1>2. /\ run'.at = to /\ run'.expected = r.expected /\ run'.gaps = r.gaps
      /\ run'.satisfied = r.satisfied /\ run'.status = "running"
  <2> HIDE DEF to
  <2>1. QED BY <1>1 DEF Runs
<1>3. Carried(run')
  <2> HIDE DEF to
  <2>1. QED BY <1>1, <1>2, CarriesOn
<1>4. Document'
  BY DEF ChecksInv, Document, NodeDrawn, Going
<1>5. (run \in Runs)' /\ run'.satisfied \subseteq device'
  BY <1>1, <1>2 DEF Runs
<1>6. OnItsWay(run)' /\ Carried(run)'
  BY <1>1, <1>3 DEF OnItsWay, Carried
<1>7. ParkedFor(run)'
  BY <1>2 DEF ParkedFor
<1>8. InSight(run)'
  BY <1>2 DEF InSight
<1>9. AcceptedRuns' /\ ReleaseAccountedFor'
  BY <1>2 DEF AcceptedRuns, ReleaseAccountedFor
<1>10. QED BY <1>4, <1>5, <1>6, <1>7, <1>8, <1>9 DEF ChecksInv

\* A run that ends keeps what is known of it.
LEMMA Ends ==
    ASSUME ChecksInv, NEW status \in {"completed", "failed"},
           run' = [run EXCEPT !.status = status], saved,
           UNCHANGED <<last, flow, saved, device, asked, blind>>
    PROVE  ChecksInv'
<1>1. run' \in Runs /\ run'.status = status /\ run'.satisfied = run.satisfied
  BY DEF ChecksInv, Runs
<1>2. Document'
  BY DEF ChecksInv, Document, NodeDrawn
<1>3. (run \in Runs)'
  BY <1>1 DEF Runs
<1>4. QED BY <1>1, <1>2, <1>3 DEF ChecksInv, Going, AcceptedRuns, ReleaseAccountedFor

-----------------------------------------------------------------------------
(* The steps *)

LEMMA DrawKeepsChecks == ChecksInv /\ Draw => ChecksInv'
<1> SUFFICES ASSUME ChecksInv, Draw PROVE ChecksInv'
  OBVIOUS
<1>1. PICK k \in 1..last : DOMAIN flow = 1..k
  BY DEF ChecksInv, Document
<1>2. last \in Nat /\ last >= 2 /\ last < Unknown /\ last \in Sizes
  <2>1. last \in Sizes
    BY DEF ChecksInv, Document
  <2>2. last \in 2..Unknown - 1
    BY <2>1, ConstantsAssumption DEF ConstantsAssumption
  <2>3. QED BY <2>1, <2>2 DEF Unknown
<1>3. k \in Nat /\ k >= 1 /\ k < last /\ Cardinality(DOMAIN flow) = k
  <2>1. k \in Nat /\ k >= 1 /\ Cardinality(1..k) = k
    BY <1>2, FS_Interval
  <2>2. k # last
    BY <1>1 DEF Draw
  <2>3. QED BY <1>1, <1>2, <2>1, <2>2
<1> DEFINE n == Cardinality(DOMAIN flow) + 1
<1>4. n = k + 1 /\ n \in 1..last /\ n # 1 /\ n \in Nat
  BY <1>2, <1>3
<1>5. PICK type \in (IF n = last THEN {"end"} ELSE Palette), gate \in BOOLEAN,
           signal \in Signals, wrong \in SUBSET {"next", "on_false"} :
          \E node \in Drawn(n, type, gate, signal, wrong) :
             flow' = [m \in 1..n |-> IF m = n THEN node ELSE flow[m]]
  BY SMTT(30) DEF Draw
<1> HIDE DEF n
<1>6. PICK node \in Drawn(n, type, gate, signal, wrong) :
          flow' = [m \in 1..n |-> IF m = n THEN node ELSE flow[m]]
  BY <1>5
<1>7. type \in Steps \cup {"end"} /\ type # "start"
  BY ConstantsAssumption DEF ConstantsAssumption, Steps
<1>8. node.type = type /\ node.edges \in [Handles(type) -> {None, Unknown} \cup 1..last]
  BY DEF Drawn
<1>9. UNCHANGED <<last, saved, run, device, asked, blind>> /\ ~saved
  <2>1. last' = last /\ saved' = saved /\ run' = run /\ device' = device
        /\ asked' = asked /\ blind' = blind
    BY DEF Draw
  <2>2. ~saved
    BY DEF Draw, ChecksInv, Document
  <2>3. QED BY <2>1, <2>2
<1>10. DOMAIN flow' = 1..n
  BY <1>6
<1>11. \A m \in DOMAIN flow' : NodeDrawn(m)'
  <2> SUFFICES ASSUME NEW m \in 1..n PROVE NodeDrawn(m)'
    BY <1>10
  <2>1. CASE m = n
    <3>1. flow'[m] = node
      BY <1>6, <2>1
    <3>2. QED BY <1>4, <1>7, <1>8, <1>9, <2>1, <3>1 DEF NodeDrawn
  <2>2. CASE m # n
    <3>1. m \in 1..k
      BY <1>3, <1>4, <2>2
    <3>2. flow'[m] = flow[m]
      BY <1>6, <2>2
    <3>3. NodeDrawn(m)
      BY <1>1, <3>1 DEF ChecksInv, Document
    <3>4. QED BY <1>9, <3>2, <3>3 DEF NodeDrawn
  <2>3. QED BY <2>1, <2>2
<1>12. Document'
  <2>1. \E j \in 1..last : DOMAIN flow' = 1..j
    BY <1>4, <1>10
  <2>2. NewRun' = NewRun
    BY DEF NewRun
  <2>3. run = NewRun /\ device = {} /\ asked = {}
    BY <1>9 DEF ChecksInv, Document
  <2>4. QED BY <1>2, <1>9, <1>11, <2>1, <2>2, <2>3 DEF Document
<1>13. (run \in Runs)' /\ run'.satisfied \subseteq device'
  BY <1>9 DEF ChecksInv, Runs
<1>14. QED
  BY <1>9, <1>12, <1>13 DEF ChecksInv, Going, AcceptedRuns, ReleaseAccountedFor

\* A run begins at the start, which is live, with nothing behind it to answer for.
LEMMA Begins ==
    ASSUME Document, DOMAIN flow = 1..last, NEW r, r = NewRun
    PROVE  /\ OnItsWay(r) /\ r \in Runs
           /\ r.expected = {} /\ r.satisfied = {} /\ r.status = "running"
<1>1. last \in Sizes /\ \A n \in DOMAIN flow : NodeDrawn(n)
  BY DEF Document
<1>2. last \in Nat /\ last >= 2
  <2>1. last \in 2..Unknown - 1
    BY <1>1, ConstantsAssumption DEF ConstantsAssumption
  <2>2. QED BY <2>1 DEF Unknown
<1>3. IsFiniteSet(DOMAIN flow) /\ 1 \in DOMAIN flow
  BY <1>2, FS_Interval
<1>4. 1 \in Live(flow)
  <2>1. 1 \in OfType(flow, "start")
    BY <1>1, <1>3 DEF OfType, NodeDrawn
  <2>2. QED BY <1>3, <2>1, LiveNodes
<1>5. Cardinality(Behind(flow, 1)) \in Nat
  <2>1. Behind(flow, 1) \in SUBSET DOMAIN flow
    BY <1>3, LiveNodes DEF Behind
  <2>2. QED BY <1>3, <2>1, FS_Subset, FS_CardinalityType
<1>6. r.at = 1 /\ r.steps = 0
  BY DEF NewRun
<1>7. OnItsWay(r)
  BY <1>4, <1>5, <1>6 DEF OnItsWay
<1>8. QED BY <1>3, <1>7 DEF NewRun, Runs

LEMMA SaveKeepsChecks == ChecksInv /\ Save => ChecksInv'
<1> SUFFICES ASSUME ChecksInv, Save PROVE ChecksInv'
  OBVIOUS
<1>1. run = NewRun /\ asked = {} /\ DOMAIN flow = 1..last /\ Accepted(flow) /\ Document
  BY DEF ChecksInv, Document, Save
<1>2. UNCHANGED <<last, flow, run, device, asked, blind>> /\ saved'
  BY DEF Save
<1>3. OnItsWay(run) /\ run.expected = {} /\ run.status = "running"
  BY <1>1, Begins
<1>4. OnItsWay(run)' /\ Carried(run)' /\ ParkedFor(run)' /\ InSight(run)'
  BY <1>1, <1>2, <1>3 DEF OnItsWay, Carried, ParkedFor, InSight
<1>5. Document'
  BY <1>1, <1>2 DEF Document, NodeDrawn
<1>6. (run \in Runs)' /\ run'.satisfied \subseteq device'
  BY <1>2 DEF ChecksInv, Runs
<1>7. QED BY <1>2, <1>4, <1>5, <1>6 DEF ChecksInv, AcceptedRuns, ReleaseAccountedFor

\* What an executing step knows of the run it is about.
LEMMA AtNode ==
    ASSUME ChecksInv, NEW type, AtA(type)
    PROVE  /\ Going /\ run \in Runs /\ run.status = "running" /\ Node.type = type
           /\ run.at \in Live(flow) /\ run.steps <= Cardinality(Behind(flow, run.at))
           /\ run.satisfied \subseteq device /\ blind = {}
           /\ asked \subseteq device \cup run.gaps \cup run.expected
           /\ run.at \in DOMAIN flow /\ run.at \in 1..last
           /\ run.at \in Barriers(flow) =>
                 type = "wait_for" /\ Node.signal = "profile_installed"
<1>1. Going /\ Node.type = type /\ run.status = "running"
  BY DEF AtA, Going
<1>2. run.at \in 1..last /\ DOMAIN flow = 1..last
  BY <1>1, SavedFlow
<1>3. QED
  BY <1>1, <1>2 DEF ChecksInv, OnItsWay, InSight, ReleaseAccountedFor, Barriers, OfType, Node

LEMMA StartKeepsChecks == Fits /\ ChecksInv /\ AtStart => ChecksInv'
<1> SUFFICES ASSUME Fits, ChecksInv, AtStart PROVE ChecksInv'
  OBVIOUS
<1>1. AtA("start") /\ run' = Onward(run, "next")
      /\ UNCHANGED <<last, flow, saved, device, asked, blind>>
  BY DEF AtStart
<1>2. "next" \in Handles(Node.type) /\ "next" \in Required(Node.type)
  BY <1>1 DEF AtA, Handles, Required
<1>3. QED BY <1>1, <1>2, AtNode, MovesOn

LEMMA BranchKeepsChecks == Fits /\ ChecksInv /\ AtBranch => ChecksInv'
<1> SUFFICES ASSUME Fits, ChecksInv, AtBranch PROVE ChecksInv'
  OBVIOUS
<1>1. AtA("branch") /\ UNCHANGED <<last, flow, saved, device, asked, blind>>
  BY DEF AtBranch
<1>2. PICK handle \in {"on_true", "on_false"} : run' = Onward(run, handle)
  BY DEF AtBranch
<1>3. handle \in Handles(Node.type) /\ handle \in Required(Node.type)
  BY <1>1 DEF AtA, Handles, Required
<1>4. QED BY <1>1, <1>2, <1>3, AtNode, MovesOn

LEMMA InstallKeepsChecks == Fits /\ ChecksInv /\ AtInstall => ChecksInv'
<1> SUFFICES ASSUME Fits, ChecksInv, AtInstall PROVE ChecksInv'
  OBVIOUS
<1>1. AtA("install_profiles") /\ UNCHANGED <<last, flow, saved, device, blind>>
  BY DEF AtInstall
<1>2. "next" \in Handles(Node.type) /\ "next" \in Required(Node.type)
  BY <1>1 DEF AtA, Handles, Required
<1>3. /\ Going /\ run \in Runs /\ run.status = "running" /\ Node.type = "install_profiles"
      /\ run.at \in Live(flow) /\ run.steps <= Cardinality(Behind(flow, run.at))
      /\ run.satisfied \subseteq device /\ blind = {}
      /\ asked \subseteq device \cup run.gaps \cup run.expected
      /\ run.at \in DOMAIN flow /\ run.at \in 1..last /\ run.at \notin Barriers(flow)
  BY <1>1, AtNode
<1>4. CASE Node.gate
  <2>1. asked' = asked \cup {run.at}
    BY <1>4 DEF AtInstall
  <2>2. run.at \in LiveInstalls(flow)
    BY <1>3, <1>4 DEF LiveInstalls, Gated, OfType, Node
  <2>3. CASE run' = Onward(Queued(run), "next")
    <3> DEFINE r == Queued(run)
    <3>1. /\ r \in Runs /\ r.at = run.at /\ r.status = "running" /\ r.steps = run.steps
          /\ r.satisfied = run.satisfied /\ r.gaps = run.gaps
          /\ r.expected = run.expected \cup {run.at}
      BY <1>3 DEF Queued, Runs
    <3> HIDE DEF r
    <3>2. asked' \subseteq device \cup r.gaps \cup r.expected
      BY <1>3, <2>1, <3>1
    <3>3. run' = Onward(r, "next")
      BY <2>3 DEF r
    <3>4. QED BY <1>1, <1>2, <1>3, <2>2, <3>1, <3>2, <3>3, MovesOn
  <2>4. CASE run' = Onward(NotQueued(run), "next")
    <3> DEFINE r == NotQueued(run)
    <3>1. /\ r \in Runs /\ r.at = run.at /\ r.status = "running" /\ r.steps = run.steps
          /\ r.satisfied = run.satisfied /\ r.gaps = run.gaps \cup {run.at}
          /\ r.expected = run.expected
      BY <1>3 DEF NotQueued, WithGap, Runs
    <3> HIDE DEF r
    <3>2. asked' \subseteq device \cup r.gaps \cup r.expected
      BY <1>3, <2>1, <3>1
    <3>3. run' = Onward(r, "next")
      BY <2>4 DEF r
    <3>4. QED BY <1>1, <1>2, <1>3, <3>1, <3>2, <3>3, MovesOn
  <2>5. QED BY <1>4, <2>3, <2>4 DEF AtInstall
<1>5. CASE ~Node.gate
  <2> DEFINE r == [run EXCEPT !.ungated = TRUE]
  <2>1. /\ r \in Runs /\ r.at = run.at /\ r.status = "running" /\ r.steps = run.steps
        /\ r.satisfied = run.satisfied /\ r.gaps = run.gaps /\ r.expected = run.expected
    BY <1>3 DEF Runs
  <2>2. run' = Onward(r, "next") /\ asked' = asked
    BY <1>5 DEF AtInstall
  <2> HIDE DEF r
  <2>3. asked' \subseteq device \cup r.gaps \cup r.expected
    BY <1>3, <2>1, <2>2
  <2>4. QED BY <1>1, <1>2, <1>3, <2>1, <2>2, <2>3, MovesOn
<1>6. QED BY <1>4, <1>5

\* Leaving a wait: with nothing expected any more if it is a barrier, as before if not.
LEMMA ConsumedRun ==
    ASSUME NEW r \in Runs
    PROVE  /\ Consumed(r) \in Runs /\ Consumed(r).at = r.at /\ Consumed(r).status = r.status
           /\ Consumed(r).steps = r.steps /\ Consumed(r).gaps = r.gaps
           /\ Node.signal = "profile_installed" =>
                 Consumed(r).expected = {} /\ Consumed(r).satisfied = {}
           /\ Node.signal # "profile_installed" => Consumed(r) = r
<1>1. CASE Node.signal = "profile_installed"
  BY <1>1 DEF Consumed, Runs
<1>2. CASE Node.signal # "profile_installed"
  BY <1>2 DEF Consumed
<1>3. QED BY <1>1, <1>2

LEMMA LeavesWait ==
    ASSUME Fits, ChecksInv, Going, Node.type = "wait_for", NEW h \in Handles(Node.type),
           Node.edges[h] # None \/ h \in Required(Node.type),
           NEW r \in Runs, r.at = run.at, r.status = "running",
           r.steps <= Cardinality(Behind(flow, run.at)),
           r.satisfied = run.satisfied, r.expected = run.expected,
           asked \subseteq device \cup r.gaps \cup r.expected,
           Node.signal = "profile_installed" => asked \subseteq device \cup r.gaps,
           run' = Onward(Consumed(r), h), UNCHANGED <<last, flow, saved, device, asked, blind>>
    PROVE  ChecksInv'
<1> DEFINE q == Consumed(r)
<1>1. /\ q \in Runs /\ q.at = run.at /\ q.status = "running"
      /\ q.steps <= Cardinality(Behind(flow, run.at)) /\ q.gaps = r.gaps
      /\ Node.signal = "profile_installed" => q.expected = {} /\ q.satisfied = {}
      /\ Node.signal # "profile_installed" => q = r
  BY ConsumedRun
<1>2. run' = Onward(q, h)
  OBVIOUS
<1> HIDE DEF q
<1>3. blind' = {} /\ run.satisfied \subseteq device
  BY DEF ChecksInv, ReleaseAccountedFor
<1>4. CASE Node.signal = "profile_installed"
  <2>1. q.expected = {} /\ q.satisfied \subseteq device
        /\ asked' \subseteq device \cup q.gaps \cup q.expected
    BY <1>1, <1>4
  <2>2. QED BY <1>1, <1>2, <1>3, <2>1, MovesOn
<1>5. CASE Node.signal # "profile_installed"
  <2>1. q.expected = run.expected /\ q.satisfied \subseteq device
        /\ asked' \subseteq device \cup q.gaps \cup q.expected
    BY <1>1, <1>3, <1>5
  <2>2. run.at \notin Barriers(flow)
    BY <1>5 DEF Barriers, Node
  <2>3. QED BY <1>1, <1>2, <1>3, <2>1, <2>2, MovesOn
<1>6. QED BY <1>4, <1>5

LEMMA PassWaitKeepsChecks == Fits /\ ChecksInv /\ PassWait => ChecksInv'
<1> SUFFICES ASSUME Fits, ChecksInv, PassWait PROVE ChecksInv'
  OBVIOUS
<1> DEFINE r == IF Excused THEN run ELSE WithGap(run, {run.at})
<1>1. /\ AtA("wait_for") /\ Wanted \subseteq device /\ run' = Onward(Consumed(r), "next")
      /\ UNCHANGED <<last, flow, saved, device, asked, blind>>
  BY DEF PassWait
<1>2. /\ Going /\ run \in Runs /\ run.status = "running" /\ Node.type = "wait_for"
      /\ run.steps <= Cardinality(Behind(flow, run.at))
      /\ asked \subseteq device \cup run.gaps \cup run.expected /\ run.at \in 1..last
  BY <1>1, AtNode
<1>3. "next" \in Handles(Node.type) /\ "next" \in Required(Node.type)
  BY <1>2 DEF Handles, Required
<1>4. /\ r \in Runs /\ r.at = run.at /\ r.status = "running" /\ r.steps = run.steps
      /\ r.satisfied = run.satisfied /\ r.expected = run.expected
      /\ run.gaps \subseteq r.gaps
  <2>1. CASE Excused
    BY <1>2, <2>1
  <2>2. CASE ~Excused
    BY <1>2, <2>2 DEF WithGap, Runs
  <2>3. QED BY <2>1, <2>2
<1> HIDE DEF r
<1>5. Node.signal = "profile_installed" => asked \subseteq device \cup r.gaps
  BY <1>1, <1>2, <1>4 DEF Wanted
<1>6. asked \subseteq device \cup r.gaps \cup r.expected
  BY <1>2, <1>4
<1>7. QED BY <1>1, <1>2, <1>3, <1>4, <1>5, <1>6, LeavesWait

LEMMA ParkKeepsChecks == ChecksInv /\ Park => ChecksInv'
<1> SUFFICES ASSUME ChecksInv, Park PROVE ChecksInv'
  OBVIOUS
<1>1. /\ AtA("wait_for") /\ ~(Wanted \subseteq device)
      /\ run' = [run EXCEPT !.status = "waiting"]
      /\ UNCHANGED <<last, flow, saved, device, asked, blind>>
  BY DEF Park
<1>2. /\ Going /\ run \in Runs /\ Node.type = "wait_for"
  BY <1>1, AtNode
<1>3. Node.signal = "profile_installed" /\ run.expected # {}
  BY <1>1 DEF Wanted
<1>4. /\ run' \in Runs /\ run'.at = run.at /\ run'.status = "waiting" /\ run'.steps = run.steps
      /\ run'.satisfied = run.satisfied /\ run'.expected = run.expected /\ run'.gaps = run.gaps
  BY <1>1, <1>2 DEF Runs
<1>5. Document'
  BY <1>1, <1>2 DEF ChecksInv, Document, NodeDrawn, Going
<1>6. (run \in Runs)' /\ run'.satisfied \subseteq device'
  BY <1>1, <1>4 DEF ChecksInv, Runs
<1>7. OnItsWay(run)' /\ Carried(run)' /\ InSight(run)'
  BY <1>1, <1>2, <1>4 DEF ChecksInv, OnItsWay, Carried, InSight
<1>8. ParkedFor(run)'
  BY <1>1, <1>2, <1>3, <1>4 DEF ParkedFor, Node
<1>9. QED
  BY <1>1, <1>4, <1>5, <1>6, <1>7, <1>8 DEF ChecksInv, AcceptedRuns, ReleaseAccountedFor

LEMMA InstallReportKeepsChecks == ChecksInv /\ DeviceInstalls => ChecksInv'
<1> SUFFICES ASSUME ChecksInv, DeviceInstalls PROVE ChecksInv'
  OBVIOUS
<1>1. saved /\ UNCHANGED <<last, flow, saved, asked, blind>>
  BY DEF DeviceInstalls
<1>2. PICK i \in run.expected \ device :
          /\ device' = device \cup {i}
          /\ run' = IF run.status = "waiting" THEN [run EXCEPT !.satisfied = @ \cup {i}] ELSE run
  BY DEF DeviceInstalls
<1>3. run \in Runs /\ run.satisfied \subseteq device /\ Going
  BY <1>1 DEF ChecksInv, DeviceInstalls, Going
<1>4. i \in 1..last
  BY <1>2, <1>3 DEF Runs
<1>5. /\ run' \in Runs /\ run'.at = run.at /\ run'.status = run.status /\ run'.steps = run.steps
      /\ run'.expected = run.expected /\ run'.gaps = run.gaps
      /\ run'.satisfied \subseteq device'
  <2>1. CASE run.status = "waiting"
    <3> DEFINE more == run.satisfied \cup {i}
    <3>1. more \in SUBSET (1..last) /\ more \subseteq device'
      BY <1>2, <1>3, <1>4 DEF Runs
    <3>2. run' = [run EXCEPT !.satisfied = more]
      BY <1>2, <2>1
    <3> HIDE DEF more
    <3>3. QED BY <1>3, <3>1, <3>2 DEF Runs
  <2>2. CASE run.status # "waiting"
    BY <1>2, <1>3, <2>2
  <2>3. QED BY <2>1, <2>2
<1>6. Document'
  BY <1>1 DEF ChecksInv, Document, NodeDrawn
<1>7. (run \in Runs)'
  BY <1>1, <1>5 DEF Runs
<1>8. OnItsWay(run)' /\ Carried(run)' /\ ParkedFor(run)'
  BY <1>1, <1>3, <1>5 DEF ChecksInv, OnItsWay, Carried, ParkedFor
<1>9. InSight(run)'
  BY <1>1, <1>2, <1>3, <1>5 DEF ChecksInv, InSight
<1>10. QED
  BY <1>1, <1>5, <1>6, <1>7, <1>8, <1>9 DEF ChecksInv, AcceptedRuns, ReleaseAccountedFor

\* What a parked run is.
LEMMA AtBarrier ==
    ASSUME ChecksInv, run.status = "waiting"
    PROVE  /\ Going /\ run \in Runs /\ Node.type = "wait_for"
           /\ Node.signal = "profile_installed" /\ Wanted = run.expected /\ run.expected # {}
           /\ run.satisfied \subseteq device
           /\ asked \subseteq device \cup run.gaps \cup run.expected
           /\ Cardinality(Behind(flow, run.at)) \in Nat
<1>1. Going
  BY DEF ChecksInv, Document, NewRun, Going
<1>2. /\ run \in Runs /\ Node.type = "wait_for" /\ Node.signal = "profile_installed"
      /\ run.satisfied \subseteq device /\ run.expected # {}
      /\ asked \subseteq device \cup run.gaps \cup run.expected
  BY <1>1 DEF ChecksInv, ParkedFor, InSight, Node
<1>3. IsFiniteSet(DOMAIN flow)
  BY <1>1, SavedFlow
<1>4. Behind(flow, run.at) \in SUBSET DOMAIN flow
  BY <1>3, LiveNodes DEF Behind
<1>5. Cardinality(Behind(flow, run.at)) \in Nat
  BY <1>3, <1>4, FS_Subset, FS_CardinalityType
<1>6. QED BY <1>1, <1>2, <1>5 DEF Wanted

LEMMA ResumeKeepsChecks == Fits /\ ChecksInv /\ Resume => ChecksInv'
<1> SUFFICES ASSUME Fits, ChecksInv, Resume PROVE ChecksInv'
  OBVIOUS
<1> DEFINE r == [run EXCEPT !.status = "running", !.steps = 0]
<1>1. /\ run.status = "waiting" /\ Wanted \subseteq run.satisfied
      /\ run' = Onward(Consumed(r), "next")
      /\ UNCHANGED <<last, flow, saved, device, asked, blind>>
  BY DEF Resume
<1>2. /\ Going /\ run \in Runs /\ Node.type = "wait_for" /\ Wanted = run.expected
      /\ run.satisfied \subseteq device
      /\ asked \subseteq device \cup run.gaps \cup run.expected
      /\ Cardinality(Behind(flow, run.at)) \in Nat
  BY <1>1, AtBarrier
<1>3. "next" \in Handles(Node.type) /\ "next" \in Required(Node.type)
  BY <1>2 DEF Handles, Required
<1>4. /\ r \in Runs /\ r.at = run.at /\ r.status = "running" /\ r.steps = 0
      /\ r.satisfied = run.satisfied /\ r.expected = run.expected /\ r.gaps = run.gaps
  BY <1>2 DEF Runs
<1> HIDE DEF r
<1>5. r.steps <= Cardinality(Behind(flow, run.at))
  BY <1>2, <1>4
<1>6. asked \subseteq device \cup r.gaps
  BY <1>1, <1>2, <1>4
<1>7. QED BY <1>1, <1>2, <1>3, <1>4, <1>5, <1>6, LeavesWait

LEMMA TimeOutKeepsChecks == Fits /\ ChecksInv /\ TimeOut => ChecksInv'
<1> SUFFICES ASSUME Fits, ChecksInv, TimeOut PROVE ChecksInv'
  OBVIOUS
<1>1. run.status = "waiting" /\ UNCHANGED <<last, flow, saved, device, asked, blind>>
  BY DEF TimeOut
<1>2. /\ Going /\ run \in Runs /\ Node.type = "wait_for"
      /\ Node.signal = "profile_installed" /\ Wanted = run.expected
      /\ run.satisfied \subseteq device
      /\ asked \subseteq device \cup run.gaps \cup run.expected
      /\ Cardinality(Behind(flow, run.at)) \in Nat
  BY <1>1, AtBarrier
<1>3. CASE Node.edges["on_timeout"] = None
  <2>1. run' = [run EXCEPT !.status = "failed"]
    BY <1>3 DEF TimeOut
  <2>2. QED BY <1>1, <1>2, <2>1, Ends DEF Going
<1>4. CASE Node.edges["on_timeout"] # None
  <2> DEFINE unmet == WithGap(run, Wanted \ run.satisfied)
             r == [unmet EXCEPT !.status = "running", !.steps = 0]
  <2>1. run' = Onward(Consumed(r), "on_timeout")
    BY <1>4 DEF TimeOut
  <2>2. unmet \in Runs /\ unmet = [run EXCEPT !.gaps = @ \cup (run.expected \ run.satisfied)]
    BY <1>2 DEF WithGap, Runs
  <2>3. /\ r \in Runs /\ r.at = run.at /\ r.status = "running" /\ r.steps = 0
        /\ r.satisfied = run.satisfied /\ r.expected = run.expected
        /\ r.gaps = run.gaps \cup (run.expected \ run.satisfied)
    <3> HIDE DEF unmet
    <3>1. /\ unmet.at = run.at /\ unmet.satisfied = run.satisfied
          /\ unmet.expected = run.expected
          /\ unmet.gaps = run.gaps \cup (run.expected \ run.satisfied)
      BY <1>2, <2>2 DEF Runs
    <3>2. QED BY <2>2, <3>1 DEF Runs
  <2> HIDE DEF r
  <2>4. "on_timeout" \in Handles(Node.type)
    BY <1>2 DEF Handles
  <2>5. r.steps <= Cardinality(Behind(flow, run.at))
    BY <1>2, <2>3
  <2>6. asked \subseteq device \cup r.gaps /\ asked \subseteq device \cup r.gaps \cup r.expected
    BY <1>2, <2>3
  <2>7. QED BY <1>1, <1>2, <1>4, <2>1, <2>3, <2>4, <2>5, <2>6, LeavesWait
<1>5. QED BY <1>3, <1>4

\* A release without the warning finds nothing expected: what is expected was asked for by
\* a live install that no barrier parts from it.
LEMMA ReleaseKeepsChecks == Fits /\ ChecksInv /\ AtRelease => ChecksInv'
<1> SUFFICES ASSUME Fits, ChecksInv, AtRelease PROVE ChecksInv'
  OBVIOUS
<1> DEFINE r == [run EXCEPT !.unverified = @ \/ run.gaps # {}]
<1>1. /\ AtA("release_device") /\ run' = Onward(r, "next")
      /\ UNCHANGED <<last, flow, saved, device, asked>>
  BY DEF AtRelease
<1>2. /\ Going /\ run \in Runs /\ run.status = "running" /\ Node.type = "release_device"
      /\ run.steps <= Cardinality(Behind(flow, run.at))
      /\ run.satisfied \subseteq device /\ blind = {}
      /\ asked \subseteq device \cup run.gaps \cup run.expected
      /\ run.at \in DOMAIN flow /\ run.at \notin Barriers(flow)
  BY <1>1, AtNode
<1>3. "next" \in Handles(Node.type) /\ "next" \in Required(Node.type)
  BY <1>2 DEF Handles, Required
<1>4. /\ r \in Runs /\ r.at = run.at /\ r.status = "running" /\ r.steps = run.steps
      /\ r.satisfied = run.satisfied /\ r.expected = run.expected /\ r.gaps = run.gaps
  BY <1>2 DEF Runs
<1>5. blind' = {}
  <2>1. CASE run.at \in ReleaseOrdering(flow)
    BY <1>2, <2>1 DEF AtRelease
  <2>2. CASE run.at \notin ReleaseOrdering(flow)
    <3>1. run.at \in OfType(flow, "release_device")
      BY <1>2 DEF OfType, Node
    <3>2. Barriers(flow) \ {run.at} = Barriers(flow)
      BY <1>2
    <3>3. run.expected = {}
      <4>1. SUFFICES ASSUME NEW i \in run.expected PROVE FALSE
        OBVIOUS
      <4>2. /\ i \in LiveInstalls(flow)
            /\ run.at \in Reach(Edges(flow), Edges(flow)[i], Barriers(flow))
        BY <1>2, <3>2 DEF ChecksInv, Carried
      <4>3. QED BY <2>2, <3>1, <4>2 DEF ReleaseOrdering
    <3>4. blind' = blind \cup (asked \ (device \cup run.gaps))
      BY <2>2 DEF AtRelease
    <3>5. QED BY <1>2, <3>3, <3>4
  <2>3. QED BY <2>1, <2>2
<1> HIDE DEF r
<1>6. asked' \subseteq device \cup r.gaps \cup r.expected
  BY <1>1, <1>2, <1>4
<1>7. QED BY <1>1, <1>2, <1>3, <1>4, <1>5, <1>6, MovesOn

LEMMA EndKeepsChecks == ChecksInv /\ AtEnd => ChecksInv'
<1> SUFFICES ASSUME ChecksInv, AtEnd PROVE ChecksInv'
  OBVIOUS
<1>1. PICK status \in {"completed", "failed"} : run' = [run EXCEPT !.status = status]
  BY DEF AtEnd
<1>2. saved /\ UNCHANGED <<last, flow, saved, device, asked, blind>>
  BY DEF AtEnd, AtA
<1>3. QED BY <1>1, <1>2, Ends

LEMMA ChecksInit == Init => ChecksInv
<1> SUFFICES ASSUME Init PROVE ChecksInv
  OBVIOUS
<1>1. /\ last \in Sizes /\ ~saved /\ run = NewRun /\ device = {} /\ asked = {} /\ blind = {}
      /\ flow = [n \in {1} |-> [type |-> "start", gate |-> TRUE, signal |-> "profile_installed",
                                edges |-> [h \in {"next"} |-> 2]]]
  BY DEF Init
<1>2. last \in Nat /\ last >= 2
  <2>1. last \in 2..Unknown - 1
    BY <1>1, ConstantsAssumption DEF ConstantsAssumption
  <2>2. QED BY <2>1 DEF Unknown
<1>3. DOMAIN flow = 1..1 /\ 1 \in 1..last
  BY <1>1, <1>2
<1>4. \A n \in DOMAIN flow : NodeDrawn(n)
  <2>1. flow[1].type = "start" /\ flow[1].edges = [h \in {"next"} |-> 2] /\ DOMAIN flow = {1}
    BY <1>1
  <2>2. Handles("start") = {"next"}
    BY DEF Handles
  <2>3. [h \in {"next"} |-> 2] \in [{"next"} -> {None, Unknown} \cup 1..last]
    BY <1>2
  <2>4. QED BY <2>1, <2>2, <2>3 DEF NodeDrawn
<1>5. Document
  BY <1>1, <1>3, <1>4 DEF Document
<1>6. run \in Runs
  BY <1>1, <1>3 DEF NewRun, Runs
<1>7. QED
  BY <1>1, <1>5, <1>6 DEF ChecksInv, Going, NewRun, AcceptedRuns, ReleaseAccountedFor

LEMMA ChecksStep == Fits /\ ChecksInv /\ [Next]_vars => ChecksInv'
<1> SUFFICES ASSUME Fits, ChecksInv, [Next]_vars PROVE ChecksInv'
  OBVIOUS
<1>1. CASE Draw
  BY <1>1, DrawKeepsChecks
<1>2. CASE Save
  BY <1>2, SaveKeepsChecks
<1>3. CASE AtStart
  BY <1>3, StartKeepsChecks
<1>4. CASE AtInstall
  BY <1>4, InstallKeepsChecks
<1>5. CASE AtBranch
  BY <1>5, BranchKeepsChecks
<1>6. CASE PassWait
  BY <1>6, PassWaitKeepsChecks
<1>7. CASE Park
  BY <1>7, ParkKeepsChecks
<1>8. CASE AtRelease
  BY <1>8, ReleaseKeepsChecks
<1>9. CASE AtEnd
  BY <1>9, EndKeepsChecks
<1>10. CASE DeviceInstalls
  BY <1>10, InstallReportKeepsChecks
<1>11. CASE Resume
  BY <1>11, ResumeKeepsChecks
<1>12. CASE TimeOut
  BY <1>12, TimeOutKeepsChecks
<1>13. CASE UNCHANGED vars
  <2>1. UNCHANGED <<last, flow, saved, run, device, asked, blind>>
    BY <1>13 DEF vars
  <2>2. Document' /\ (run \in Runs)'
    BY <2>1 DEF ChecksInv, Document, NodeDrawn, NewRun, Runs
  <2>3. Going' => (OnItsWay(run) /\ Carried(run) /\ ParkedFor(run) /\ InSight(run))'
    BY <2>1 DEF ChecksInv, Going, OnItsWay, Carried, ParkedFor, InSight
  <2>4. QED BY <2>1, <2>2, <2>3 DEF ChecksInv, AcceptedRuns, ReleaseAccountedFor
<1>14. QED
  BY <1>1, <1>2, <1>3, <1>4, <1>5, <1>6, <1>7, <1>8, <1>9, <1>10, <1>11, <1>12, <1>13
     DEF Next, Execute

-----------------------------------------------------------------------------
(* The verdicts *)

\* What happens beside the flow: a run that nobody carries on fails, one the Mac's next
\* enrollment supersedes begins again, and a release by hand leaves the run alone.
LEMMA OrphanKeepsChecks == ChecksInv /\ FailOrphan => ChecksInv'
<1> SUFFICES ASSUME ChecksInv, FailOrphan PROVE ChecksInv'
  OBVIOUS
<1>1. /\ run' = [run EXCEPT !.status = "failed", !.unverified = FALSE] /\ saved
      /\ UNCHANGED <<last, flow, saved, device, asked, blind>>
  BY DEF FailOrphan
<1>2. run' \in Runs /\ run'.status = "failed" /\ run'.satisfied = run.satisfied
  BY <1>1 DEF ChecksInv, Runs
<1>3. Document'
  BY <1>1 DEF ChecksInv, Document, NodeDrawn
<1>4. (run \in Runs)'
  BY <1>1, <1>2 DEF Runs
<1>5. QED BY <1>1, <1>2, <1>3, <1>4 DEF ChecksInv, Going, AcceptedRuns, ReleaseAccountedFor

LEMMA EnrollKeepsChecks == ChecksInv /\ EnrollAgain => ChecksInv'
<1> SUFFICES ASSUME ChecksInv, EnrollAgain PROVE ChecksInv'
  OBVIOUS
<1>1. /\ saved /\ run' = NewRun /\ device' = {} /\ asked' = {}
      /\ UNCHANGED <<last, flow, saved, blind>>
  BY DEF EnrollAgain
<1>2. Document /\ DOMAIN flow = 1..last
  BY <1>1 DEF ChecksInv, Document
<1>3. /\ OnItsWay(run') /\ run' \in Runs
      /\ run'.expected = {} /\ run'.satisfied = {} /\ run'.status = "running"
  BY <1>1, <1>2, Begins
<1>4. OnItsWay(run)' /\ Carried(run)' /\ ParkedFor(run)' /\ InSight(run)'
  BY <1>1, <1>3 DEF OnItsWay, Carried, ParkedFor, InSight
<1>5. Document'
  BY <1>1, <1>2 DEF Document, NodeDrawn
<1>6. (run \in Runs)'
  BY <1>1, <1>3 DEF Runs
<1>7. QED BY <1>1, <1>3, <1>4, <1>5, <1>6 DEF ChecksInv, AcceptedRuns, ReleaseAccountedFor

LEMMA BoardStep == Fits /\ ChecksInv /\ [BoardNext]_<<vars, boardVars>> => ChecksInv'
<1> SUFFICES ASSUME Fits, ChecksInv, [BoardNext]_<<vars, boardVars>> PROVE ChecksInv'
  OBVIOUS
<1>1. CASE [Next]_vars
  BY <1>1, ChecksStep
<1>2. CASE FailOrphan
  BY <1>2, OrphanKeepsChecks
<1>3. CASE EnrollAgain
  BY <1>3, EnrollKeepsChecks
<1>4. CASE ReleaseByHand
  <2>1. UNCHANGED vars
    BY <1>4 DEF ReleaseByHand, vars
  <2>2. QED BY <2>1, ChecksStep
<1>5. ASSUME ~FailOrphan, ~EnrollAgain, ~ReleaseByHand PROVE [Next]_vars
  BY <1>5 DEF BoardNext, Unseen, ParkOnBoard, ReleaseOnBoard, EndOnBoard, TimeOutOnBoard,
              Next, Execute
<1>6. QED BY <1>1, <1>2, <1>3, <1>4, <1>5

LEMMA ChecksHold == ASSUME Fits PROVE (Spec \/ BoardSpec) => []ChecksInv
<1>1. Init => ChecksInv
  BY ChecksInit
<1>2. BoardInit => Init
  BY DEF BoardInit
<1>3. ChecksInv /\ [Next]_vars => ChecksInv'
  BY ChecksStep
<1>4. ChecksInv /\ [BoardNext]_<<vars, boardVars>> => ChecksInv'
  BY BoardStep
<1>5. QED BY <1>1, <1>2, <1>3, <1>4, PTL DEF Spec, BoardSpec

\* Of any flow that is no longer than one advance, saved without errors, no run finds an
\* edge missing, a node unknown, or goes round until the cap, whatever stops, is released by
\* hand or enrolls again beside it (_flow_edges and _check_flow_graph against _advance).
THEOREM AcceptedFlowsRun ==
    ASSUME Fits PROVE (Spec \/ BoardSpec) => []AcceptedRuns
<1>1. (Spec \/ BoardSpec) => []ChecksInv
  BY ChecksHold
<1>2. ChecksInv => AcceptedRuns
  BY DEF ChecksInv
<1>3. QED BY <1>1, <1>2, PTL

\* A release without a release-ordering warning lets no device out blindly, whatever the
\* flow it stands in (_warn_flow_semantics against the barriers and their deadlines).
THEOREM UnwarnedReleases ==
    ASSUME Fits PROVE (Spec \/ BoardSpec) => []ReleaseAccountedFor
<1>1. (Spec \/ BoardSpec) => []ChecksInv
  BY ChecksHold
<1>2. ChecksInv => ReleaseAccountedFor
  BY DEF ChecksInv
<1>3. QED BY <1>1, <1>2, PTL

\* No run is ever parked on a wait with a barrier-empty warning (_warn_flow_semantics
\* against _wait_already_satisfied).
THEOREM EmptyBarriersPass ==
    ASSUME Fits PROVE (Spec \/ BoardSpec) => []EmptyBarrierNeverParks
<1>1. (Spec \/ BoardSpec) => []ChecksInv
  BY ChecksHold
<1>2. ChecksInv => EmptyBarrierNeverParks
  <2> SUFFICES ASSUME ChecksInv, run.status = "waiting" PROVE run.at \notin BarrierEmpty(flow)
    BY DEF EmptyBarrierNeverParks
  <2>1. /\ Going /\ Node.type = "wait_for"
        /\ Node.signal = "profile_installed" /\ run.expected # {}
    BY AtBarrier
  <2>2. IsFiniteSet(DOMAIN flow) /\ run.at \in DOMAIN flow
    BY <2>1, SavedFlow
  <2>3. run.at \in Barriers(flow)
    BY <2>1, <2>2 DEF Barriers, OfType, Node
  <2>4. PICK i \in run.expected : TRUE
    BY <2>1
  <2>5. /\ i \in LiveInstalls(flow)
        /\ run.at \in Reach(Edges(flow), Edges(flow)[i], Barriers(flow) \ {run.at})
    BY <2>1 DEF ChecksInv, Carried
  <2>6. run.at \in Fed(flow)
    BY <2>2, <2>3, <2>5, FeedsIt
  <2>7. QED BY <2>6 DEF BarrierEmpty
<1>3. QED BY <1>1, <1>2, PTL

-----------------------------------------------------------------------------
(* FlowFiles: the inductive invariant *)

\* What a password field may hold, and the shapes of a flow and of a document.
PasswordField == Passwords \cup {NoPassword, Sentinel}
HashSet == [enabled : BOOLEAN, password : PasswordField, sound : BOOLEAN, setup : BOOLEAN]
FlowSet == [id : Ids, draft : BOOLEAN, base : SUBSET HashSet, permanent : BOOLEAN,
            enabled : BOOLEAN, password : PasswordField, sound : BOOLEAN, setup : BOOLEAN]
Doc == Seq(FlowSet)
FileSet == [exists : BOOLEAN, flows : Doc]
ClientSet == [open : BOOLEAN, copy : Doc, meant : Doc, version : FileSet]

FilesTypeOK ==
    /\ disk \in FileSet /\ (~disk.exists => disk = NoFile)
    /\ history \subseteq Doc
    /\ client \in [Clients -> ClientSet]
    /\ waived \in BOOLEAN

\* WellFormed of any document, without counting.
DistinctKeys(flows) == \A i, j \in DOMAIN flows : Key(flows[i]) = Key(flows[j]) => i = j
DraftsPlaced(flows) ==
    \A i \in DOMAIN flows : flows[i].draft => <<flows[i].id, FALSE>> \in Keys(flows)
Disclosed(flows) == \A i \in DOMAIN flows : flows[i].password # Sentinel
Runnable(flows) == DistinctKeys(flows) /\ DraftsPlaced(flows) /\ Disclosed(flows) /\ Valid(flows)

Scoped(flows) ==
    \A i \in DOMAIN flows : IsLive(flows[i]) /\ flows[i].setup => flows[i].id \in Permanent(flows)

\* The document and all its snapshots are fit to be restored.
FilesRunnable == \A flows \in history \cup {disk.flows} : Runnable(flows)
FilesScoped == waived \/ \A flows \in history \cup {disk.flows} : Scoped(flows)

\* What an editor shows as the sentinel is stored in the version it goes by, and with
\* the passwords of that version the copy is what the editor means.
Tracks(r) ==
    /\ Restored(r.copy, r.version.flows) = r.meant
    /\ \A i \in DOMAIN r.copy :
          r.copy[i].password = Sentinel => Key(r.copy[i]) \in Keys(r.version.flows)
    /\ ~r.version.exists => r.version = NoFile
FilesTracked ==
    \A c \in Clients : Tracks(client[c]) /\ (client[c].version.exists => disk.exists)

FilesInv == FilesTypeOK /\ FilesRunnable /\ FilesScoped /\ FilesTracked

-----------------------------------------------------------------------------
(* FlowFiles: what Kept leaves of a document *)

\* The position that comes n-th among those of S.
Place(S, n) == CHOOSE i \in S : Ordinal(S, i) = n

LEMMA Positions ==
    ASSUME NEW N \in Nat, NEW S \in SUBSET (1..N)
    PROVE  /\ IsFiniteSet(S) /\ Cardinality(S) \in Nat
           /\ \A i \in S : i \in Nat /\ i >= 1 /\ i <= N
<1>1. IsFiniteSet(1..N)
  BY FS_Interval
<1>2. IsFiniteSet(S)
  BY <1>1, FS_Subset
<1>3. \A i \in S : i \in 1..N
  OBVIOUS
<1>4. QED BY <1>2, <1>3, FS_CardinalityType

LEMMA OrdinalType ==
    ASSUME NEW S, IsFiniteSet(S), NEW i
    PROVE  /\ IsFiniteSet({j \in S : j <= i})
           /\ Ordinal(S, i) \in Nat /\ Ordinal(S, i) <= Cardinality(S)
<1>1. {j \in S : j <= i} \in SUBSET S
  OBVIOUS
<1>2. IsFiniteSet({j \in S : j <= i}) /\ Cardinality({j \in S : j <= i}) <= Cardinality(S)
  BY <1>1, FS_Subset
<1>3. QED BY <1>2, FS_CardinalityType DEF Ordinal

LEMMA OrdinalStep ==
    ASSUME NEW N \in Nat, NEW S \in SUBSET (1..N), NEW i \in 1..N
    PROVE  Ordinal(S, i) = IF i \in S THEN Ordinal(S, i - 1) + 1 ELSE Ordinal(S, i - 1)
<1> DEFINE Low == {j \in S : j <= i - 1}
<1>0. \A j \in S : j \in Nat
  BY Positions
<1>1. IsFiniteSet(Low)
  <2>1. IsFiniteSet(S)
    BY Positions
  <2>2. QED BY <2>1, OrdinalType
<1>2. CASE i \in S
  <2>0. \A j \in S : j <= i <=> j <= i - 1 \/ j = i
    BY <1>0
  <2>1. {j \in S : j <= i} = Low \cup {i}
    BY <1>2, <2>0
  <2>2. i \notin Low
    OBVIOUS
  <2>3. QED BY <1>1, <1>2, <2>1, <2>2, FS_AddElement DEF Ordinal
<1>3. CASE i \notin S
  <2>0. \A j \in S : j <= i <=> j <= i - 1
    BY <1>0, <1>3
  <2>1. {j \in S : j <= i} = Low
    BY <2>0
  <2>2. QED BY <1>3, <2>1 DEF Ordinal
<1>4. QED BY <1>2, <1>3

LEMMA OrdinalGrows ==
    ASSUME NEW N \in Nat, NEW S \in SUBSET (1..N), NEW i \in S, NEW j \in S, i < j
    PROVE  Ordinal(S, i) < Ordinal(S, j)
<1> DEFINE Low == {k \in S : k <= i}
           High == {k \in S : k <= j}
<1>0. IsFiniteSet(S) /\ \A k \in S : k \in Nat
  BY Positions
<1>1. /\ IsFiniteSet(Low) /\ Cardinality(Low) \in Nat
      /\ IsFiniteSet(High) /\ Cardinality(High) \in Nat
  <2>1. IsFiniteSet(Low) /\ IsFiniteSet(High)
    BY <1>0, OrdinalType
  <2>2. QED BY <2>1, FS_CardinalityType
<1>2. Low \cup {j} \in SUBSET High /\ j \notin Low
  <2>1. (\A k \in S : k <= i => k <= j) /\ ~(j <= i) /\ j <= j
    BY <1>0
  <2>2. QED BY <2>1
<1>3. Cardinality(Low \cup {j}) = Cardinality(Low) + 1
  BY <1>1, <1>2, FS_AddElement
<1>4. Cardinality(Low \cup {j}) <= Cardinality(High)
  BY <1>1, <1>2, FS_Subset
<1>5. QED BY <1>1, <1>3, <1>4 DEF Ordinal

\* Every ordinal is somebody's: the first position that reaches it is in S.
LEMMA OrdinalTaken ==
    ASSUME NEW N \in Nat, NEW S \in SUBSET (1..N), NEW n \in 1..Cardinality(S)
    PROVE  \E i \in S : Ordinal(S, i) = n
<1> DEFINE B == {i \in 0..N : Ordinal(S, i) >= n}
<1>0. IsFiniteSet(S) /\ Cardinality(S) \in Nat /\ \A k \in S : k \in Nat /\ k >= 1 /\ k <= N
  BY Positions
<1>1. {j \in S : j <= N} = S
  BY <1>0
<1>2. Ordinal(S, N) = Cardinality(S) /\ Cardinality(S) \in Nat
  BY <1>0, <1>1 DEF Ordinal
<1>3. N \in B
  BY <1>2
<1>4. B \in SUBSET Nat /\ B # {}
  BY <1>3
<1>5. PICK i \in B : \A c \in B : i <= c
  BY <1>4, LeastNat
<1>6. i # 0
  <2>0. \A j \in S : ~(j <= 0)
    BY <1>0
  <2>1. {j \in S : j <= 0} = {}
    BY <2>0
  <2>2. Ordinal(S, 0) = 0
    BY <2>1, FS_EmptySet DEF Ordinal
  <2>3. QED BY <2>2
<1>7. i \in 1..N /\ i - 1 \in 0..N /\ i - 1 \notin B
  BY <1>5, <1>6
<1>8. Ordinal(S, i - 1) < n /\ Ordinal(S, i - 1) \in Nat /\ Ordinal(S, i) \in Nat
  <2>1. Ordinal(S, i - 1) \in Nat /\ Ordinal(S, i) \in Nat
    BY <1>0, OrdinalType
  <2>2. QED BY <1>7, <2>1
<1>9. QED BY <1>5, <1>7, <1>8, OrdinalStep

LEMMA Places ==
    ASSUME NEW N \in Nat, NEW S \in SUBSET (1..N)
    PROVE  /\ \A n \in 1..Cardinality(S) : Place(S, n) \in S /\ Ordinal(S, Place(S, n)) = n
           /\ \A i \in S : Ordinal(S, i) \in 1..Cardinality(S) /\ Place(S, Ordinal(S, i)) = i
           /\ \A m, n \in 1..Cardinality(S) : m < n => Place(S, m) < Place(S, n)
<1>0. IsFiniteSet(S) /\ Cardinality(S) \in Nat /\ \A k \in S : k \in Nat
  BY Positions
<1>1. \A n \in 1..Cardinality(S) : Place(S, n) \in S /\ Ordinal(S, Place(S, n)) = n
  BY OrdinalTaken DEF Place
<1>2. \A i \in S : Ordinal(S, i) \in 1..Cardinality(S)
  <2> SUFFICES ASSUME NEW i \in S PROVE Ordinal(S, i) \in 1..Cardinality(S)
    OBVIOUS
  <2>1. i \in 1..N /\ Ordinal(S, i) = Ordinal(S, i - 1) + 1
    BY OrdinalStep
  <2>2. Ordinal(S, i - 1) \in Nat /\ Ordinal(S, i) <= Cardinality(S) /\ Cardinality(S) \in Nat
    BY <1>0, <2>1, OrdinalType
  <2>3. QED BY <2>1, <2>2
<1>3. \A i, j \in S : Ordinal(S, i) = Ordinal(S, j) => i = j
  <2> SUFFICES ASSUME NEW i \in S, NEW j \in S, i # j PROVE Ordinal(S, i) # Ordinal(S, j)
    OBVIOUS
  <2>1. Ordinal(S, i) \in Nat /\ Ordinal(S, j) \in Nat
    BY <1>0, OrdinalType
  <2>2. i < j \/ j < i
    BY <1>0
  <2>3. CASE i < j
    <3>1. Ordinal(S, i) < Ordinal(S, j)
      BY <2>3, OrdinalGrows
    <3>2. QED BY <2>1, <3>1
  <2>4. CASE j < i
    <3>1. Ordinal(S, j) < Ordinal(S, i)
      BY <2>4, OrdinalGrows
    <3>2. QED BY <2>1, <3>1
  <2>5. QED BY <2>2, <2>3, <2>4
<1>4. \A i \in S : Place(S, Ordinal(S, i)) = i
  BY <1>1, <1>2, <1>3
<1>5. ASSUME NEW m \in 1..Cardinality(S), NEW n \in 1..Cardinality(S), m < n
      PROVE  Place(S, m) < Place(S, n)
  <2> DEFINE i == Place(S, m)
             j == Place(S, n)
  <2>1. i \in S /\ j \in S /\ Ordinal(S, i) = m /\ Ordinal(S, j) = n
    BY <1>1
  <2> HIDE DEF i, j
  <2>2. ~(j < i)
    BY <1>5, <2>1, OrdinalGrows
  <2>3. i # j
    BY <1>5, <2>1
  <2>4. i < j
    BY <2>1, <2>2, <2>3
  <2>5. QED BY <2>4 DEF i, j
<1>6. QED BY <1>1, <1>2, <1>4, <1>5

LEMMA KeptDoc ==
    ASSUME NEW flows \in Doc, NEW S \in SUBSET DOMAIN flows
    PROVE  /\ Kept(flows, S) \in Doc
           /\ DOMAIN Kept(flows, S) = 1..Cardinality(S)
           /\ Len(Kept(flows, S)) = Cardinality(S) /\ Cardinality(S) \in Nat
           /\ \A n \in DOMAIN Kept(flows, S) :
                 Place(S, n) \in S /\ Kept(flows, S)[n] = flows[Place(S, n)]
           /\ \A i \in S : /\ Ordinal(S, i) \in DOMAIN Kept(flows, S)
                           /\ Kept(flows, S)[Ordinal(S, i)] = flows[i]
<1>1. S \in SUBSET (1..Len(flows)) /\ Len(flows) \in Nat
  BY DEF Doc
<1>2. Cardinality(S) \in Nat
  BY <1>1, Positions
<1>3. Kept(flows, S) = [n \in 1..Cardinality(S) |-> flows[Place(S, n)]]
  BY DEF Kept, Place
<1>4. \A n \in 1..Cardinality(S) : Place(S, n) \in S
  BY <1>1, Places
<1>5. \A n \in 1..Cardinality(S) : flows[Place(S, n)] \in FlowSet
  BY <1>4 DEF Doc
<1>6. Kept(flows, S) \in [1..Cardinality(S) -> FlowSet]
  BY <1>3, <1>5
<1>7. Kept(flows, S) \in Doc /\ Len(Kept(flows, S)) = Cardinality(S)
  BY <1>2, <1>6 DEF Doc
<1>8. \A i \in S : Ordinal(S, i) \in 1..Cardinality(S) /\ Place(S, Ordinal(S, i)) = i
  BY <1>1, Places
<1>9. QED BY <1>2, <1>3, <1>4, <1>6, <1>7, <1>8

-----------------------------------------------------------------------------
(* FlowFiles: documents, keys and passwords *)

LEMMA DocParts ==
    ASSUME NEW flows \in Doc
    PROVE  /\ Len(flows) \in Nat /\ DOMAIN flows = 1..Len(flows)
           /\ \A i \in DOMAIN flows : i \in Int /\ flows[i] \in FlowSet
           /\ flows = [i \in DOMAIN flows |-> flows[i]]
BY DEF Doc

\* A document rewritten flow by flow.
LEMMA DocMapped ==
    ASSUME NEW flows \in Doc, NEW f, DOMAIN f = DOMAIN flows, f = [i \in DOMAIN f |-> f[i]],
           \A i \in DOMAIN f : f[i] \in FlowSet
    PROVE  f \in Doc /\ Len(f) = Len(flows)
<1>1. DOMAIN f = 1..Len(flows) /\ Len(flows) \in Nat
  BY DocParts
<1>2. f \in [1..Len(flows) -> FlowSet]
  BY <1>1
<1>3. QED BY <1>1, <1>2 DEF Doc

LEMMA FlowParts ==
    ASSUME NEW f \in FlowSet
    PROVE  /\ f.id \in Ids /\ f.draft \in BOOLEAN /\ f.base \in SUBSET HashSet
           /\ f.permanent \in BOOLEAN /\ f.enabled \in BOOLEAN
           /\ f.password \in PasswordField /\ f.sound \in BOOLEAN /\ f.setup \in BOOLEAN
BY DEF FlowSet

LEMMA FlowPassword ==
    ASSUME NEW f \in FlowSet, NEW p \in PasswordField
    PROVE  LET g == [f EXCEPT !.password = p]
           IN  /\ g \in FlowSet /\ g.password = p /\ Key(g) = Key(f)
               /\ g.id = f.id /\ g.draft = f.draft
BY DEF FlowSet, Key

LEMMA EmptyDoc == <<>> \in Doc /\ DOMAIN (<<>>) = {}
BY DEF Doc

LEMMA SentinelApart ==
    /\ NoPassword # Sentinel /\ \A p \in Passwords : p # Sentinel /\ p # NoPassword
    /\ First \in Ids
BY FlowFilesAssumption DEF FlowFilesAssumption

LEMMA AtKey ==
    ASSUME NEW flows, NEW key \in Keys(flows)
    PROVE  At(flows, key) \in DOMAIN flows /\ Key(flows[At(flows, key)]) = key
<1>1. \E i \in DOMAIN flows : Key(flows[i]) = key
  BY DEF Keys
<1>2. QED BY <1>1 DEF At

LEMMA KeyIn ==
    ASSUME NEW flows, NEW i \in DOMAIN flows PROVE Key(flows[i]) \in Keys(flows)
BY DEF Keys

LEMMA AtDistinct ==
    ASSUME NEW flows, DistinctKeys(flows), NEW i \in DOMAIN flows
    PROVE  At(flows, Key(flows[i])) = i
BY AtKey, KeyIn DEF DistinctKeys

-----------------------------------------------------------------------------
(* FlowFiles: Kept, and what it leaves of the keys *)

LEMMA KeptKeys ==
    ASSUME NEW flows \in Doc, NEW S \in SUBSET DOMAIN flows
    PROVE  /\ Keys(Kept(flows, S)) = {Key(flows[i]) : i \in S}
           /\ DistinctKeys(flows) => DistinctKeys(Kept(flows, S))
           /\ Disclosed(flows) => Disclosed(Kept(flows, S))
<1> DEFINE kept == Kept(flows, S)
<1>1. \A n \in DOMAIN kept : Place(S, n) \in S /\ kept[n] = flows[Place(S, n)]
  BY KeptDoc
<1>2. \A i \in S : Ordinal(S, i) \in DOMAIN kept /\ kept[Ordinal(S, i)] = flows[i]
  BY KeptDoc
<1>3. \A m, n \in DOMAIN kept : Place(S, m) = Place(S, n) => m = n
  <2>1. S \in SUBSET (1..Len(flows)) /\ Len(flows) \in Nat /\ DOMAIN kept = 1..Cardinality(S)
    BY DocParts, KeptDoc
  <2>2. \A n \in DOMAIN kept : Ordinal(S, Place(S, n)) = n
    BY <2>1, Places
  <2>3. QED BY <2>2
<1> HIDE DEF kept
<1>4. Keys(kept) = {Key(flows[i]) : i \in S}
  <2>1. ASSUME NEW key \in Keys(kept) PROVE key \in {Key(flows[i]) : i \in S}
    <3>1. PICK n \in DOMAIN kept : key = Key(kept[n])
      BY DEF Keys
    <3>2. QED BY <1>1, <3>1
  <2>2. ASSUME NEW i \in S PROVE Key(flows[i]) \in Keys(kept)
    BY <1>2, KeyIn
  <2>3. QED BY <2>1, <2>2
<1>5. DistinctKeys(flows) => DistinctKeys(kept)
  <2> SUFFICES ASSUME DistinctKeys(flows), NEW m \in DOMAIN kept, NEW n \in DOMAIN kept,
                      Key(kept[m]) = Key(kept[n])
               PROVE  m = n
    BY DEF DistinctKeys
  <2>1. Place(S, m) \in DOMAIN flows /\ Place(S, n) \in DOMAIN flows
    BY <1>1
  <2>2. Place(S, m) = Place(S, n)
    BY <1>1, <2>1 DEF DistinctKeys
  <2>3. QED BY <1>3, <2>2
<1>6. Disclosed(flows) => Disclosed(kept)
  BY <1>1 DEF Disclosed
<1>7. QED BY <1>4, <1>5, <1>6 DEF kept

LEMMA WithoutDoc ==
    ASSUME NEW flows \in Doc, NEW key
    PROVE  /\ Without(flows, key) \in Doc
           /\ Keys(Without(flows, key)) = Keys(flows) \ {key}
           /\ DistinctKeys(flows) => DistinctKeys(Without(flows, key))
           /\ Disclosed(flows) => Disclosed(Without(flows, key))
           /\ \A n \in DOMAIN Without(flows, key) : \E i \in DOMAIN flows :
                 Without(flows, key)[n] = flows[i] /\ Key(flows[i]) # key
           /\ \A i \in DOMAIN flows : Key(flows[i]) # key =>
                 \E n \in DOMAIN Without(flows, key) : Without(flows, key)[n] = flows[i]
<1> DEFINE S == {i \in DOMAIN flows : Key(flows[i]) # key}
<1>1. Without(flows, key) = Kept(flows, S)
  BY DEF Without
<1>2. S \in SUBSET DOMAIN flows
  OBVIOUS
<1>3. \A i \in DOMAIN flows : i \in S <=> Key(flows[i]) # key
  OBVIOUS
<1> HIDE DEF S
<1>4. {Key(flows[i]) : i \in S} = Keys(flows) \ {key}
  BY <1>2, <1>3 DEF Keys
<1>5. /\ Kept(flows, S) \in Doc
      /\ \A n \in DOMAIN Kept(flows, S) :
            Place(S, n) \in S /\ Kept(flows, S)[n] = flows[Place(S, n)]
      /\ \A i \in S : /\ Ordinal(S, i) \in DOMAIN Kept(flows, S)
                      /\ Kept(flows, S)[Ordinal(S, i)] = flows[i]
  BY <1>2, KeptDoc
<1>6. /\ Keys(Kept(flows, S)) = {Key(flows[i]) : i \in S}
      /\ DistinctKeys(flows) => DistinctKeys(Kept(flows, S))
      /\ Disclosed(flows) => Disclosed(Kept(flows, S))
  BY <1>2, KeptKeys
<1>7. \A n \in DOMAIN Kept(flows, S) : \E i \in DOMAIN flows :
         Kept(flows, S)[n] = flows[i] /\ Key(flows[i]) # key
  BY <1>2, <1>3, <1>5
<1>8. \A i \in DOMAIN flows : Key(flows[i]) # key =>
         \E n \in DOMAIN Kept(flows, S) : Kept(flows, S)[n] = flows[i]
  BY <1>3, <1>5
<1>9. QED BY <1>1, <1>4, <1>5, <1>6, <1>7, <1>8

\* Taking a draft away leaves every draft's flow.
LEMMA WithoutDraft ==
    ASSUME NEW flows \in Doc, NEW id, DraftsPlaced(flows)
    PROVE  DraftsPlaced(Without(flows, <<id, TRUE>>))
<1> DEFINE less == Without(flows, <<id, TRUE>>)
<1>1. ASSUME NEW n \in DOMAIN less, less[n].draft PROVE <<less[n].id, FALSE>> \in Keys(less)
  <2>1. PICK i \in DOMAIN flows : less[n] = flows[i]
    BY WithoutDoc
  <2>2. <<flows[i].id, FALSE>> \in Keys(flows)
    BY <1>1, <2>1 DEF DraftsPlaced
  <2>3. <<flows[i].id, FALSE>> # <<id, TRUE>>
    OBVIOUS
  <2>4. Keys(less) = Keys(flows) \ {<<id, TRUE>>}
    BY WithoutDoc
  <2>5. <<flows[i].id, FALSE>> \in Keys(less)
    BY <2>2, <2>3, <2>4
  <2>6. QED BY <2>1, <2>5
<1>2. QED BY <1>1 DEF DraftsPlaced

-----------------------------------------------------------------------------
(* FlowFiles: the enrollment flow *)

LEMMA PermanentLive ==
    ASSUME NEW flows \in Doc, NEW id \in Permanent(flows)
    PROVE  <<id, FALSE>> \in Keys(flows)
<1>1. PICK i \in LiveFlows(flows) : id = flows[i].id
  BY DEF Permanent, FirstOf, Marked
<1>2. i \in DOMAIN flows /\ ~flows[i].draft /\ flows[i] \in FlowSet
  BY <1>1, DocParts DEF LiveFlows, IsLive
<1>3. Key(flows[i]) = <<id, FALSE>>
  BY <1>1, <1>2 DEF Key, FlowSet
<1>4. QED BY <1>2, <1>3, KeyIn

\* The first of some positions is the first of them in what Kept leaves, too.
LEMMA FirstKept ==
    ASSUME NEW flows \in Doc, NEW S \in SUBSET DOMAIN flows, NEW T \in SUBSET S,
           NEW U, U = {n \in DOMAIN Kept(flows, S) : Place(S, n) \in T}
    PROVE  FirstOf(Kept(flows, S), U) = FirstOf(flows, T) /\ (U = {} <=> T = {})
<1> DEFINE kept == Kept(flows, S)
<1>1. /\ \A n \in DOMAIN kept : Place(S, n) \in S /\ kept[n] = flows[Place(S, n)]
      /\ \A i \in S : Ordinal(S, i) \in DOMAIN kept /\ kept[Ordinal(S, i)] = flows[i]
  BY KeptDoc
<1>2. S \in SUBSET (1..Len(flows)) /\ Len(flows) \in Nat /\ DOMAIN kept = 1..Cardinality(S)
      /\ Cardinality(S) \in Nat
  BY DocParts, KeptDoc
<1>3. /\ \A n \in DOMAIN kept : Ordinal(S, Place(S, n)) = n
      /\ \A i \in S : Place(S, Ordinal(S, i)) = i
      /\ \A m, n \in DOMAIN kept : m < n => Place(S, m) < Place(S, n)
  BY <1>2, Places
<1>4. \A i \in S : i \in Int
  BY <1>2
<1>5. \A n \in DOMAIN kept : n \in Int
  BY <1>2
<1> HIDE DEF kept
<1>6. \A n \in U : n \in DOMAIN kept /\ Place(S, n) \in T
  BY DEF kept
<1>7. \A i \in T : Ordinal(S, i) \in U /\ Ordinal(S, i) \in DOMAIN kept
  BY <1>1, <1>3 DEF kept
<1>8. \A m, n \in U : m <= n => Place(S, m) <= Place(S, n)
  <2> SUFFICES ASSUME NEW m \in U, NEW n \in U, m <= n PROVE Place(S, m) <= Place(S, n)
    OBVIOUS
  <2>1. m = n \/ m < n
    BY <1>5, <1>6
  <2>2. Place(S, m) \in Int /\ Place(S, n) \in Int
    BY <1>1, <1>4, <1>6
  <2>3. QED BY <1>3, <1>6, <2>1, <2>2
<1>9. \A i, j \in T : i <= j => Ordinal(S, i) <= Ordinal(S, j)
  <2> SUFFICES ASSUME NEW i \in T, NEW j \in T, i <= j PROVE Ordinal(S, i) <= Ordinal(S, j)
    OBVIOUS
  <2>1. Ordinal(S, i) \in Int /\ Ordinal(S, j) \in Int
    BY <1>5, <1>7
  <2>2. Ordinal(S, j) < Ordinal(S, i) => j < i
    BY <1>3, <1>7
  <2>3. i \in Int /\ j \in Int
    BY <1>4
  <2>4. QED BY <2>1, <2>2, <2>3
<1>10. ASSUME NEW x \in FirstOf(kept, U) PROVE x \in FirstOf(flows, T)
  <2>1. PICK n \in U : x = kept[n].id /\ \A m \in U : n <= m
    BY DEF FirstOf
  <2>2. Place(S, n) \in T /\ x = flows[Place(S, n)].id
    BY <1>1, <1>6, <2>1
  <2>3. ASSUME NEW j \in T PROVE Place(S, n) <= j
    <3>1. Ordinal(S, j) \in U /\ n <= Ordinal(S, j) /\ Place(S, Ordinal(S, j)) = j
      BY <1>3, <1>7, <2>1
    <3>2. QED BY <1>8, <3>1
  <2>4. QED BY <2>2, <2>3 DEF FirstOf
<1>11. ASSUME NEW x \in FirstOf(flows, T) PROVE x \in FirstOf(kept, U)
  <2>1. PICK i \in T : x = flows[i].id /\ \A j \in T : i <= j
    BY DEF FirstOf
  <2>2. Ordinal(S, i) \in U /\ x = kept[Ordinal(S, i)].id
    BY <1>1, <1>7, <2>1
  <2>3. ASSUME NEW m \in U PROVE Ordinal(S, i) <= m
    <3>1. Place(S, m) \in T /\ i <= Place(S, m) /\ Ordinal(S, Place(S, m)) = m
      BY <1>3, <1>6, <2>1
    <3>2. QED BY <1>9, <3>1
  <2>4. QED BY <2>2, <2>3 DEF FirstOf
<1>12. U = {} <=> T = {}
  BY <1>6, <1>7
<1>13. QED BY <1>10, <1>11, <1>12 DEF kept

\* A draft is never the enrollment flow: without it the same flow is.
LEMMA PermanentWithout ==
    ASSUME NEW flows \in Doc, NEW id
    PROVE  Permanent(Without(flows, <<id, TRUE>>)) = Permanent(flows)
<1> DEFINE S == {i \in DOMAIN flows : Key(flows[i]) # <<id, TRUE>>}
           kept == Kept(flows, S)
<1>1. Without(flows, <<id, TRUE>>) = kept
  BY DEF Without
<1>2. S \in SUBSET DOMAIN flows
  OBVIOUS
<1>3. \A n \in DOMAIN kept : Place(S, n) \in S /\ kept[n] = flows[Place(S, n)]
  BY <1>2, KeptDoc
<1>4. LiveFlows(flows) \in SUBSET S
  BY DEF LiveFlows, IsLive, Key
<1>5. Marked(flows) \in SUBSET S
  BY <1>4 DEF Marked
<1> HIDE DEF S
<1>6. LiveFlows(kept) = {n \in DOMAIN kept : Place(S, n) \in LiveFlows(flows)}
  BY <1>2, <1>3 DEF LiveFlows, IsLive, kept
<1>7. Marked(kept) = {n \in DOMAIN kept : Place(S, n) \in Marked(flows)}
  BY <1>3, <1>6 DEF Marked, kept
<1>8. /\ FirstOf(kept, LiveFlows(kept)) = FirstOf(flows, LiveFlows(flows))
      /\ LiveFlows(kept) = {} <=> LiveFlows(flows) = {}
  BY <1>2, <1>4, <1>6, FirstKept
<1>9. /\ FirstOf(kept, Marked(kept)) = FirstOf(flows, Marked(flows))
      /\ Marked(kept) = {} <=> Marked(flows) = {}
  BY <1>2, <1>5, <1>7, FirstKept
<1> HIDE DEF kept
<1>10. Permanent(kept) = Permanent(flows)
  BY <1>8, <1>9 DEF Permanent
<1>11. QED BY <1>1, <1>10

LEMMA ScopedWithout ==
    ASSUME NEW flows \in Doc, NEW id, Scoped(flows)
    PROVE  Scoped(Without(flows, <<id, TRUE>>))
<1> DEFINE less == Without(flows, <<id, TRUE>>)
<1>1. Permanent(less) = Permanent(flows)
  BY PermanentWithout
<1>2. \A n \in DOMAIN less : \E i \in DOMAIN flows : less[n] = flows[i]
  BY WithoutDoc
<1> HIDE DEF less
<1>3. Scoped(less)
  BY <1>1, <1>2 DEF Scoped
<1>4. QED BY <1>3 DEF less

-----------------------------------------------------------------------------
(* FlowFiles: what the save gate lets through *)

LEMMA ProtectionCodes ==
    ASSUME NEW flows, NEW prior, NEW f \in Protection(flows, prior)
    PROVE  f.code \in {"permanent-flow-deleted", "permanent-flow-missing",
                       "permanent-flag-moved", "permanent-flow-disabled"}
<1>1. \E id \in Permanent(prior) :
         f \in {Finding("permanent-flow-deleted", id), Finding("permanent-flow-missing", id),
               Finding("permanent-flag-moved", id), Finding("permanent-flow-disabled", id)}
  BY DEF Protection
<1>2. QED BY <1>1 DEF Finding

\* The flow that a document has for the enrollment flow is not missing from it.
LEMMA NotDeletedHere ==
    ASSUME NEW flows \in Doc, NEW f \in Protection(flows, flows)
    PROVE  f.code # "permanent-flow-deleted"
<1>1. \E id \in Permanent(flows) :
         f \in {Finding("permanent-flow-missing", id), Finding("permanent-flag-moved", id),
               Finding("permanent-flow-disabled", id)}
  BY PermanentLive DEF Protection
<1>2. QED BY <1>1 DEF Finding

LEMMA ShapeCodes ==
    ASSUME NEW flows, NEW f \in DocumentShape(flows)
    PROVE  f.code \in {"flow-duplicate-id", "draft-target-missing"}
<1>1. \E id : f = Finding("flow-duplicate-id", id) \/ f = Finding("draft-target-missing", id)
  BY DEF DocumentShape
<1>2. QED BY <1>1 DEF Finding

LEMMA ScopingCodes ==
    ASSUME NEW flows, NEW f \in Scoping(flows)
    PROVE  f.code = "enrollment-node-outside-enrollment-flow"
BY DEF Scoping, Finding

LEMMA ShapeClean ==
    ASSUME NEW flows \in Doc
    PROVE  DocumentShape(flows) = {} <=> DistinctKeys(flows) /\ DraftsPlaced(flows)
<1>0. DOMAIN flows = 1..Len(flows) /\ Len(flows) \in Nat
  BY DocParts
<1>1. DocumentShape(flows) = {} <=>
         /\ \A j \in DOMAIN flows : ~\E k \in 1..(j - 1) : Key(flows[k]) = Key(flows[j])
         /\ \A j \in DOMAIN flows : ~(flows[j].draft /\ <<flows[j].id, FALSE>> \notin Keys(flows))
  BY DEF DocumentShape
<1>2. ASSUME \A j \in DOMAIN flows : ~\E k \in 1..(j - 1) : Key(flows[k]) = Key(flows[j]),
             NEW i \in DOMAIN flows, NEW j \in DOMAIN flows, Key(flows[i]) = Key(flows[j])
      PROVE  i = j
  <2>1. i \in Int /\ j \in Int /\ i >= 1 /\ j >= 1
    BY <1>0
  <2>2. ~(i < j) /\ ~(j < i)
    <3>1. i < j => i \in 1..(j - 1)
      BY <2>1
    <3>2. j < i => j \in 1..(i - 1)
      BY <2>1
    <3>3. QED BY <1>2, <3>1, <3>2
  <2>3. QED BY <2>1, <2>2
<1>3. ASSUME DistinctKeys(flows), NEW j \in DOMAIN flows, NEW k \in 1..(j - 1)
      PROVE  Key(flows[k]) # Key(flows[j])
  <2>1. k \in DOMAIN flows /\ k # j
    BY <1>0
  <2>2. QED BY <1>3, <2>1 DEF DistinctKeys
<1>4. (\A j \in DOMAIN flows : ~\E k \in 1..(j - 1) : Key(flows[k]) = Key(flows[j]))
        <=> DistinctKeys(flows)
  BY <1>2, <1>3 DEF DistinctKeys
<1>5. QED BY <1>1, <1>4 DEF DraftsPlaced

LEMMA ScopingClean == ASSUME NEW flows PROVE Scoping(flows) = {} <=> Scoped(flows)
BY DEF Scoping, Scoped

\* A document whose blocking findings were all there before, in a document that has no
\* findings of its own, is runnable as far as the gate goes.
LEMMA GateShape ==
    ASSUME NEW flows \in Doc, NEW prior, NEW known, NEW acknowledged \in BOOLEAN,
           Blocking(Findings(flows, prior) \ known, acknowledged) = {},
           known \cap DocumentShape(flows) = {}
    PROVE  DistinctKeys(flows) /\ DraftsPlaced(flows)
<1>1. CASE flows = <<>>
  BY <1>1, EmptyDoc DEF DistinctKeys, DraftsPlaced
<1>2. CASE flows # <<>>
  <2>1. DocumentShape(flows) \subseteq Findings(flows, prior) \ known
    BY <1>2 DEF Findings
  <2>2. \A f \in DocumentShape(flows) : ~Acknowledgeable(f)
    BY ShapeCodes DEF Acknowledgeable
  <2>3. DocumentShape(flows) = {}
    BY <2>1, <2>2 DEF Blocking
  <2>4. QED BY <2>3, ShapeClean
<1>3. QED BY <1>1, <1>2

LEMMA GateScope ==
    ASSUME NEW flows \in Doc, NEW prior, NEW known, NEW acknowledged \in BOOLEAN,
           Blocking(Findings(flows, prior) \ known, acknowledged) = {},
           ~(acknowledged /\ Misplaces(Findings(flows, prior) \ known)),
           \A f \in known : f.code \notin {"permanent-flow-deleted",
                                           "enrollment-node-outside-enrollment-flow"}
    PROVE  Scoped(flows)
<1> DEFINE new == Findings(flows, prior) \ known
<1>1. CASE flows = <<>>
  BY <1>1, EmptyDoc DEF Scoped
<1>2. CASE flows # <<>>
  <2>1. Protection(flows, prior) \subseteq Findings(flows, prior)
    BY <1>2 DEF Findings
  <2>2. ASSUME NEW f \in Protection(flows, prior) PROVE f.code # "permanent-flow-deleted"
    <3> SUFFICES ASSUME f.code = "permanent-flow-deleted" PROVE FALSE
      OBVIOUS
    <3>1. f \in new /\ ~Acknowledgeable(f)
      BY <2>1 DEF Acknowledgeable
    <3>2. QED BY <3>1 DEF Blocking
  <2>3. Scoping(flows) \subseteq Findings(flows, prior)
    BY <1>2, <2>2 DEF Findings
  <2>4. ASSUME NEW f \in Scoping(flows) PROVE FALSE
    <3>1. f.code = "enrollment-node-outside-enrollment-flow"
      BY ScopingCodes
    <3>2. f \in new
      BY <2>3, <3>1
    <3>3. Misplaces(new)
      BY <3>1, <3>2 DEF Misplaces
    <3>4. ~acknowledged
      BY <3>3
    <3>5. f \in Blocking(new, acknowledged)
      BY <3>2, <3>4 DEF Blocking
    <3>6. QED BY <3>5
  <2>5. QED BY <2>4, ScopingClean
<1>3. QED BY <1>1, <1>2

\* A runnable and scoped document has no such findings against itself.
LEMMA CleanShape ==
    ASSUME NEW flows \in Doc, Runnable(flows), NEW f \in Findings(flows, flows)
    PROVE  f.code \notin {"flow-duplicate-id", "draft-target-missing", "permanent-flow-deleted"}
<1>1. DocumentShape(flows) = {}
  BY ShapeClean DEF Runnable
<1>2. f \in Protection(flows, flows) \/ f \in Scoping(flows)
  BY <1>1 DEF Findings
<1>3. QED BY <1>2, ProtectionCodes, NotDeletedHere, ScopingCodes

LEMMA CleanScope ==
    ASSUME NEW flows \in Doc, Runnable(flows), Scoped(flows), NEW f \in Findings(flows, flows)
    PROVE  f.code # "enrollment-node-outside-enrollment-flow"
<1>1. DocumentShape(flows) = {} /\ Scoping(flows) = {}
  BY ShapeClean, ScopingClean DEF Runnable
<1>2. f \in Protection(flows, flows)
  BY <1>1 DEF Findings
<1>3. QED BY <1>2, ProtectionCodes

-----------------------------------------------------------------------------
(* FlowFiles: passwords redacted and put back *)

\* The password stored for a step, and what _restore_flow_secrets makes of one flow.
PasswordOf(stored, key) ==
    IF key \in Keys(stored) THEN stored[At(stored, key)].password ELSE NoPassword
PutBack(f, stored) ==
    IF f.password # Sentinel THEN f
    ELSE [f EXCEPT !.password = PasswordOf(stored, Key(f))]

LEMMA PasswordTwice ==
    ASSUME NEW f \in FlowSet, NEW p, NEW q
    PROVE  /\ [[f EXCEPT !.password = p] EXCEPT !.password = q] = [f EXCEPT !.password = q]
           /\ [f EXCEPT !.password = f.password] = f
BY DEF FlowSet

LEMMA PasswordOfType ==
    ASSUME NEW stored \in Doc, NEW key
    PROVE  /\ PasswordOf(stored, key) \in PasswordField
           /\ Disclosed(stored) => PasswordOf(stored, key) # Sentinel
<1>1. CASE key \in Keys(stored)
  <2>1. At(stored, key) \in DOMAIN stored
    BY <1>1, AtKey
  <2>2. stored[At(stored, key)] \in FlowSet
    BY <2>1, DocParts
  <2>3. stored[At(stored, key)].password \in PasswordField
    BY <2>2, FlowParts
  <2>4. QED BY <1>1, <2>1, <2>3 DEF PasswordOf, Disclosed
<1>2. CASE key \notin Keys(stored)
  BY <1>2, SentinelApart DEF PasswordOf, PasswordField
<1>3. QED BY <1>1, <1>2

LEMMA PutBackFlow ==
    ASSUME NEW f \in FlowSet, NEW stored \in Doc
    PROVE  /\ PutBack(f, stored) \in FlowSet
           /\ Key(PutBack(f, stored)) = Key(f)
           /\ PutBack(f, stored).id = f.id /\ PutBack(f, stored).draft = f.draft
           /\ Disclosed(stored) => PutBack(f, stored).password # Sentinel
           /\ f.password = Sentinel =>
                 PutBack(f, stored).password = PasswordOf(stored, Key(f))
<1>1. CASE f.password # Sentinel
  BY <1>1 DEF PutBack
<1>2. CASE f.password = Sentinel
  <2>1. PutBack(f, stored) = [f EXCEPT !.password = PasswordOf(stored, Key(f))]
    BY <1>2 DEF PutBack
  <2>2. QED BY <2>1, PasswordOfType, FlowPassword
<1>3. QED BY <1>1, <1>2

LEMMA RestoredDoc ==
    ASSUME NEW copy \in Doc, NEW stored \in Doc
    PROVE  /\ Restored(copy, stored) = [i \in DOMAIN copy |-> PutBack(copy[i], stored)]
           /\ Restored(copy, stored) \in Doc
           /\ Len(Restored(copy, stored)) = Len(copy)
           /\ DOMAIN Restored(copy, stored) = DOMAIN copy
           /\ \A i \in DOMAIN copy : /\ Restored(copy, stored)[i] = PutBack(copy[i], stored)
                                     /\ Key(Restored(copy, stored)[i]) = Key(copy[i])
           /\ Keys(Restored(copy, stored)) = Keys(copy)
           /\ Disclosed(stored) => Disclosed(Restored(copy, stored))
<1> DEFINE whole == Restored(copy, stored)
<1>1. whole = [i \in DOMAIN copy |-> PutBack(copy[i], stored)]
  BY DEF Restored, PutBack, PasswordOf
<1> HIDE DEF whole
<1>2. DOMAIN whole = DOMAIN copy /\ \A i \in DOMAIN copy : whole[i] = PutBack(copy[i], stored)
  BY <1>1
<1>3. \A i \in DOMAIN copy : copy[i] \in FlowSet
  BY DocParts
<1>4. \A i \in DOMAIN copy : whole[i] \in FlowSet /\ Key(whole[i]) = Key(copy[i])
  BY <1>2, <1>3, PutBackFlow
<1>5. whole = [i \in DOMAIN whole |-> whole[i]]
  BY <1>1, <1>2
<1>6. whole \in Doc /\ Len(whole) = Len(copy)
  BY <1>2, <1>4, <1>5, DocMapped
<1>7. Keys(whole) = Keys(copy)
  BY <1>2, <1>4 DEF Keys
<1>8. Disclosed(stored) => Disclosed(whole)
  BY <1>2, <1>3, PutBackFlow DEF Disclosed
<1>9. QED BY <1>1, <1>2, <1>4, <1>6, <1>7, <1>8 DEF whole

\* Two versions that agree on the passwords the copy hides restore it alike.
LEMMA RestoredAlike ==
    ASSUME NEW copy \in Doc, NEW stored \in Doc, NEW other \in Doc,
           \A i \in DOMAIN copy : copy[i].password = Sentinel =>
              PasswordOf(stored, Key(copy[i])) = PasswordOf(other, Key(copy[i]))
    PROVE  Restored(copy, stored) = Restored(copy, other)
<1>1. \A i \in DOMAIN copy : PutBack(copy[i], stored) = PutBack(copy[i], other)
  BY DEF PutBack
<1>2. QED BY <1>1, RestoredDoc

\* What has been written is what the copy stands for from then on.
LEMMA RestoredAgain ==
    ASSUME NEW copy \in Doc, NEW stored \in Doc, DistinctKeys(Restored(copy, stored))
    PROVE  Restored(copy, Restored(copy, stored)) = Restored(copy, stored)
<1> DEFINE whole == Restored(copy, stored)
<1>1. whole \in Doc /\ DOMAIN whole = DOMAIN copy
  BY RestoredDoc
<1>2. ASSUME NEW i \in DOMAIN copy, copy[i].password = Sentinel
      PROVE  PasswordOf(stored, Key(copy[i])) = PasswordOf(whole, Key(copy[i]))
  <2>1. Key(whole[i]) = Key(copy[i]) /\ whole[i] = PutBack(copy[i], stored)
    BY RestoredDoc
  <2>2. copy[i] \in FlowSet
    BY DocParts
  <2>3. whole[i].password = PasswordOf(stored, Key(copy[i]))
    BY <1>2, <2>1, <2>2, PutBackFlow
  <2>4. i \in DOMAIN whole
    BY <1>1
  <2> HIDE DEF whole
  <2>5. At(whole, Key(whole[i])) = i /\ Key(whole[i]) \in Keys(whole)
    BY <2>4, AtDistinct, KeyIn DEF whole
  <2>6. PasswordOf(whole, Key(whole[i])) = whole[i].password
    BY <2>5 DEF PasswordOf
  <2>7. QED BY <2>1, <2>3, <2>6
<1> HIDE DEF whole
<1>3. Restored(copy, stored) = Restored(copy, whole)
  BY <1>1, <1>2, RestoredAlike
<1>4. QED BY <1>3 DEF whole

LEMMA RestoredKept ==
    ASSUME NEW copy \in Doc, NEW stored \in Doc, NEW S \in SUBSET DOMAIN copy
    PROVE  Restored(Kept(copy, S), stored) = Kept(Restored(copy, stored), S)
<1> DEFINE less  == Kept(copy, S)
           whole == Restored(copy, stored)
<1>1. /\ less \in Doc /\ DOMAIN less = 1..Cardinality(S)
      /\ \A n \in DOMAIN less : Place(S, n) \in S /\ less[n] = copy[Place(S, n)]
  BY KeptDoc
<1>2. /\ whole \in Doc /\ DOMAIN whole = DOMAIN copy
      /\ \A i \in DOMAIN copy : whole[i] = PutBack(copy[i], stored)
  BY RestoredDoc
<1>3. Kept(whole, S) = [n \in 1..Cardinality(S) |-> whole[Place(S, n)]]
  BY DEF Kept, Place
<1> HIDE DEF less, whole
<1>4. Restored(less, stored) = [n \in DOMAIN less |-> PutBack(less[n], stored)]
  BY <1>1, RestoredDoc
<1>5. \A n \in DOMAIN less : PutBack(less[n], stored) = whole[Place(S, n)]
  BY <1>1, <1>2
<1>6. Restored(less, stored) = Kept(whole, S)
  BY <1>1, <1>3, <1>4, <1>5
<1>7. QED BY <1>6 DEF less, whole

-----------------------------------------------------------------------------
(* FlowFiles: a document with one more flow, and a document as it is opened *)

LEMMA AppendDoc ==
    ASSUME NEW flows \in Doc, NEW f \in FlowSet
    PROVE  /\ Append(flows, f) \in Doc
           /\ DOMAIN Append(flows, f) = DOMAIN flows \cup {Len(flows) + 1}
           /\ Len(flows) + 1 \notin DOMAIN flows
           /\ \A i \in DOMAIN flows : Append(flows, f)[i] = flows[i]
           /\ Append(flows, f)[Len(flows) + 1] = f
           /\ Keys(Append(flows, f)) = Keys(flows) \cup {Key(f)}
           /\ Disclosed(flows) /\ f.password # Sentinel => Disclosed(Append(flows, f))
<1> DEFINE more == Append(flows, f)
<1>1. more \in Doc /\ Len(more) = Len(flows) + 1
  BY DEF Doc
<1>2. DOMAIN more = DOMAIN flows \cup {Len(flows) + 1} /\ Len(flows) + 1 \notin DOMAIN flows
  BY <1>1, DocParts
<1>3. \A i \in DOMAIN flows : more[i] = flows[i]
  BY DEF Doc
<1>4. more[Len(flows) + 1] = f
  BY DEF Doc
<1> HIDE DEF more
<1>5. Keys(more) = Keys(flows) \cup {Key(f)}
  BY <1>2, <1>3, <1>4 DEF Keys
<1>6. Disclosed(flows) /\ f.password # Sentinel => Disclosed(more)
  BY <1>2, <1>3, <1>4 DEF Disclosed
<1>7. QED BY <1>1, <1>2, <1>3, <1>4, <1>5, <1>6 DEF more

LEMMA RestoredAppend ==
    ASSUME NEW copy \in Doc, NEW stored \in Doc, NEW f \in FlowSet
    PROVE  Restored(Append(copy, f), stored) = Append(Restored(copy, stored), PutBack(f, stored))
<1> DEFINE more  == Append(copy, f)
           whole == Restored(copy, stored)
           put  == PutBack(f, stored)
<1>1. /\ more \in Doc /\ DOMAIN more = DOMAIN copy \cup {Len(copy) + 1}
      /\ \A i \in DOMAIN copy : more[i] = copy[i]
      /\ more[Len(copy) + 1] = f
  BY AppendDoc
<1>2. /\ whole \in Doc /\ Len(whole) = Len(copy) /\ DOMAIN whole = DOMAIN copy
      /\ \A i \in DOMAIN copy : whole[i] = PutBack(copy[i], stored)
  BY RestoredDoc
<1>3. put \in FlowSet
  BY PutBackFlow
<1> HIDE DEF more, whole, put
<1>4. /\ Append(whole, put) \in Doc
      /\ DOMAIN Append(whole, put) = DOMAIN copy \cup {Len(copy) + 1}
      /\ \A i \in DOMAIN copy : Append(whole, put)[i] = whole[i]
      /\ Append(whole, put)[Len(copy) + 1] = put
  <2>1. /\ Append(whole, put) \in Doc
        /\ DOMAIN Append(whole, put) = DOMAIN whole \cup {Len(whole) + 1}
        /\ \A i \in DOMAIN whole : Append(whole, put)[i] = whole[i]
        /\ Append(whole, put)[Len(whole) + 1] = put
    BY <1>2, <1>3, AppendDoc
  <2>2. Len(whole) = Len(copy) /\ DOMAIN whole = DOMAIN copy
    BY <1>2
  <2>3. QED BY <2>1, <2>2
<1>5. Append(whole, put) = [i \in DOMAIN more |-> Append(whole, put)[i]]
  BY <1>1, <1>4, DocParts
<1>6. Restored(more, stored) = [i \in DOMAIN more |-> PutBack(more[i], stored)]
  BY <1>1, RestoredDoc
<1>7. \A i \in DOMAIN more : PutBack(more[i], stored) = Append(whole, put)[i]
  BY <1>1, <1>2, <1>4 DEF put
<1>8. Restored(more, stored) = Append(whole, put)
  BY <1>5, <1>6, <1>7
<1>9. QED BY <1>8 DEF more, whole, put

\* What an editor is given: the document with its permanent flag set right, and that
\* with its passwords hidden.
LEMMA OpenedDoc ==
    ASSUME NEW flows \in Doc, Runnable(flows)
    PROVE  LET shown == Redacted(Normalized(flows))
           IN  /\ Normalized(flows) \in Doc /\ shown \in Doc
               /\ Restored(shown, flows) = Normalized(flows)
               /\ \A i \in DOMAIN shown :
                     shown[i].password = Sentinel => Key(shown[i]) \in Keys(flows)
<1> DEFINE normal == Normalized(flows)
           shown == Redacted(normal)
<1>1. normal = [i \in DOMAIN flows |-> [flows[i] EXCEPT !.permanent =
                   IsLive(flows[i]) /\ flows[i].id \in Permanent(flows)]]
  BY DEF Normalized
<1>2. DOMAIN normal = DOMAIN flows
  BY <1>1
<1>3. \A i \in DOMAIN flows : flows[i] \in FlowSet
  BY DocParts
<1> HIDE DEF normal
<1>4. ASSUME NEW i \in DOMAIN flows
      PROVE  /\ normal[i] \in FlowSet /\ Key(normal[i]) = Key(flows[i])
             /\ normal[i].password = flows[i].password
  <2>1. flows[i] \in FlowSet
    BY <1>3
  <2>2. normal[i] = [flows[i] EXCEPT !.permanent = IsLive(flows[i])
                                                   /\ flows[i].id \in Permanent(flows)]
    BY <1>1
  <2>3. (IsLive(flows[i]) /\ flows[i].id \in Permanent(flows)) \in BOOLEAN
    OBVIOUS
  <2>4. QED BY <2>1, <2>2, <2>3 DEF FlowSet, Key
<1>5. normal = [i \in DOMAIN normal |-> normal[i]]
  BY <1>1, <1>2
<1>6. normal \in Doc
  BY <1>2, <1>4, <1>5, DocMapped
<1>7. shown = [i \in DOMAIN normal |->
                  [normal[i] EXCEPT !.password = IF normal[i].password = NoPassword
                                                 THEN normal[i].password ELSE Sentinel]]
  BY DEF Redacted
<1>8. DOMAIN shown = DOMAIN flows
  BY <1>2, <1>7
<1> HIDE DEF shown
<1>9. ASSUME NEW i \in DOMAIN flows
      PROVE  /\ shown[i] \in FlowSet /\ Key(shown[i]) = Key(flows[i])
             /\ PutBack(shown[i], flows) = normal[i]
  <2>1. /\ normal[i] \in FlowSet /\ Key(normal[i]) = Key(flows[i])
        /\ normal[i].password = flows[i].password
    BY <1>4
  <2>2. CASE normal[i].password = NoPassword
    <3>1. shown[i] = [normal[i] EXCEPT !.password = normal[i].password]
      BY <1>2, <1>7, <2>2
    <3>2. shown[i] = normal[i]
      BY <2>1, <3>1, PasswordTwice
    <3>3. PutBack(shown[i], flows) = normal[i]
      BY <2>2, <3>2, SentinelApart DEF PutBack
    <3>4. QED BY <2>1, <3>2, <3>3
  <2>3. CASE normal[i].password # NoPassword
    <3>1. shown[i] = [normal[i] EXCEPT !.password = Sentinel]
      BY <1>2, <1>7, <2>3
    <3>2. Sentinel \in PasswordField
      BY DEF PasswordField
    <3>3. shown[i] \in FlowSet /\ shown[i].password = Sentinel /\ Key(shown[i]) = Key(flows[i])
      BY <2>1, <3>1, <3>2, FlowPassword
    <3>4. PasswordOf(flows, Key(flows[i])) = flows[i].password
      BY AtDistinct, KeyIn DEF PasswordOf, Runnable
    <3>5. PutBack(shown[i], flows) = [shown[i] EXCEPT !.password = normal[i].password]
      BY <2>1, <3>3, <3>4 DEF PutBack
    <3>6. PutBack(shown[i], flows) = normal[i]
      BY <2>1, <3>1, <3>5, PasswordTwice
    <3>7. QED BY <3>3, <3>6
  <2>4. QED BY <2>2, <2>3
<1>10. shown = [i \in DOMAIN shown |-> shown[i]]
  BY <1>2, <1>7, <1>8
<1>11. shown \in Doc
  BY <1>8, <1>9, <1>10, DocMapped
<1>12. Restored(shown, flows) = [i \in DOMAIN shown |-> PutBack(shown[i], flows)]
  BY <1>11, RestoredDoc
<1>13. Restored(shown, flows) = normal
  BY <1>2, <1>5, <1>8, <1>9, <1>12
<1>14. \A i \in DOMAIN shown : Key(shown[i]) \in Keys(flows)
  BY <1>8, <1>9, KeyIn
<1>15. QED BY <1>6, <1>11, <1>13, <1>14 DEF normal, shown

-----------------------------------------------------------------------------
(* FlowFiles: the flows and documents that the actions make *)

LEMMA NewFlowIs ==
    ASSUME NEW id \in Ids, NEW setup \in BOOLEAN
    PROVE  LET f == NewFlow(id, setup)
           IN  /\ f \in FlowSet /\ Key(f) = <<id, FALSE>>
               /\ f.password = NoPassword /\ f.password # Sentinel
               /\ f.id = id /\ ~f.draft /\ ~f.permanent /\ f.sound /\ f.setup = setup
BY SentinelApart DEF NewFlow, FlowSet, PasswordField, Key

LEMMA DefaultFlow ==
    LET f == [NewFlow(First, TRUE) EXCEPT !.permanent = TRUE]
    IN  /\ f \in FlowSet /\ Key(f) = <<First, FALSE>>
        /\ f.password = NoPassword /\ f.password # Sentinel
        /\ f.id = First /\ ~f.draft /\ f.permanent /\ f.sound
BY SentinelApart DEF NewFlow, FlowSet, PasswordField, Key

\* One flow has the flag, and no other has a step of Setup Assistant.
LEMMA OneMarked ==
    ASSUME NEW flows \in Doc, 1 \in DOMAIN flows, flows[1].permanent, Disclosed(flows),
           \A i \in DOMAIN flows : ~flows[i].draft /\ flows[i].sound,
           \A i \in DOMAIN flows \ {1} : ~flows[i].permanent /\ ~flows[i].setup,
           DistinctKeys(flows)
    PROVE  Runnable(flows) /\ Scoped(flows)
<1>1. LiveFlows(flows) = DOMAIN flows
  BY DEF LiveFlows, IsLive
<1>2. Marked(flows) = {1}
  BY <1>1 DEF Marked
<1>3. Valid(flows)
  BY <1>1, <1>2, FS_Singleton DEF Valid
<1>4. DraftsPlaced(flows)
  BY DEF DraftsPlaced
<1>5. flows[1].id \in Permanent(flows)
  BY <1>2 DEF Permanent, FirstOf
<1>6. Scoped(flows)
  BY <1>5 DEF Scoped
<1>7. QED BY <1>3, <1>4, <1>6 DEF Runnable

LEMMA DefaultDoc == Default \in Doc /\ Runnable(Default) /\ Scoped(Default)
<1> DEFINE f == [NewFlow(First, TRUE) EXCEPT !.permanent = TRUE]
<1>1. f \in FlowSet /\ f.password # Sentinel /\ ~f.draft /\ f.permanent /\ f.sound
  BY DefaultFlow
<1>2. Default = <<f>>
  BY DEF Default
<1> HIDE DEF f
<1>3. Default \in Doc /\ DOMAIN Default = {1} /\ Default[1] = f
  BY <1>1, <1>2 DEF Doc
<1>4. Disclosed(Default) /\ DistinctKeys(Default)
  BY <1>1, <1>3 DEF Disclosed, DistinctKeys
<1>5. QED BY <1>1, <1>3, <1>4, OneMarked

LEMMA PairDoc ==
    ASSUME NEW f \in FlowSet, NEW g \in FlowSet
    PROVE  /\ <<f, g>> \in Doc /\ DOMAIN <<f, g>> = {1, 2}
           /\ <<f, g>>[1] = f /\ <<f, g>>[2] = g
<1>1. <<f, g>> \in Doc /\ Len(<<f, g>>) = 2
  BY DEF Doc
<1>2. DOMAIN <<f, g>> = 1..2
  BY <1>1, DocParts
<1>3. QED BY <1>1, <1>2

LEMMA TwoFlows ==
    ASSUME NEW id \in Ids \ {First}, NEW p \in Passwords, NEW q \in Passwords
    PROVE  LET flows == <<[Default[1] EXCEPT !.password = p],
                          [NewFlow(id, FALSE) EXCEPT !.password = q]>>
           IN  flows \in Doc /\ Runnable(flows) /\ Scoped(flows)
<1> DEFINE flows == <<[Default[1] EXCEPT !.password = p],
                      [NewFlow(id, FALSE) EXCEPT !.password = q]>>
           d == [NewFlow(First, TRUE) EXCEPT !.permanent = TRUE]
           n == NewFlow(id, FALSE)
           f == [d EXCEPT !.password = p]
           g == [n EXCEPT !.password = q]
<1>1. Default[1] = d
  BY DEF Default
<1>2. flows = <<f, g>>
  BY <1>1
<1>3. p \in PasswordField /\ p # Sentinel /\ q \in PasswordField /\ q # Sentinel
  BY SentinelApart DEF PasswordField
<1>4. d \in FlowSet /\ Key(d) = <<First, FALSE>> /\ ~d.draft /\ d.permanent /\ d.sound
  BY DefaultFlow
<1>5. n \in FlowSet /\ Key(n) = <<id, FALSE>> /\ ~n.draft /\ ~n.permanent /\ n.sound /\ ~n.setup
  BY NewFlowIs
<1> HIDE DEF d, n
<1>6. /\ f \in FlowSet /\ f.password # Sentinel /\ Key(f) = <<First, FALSE>>
      /\ ~f.draft /\ f.permanent /\ f.sound
  BY <1>3, <1>4 DEF FlowSet, Key
<1>7. /\ g \in FlowSet /\ g.password # Sentinel /\ Key(g) = <<id, FALSE>>
      /\ ~g.draft /\ ~g.permanent /\ g.sound /\ ~g.setup
  BY <1>3, <1>5 DEF FlowSet, Key
<1> HIDE DEF f, g, flows
<1>8. flows \in Doc /\ DOMAIN flows = {1, 2} /\ flows[1] = f /\ flows[2] = g
  BY <1>2, <1>6, <1>7, PairDoc
<1>9. Key(f) # Key(g)
  BY <1>6, <1>7
<1>10. Disclosed(flows) /\ DistinctKeys(flows)
  BY <1>6, <1>7, <1>8, <1>9 DEF Disclosed, DistinctKeys
<1>11. Runnable(flows) /\ Scoped(flows)
  BY <1>6, <1>7, <1>8, <1>10, OneMarked
<1>12. QED BY <1>8, <1>11 DEF flows

LEMMA DraftOfFlow ==
    ASSUME NEW f \in FlowSet
    PROVE  /\ DraftOf(f) \in FlowSet /\ Key(DraftOf(f)) = <<f.id, TRUE>>
           /\ DraftOf(f).password = f.password
<1>1. Hash(f) \in HashSet
  BY FlowParts DEF Hash, HashSet
<1>2. QED BY <1>1 DEF DraftOf, FlowSet, Key

\* An edit leaves a flow's key, and types a password or leaves the one that is there.
LEMMA ChangedFlow ==
    ASSUME NEW f \in FlowSet, NEW g \in Changes(f)
    PROVE  /\ g \in FlowSet /\ Key(g) = Key(f)
           /\ g.password = f.password \/ g.password # Sentinel
<1>1. CASE \E p \in Passwords \cup {NoPassword} : g = [f EXCEPT !.password = p]
  <2>1. PICK p \in Passwords \cup {NoPassword} : g = [f EXCEPT !.password = p]
    BY <1>1
  <2>2. p \in PasswordField /\ p # Sentinel
    BY SentinelApart DEF PasswordField
  <2>3. QED BY <2>1, <2>2, FlowPassword
<1>2. CASE g = [f EXCEPT !.sound = ~@] \/ g = [f EXCEPT !.setup = ~@]
  BY <1>2 DEF FlowSet, Key
<1>3. CASE g = [f EXCEPT !.permanent = ~@] \/ g = [f EXCEPT !.enabled = ~@]
  BY <1>3 DEF FlowSet, Key
<1>4. QED BY <1>1, <1>2, <1>3 DEF Changes

LEMMA PromotedDoc ==
    ASSUME NEW flows \in Doc, NEW id, {<<id, FALSE>>, <<id, TRUE>>} \subseteq Keys(flows)
    PROVE  /\ Promoted(flows, id) \in Doc
           /\ Disclosed(flows) => Disclosed(Promoted(flows, id))
<1> DEFINE draft == flows[At(flows, <<id, TRUE>>)]
           onto(f) == [f EXCEPT !.password = draft.password, !.sound = draft.sound,
                                !.setup = draft.setup]
           merged == [i \in DOMAIN flows |->
                         IF Key(flows[i]) = <<id, FALSE>> THEN onto(flows[i]) ELSE flows[i]]
<1>1. Promoted(flows, id) = Without(merged, <<id, TRUE>>)
  BY DEF Promoted
<1>2. At(flows, <<id, TRUE>>) \in DOMAIN flows
  BY AtKey
<1>3. draft \in FlowSet /\ (Disclosed(flows) => draft.password # Sentinel)
  BY <1>2, DocParts DEF Disclosed
<1>4. /\ draft.password \in PasswordField /\ draft.sound \in BOOLEAN /\ draft.setup \in BOOLEAN
  BY <1>3, FlowParts
<1> HIDE DEF draft
<1>5. ASSUME NEW i \in DOMAIN flows
      PROVE  merged[i] \in FlowSet /\ (Disclosed(flows) => merged[i].password # Sentinel)
  <2>1. flows[i] \in FlowSet
    BY DocParts
  <2>2. /\ onto(flows[i]) \in FlowSet /\ onto(flows[i]).password = draft.password
    BY <1>4, <2>1 DEF FlowSet
  <2>3. QED BY <1>3, <2>1, <2>2 DEF Disclosed
<1>6. DOMAIN merged = DOMAIN flows /\ merged = [i \in DOMAIN merged |-> merged[i]]
  OBVIOUS
<1> HIDE DEF merged
<1>7. merged \in Doc
  BY <1>5, <1>6, DocMapped
<1>8. Disclosed(flows) => Disclosed(merged)
  BY <1>5, <1>6 DEF Disclosed
<1>9. QED BY <1>1, <1>7, <1>8, WithoutDoc

-----------------------------------------------------------------------------
(* FlowFiles: what the actions share *)

LEMMA DiskParts ==
    ASSUME FilesTypeOK
    PROVE  /\ disk \in FileSet /\ disk.flows \in Doc /\ disk.exists \in BOOLEAN
           /\ ~disk.exists => disk = NoFile
           /\ disk = NoFile => disk.flows = <<>> /\ ~disk.exists
BY DEF FilesTypeOK, FileSet, NoFile

LEMMA ClientParts ==
    ASSUME FilesTypeOK, NEW c \in Clients
    PROVE  /\ client[c] \in ClientSet /\ client[c].copy \in Doc /\ client[c].meant \in Doc
           /\ client[c].version \in FileSet /\ client[c].version.flows \in Doc
           /\ client[c].open \in BOOLEAN /\ client[c].version.exists \in BOOLEAN
BY DEF FilesTypeOK, ClientSet, FileSet

LEMMA FileParts ==
    ASSUME NEW flows \in Doc
    PROVE  /\ File(flows) \in FileSet /\ File(flows).exists /\ File(flows).flows = flows
           /\ File(flows) # NoFile
BY DEF File, FileSet, NoFile

\* A runnable document is written: the rest is snapshots of what has been there.
LEMMA AppliedKeeps ==
    ASSUME FilesTypeOK, FilesRunnable, FilesScoped, NEW flows \in Doc, Applied(flows),
           Runnable(flows), waived' \in BOOLEAN, waived => waived', waived' \/ Scoped(flows)
    PROVE  /\ disk' = File(flows) /\ disk' \in FileSet /\ disk'.exists /\ disk'.flows = flows
           /\ history' \subseteq Doc
           /\ FilesRunnable' /\ FilesScoped'
<1>1. disk' = File(flows) /\ history' \subseteq history \cup {disk.flows, Default}
  BY DEF Applied, File
<1>2. disk' \in FileSet /\ disk'.exists /\ disk'.flows = flows
  BY <1>1, FileParts
<1>3. history' \cup {disk'.flows} \subseteq history \cup {disk.flows, Default, flows}
  BY <1>1, <1>2
<1>4. history' \subseteq Doc
  BY <1>1, DefaultDoc, DiskParts DEF FilesTypeOK
<1>5. FilesRunnable'
  BY <1>3, DefaultDoc DEF FilesRunnable
<1>6. FilesScoped'
  BY <1>3, DefaultDoc DEF FilesScoped, FilesTypeOK
<1>7. QED BY <1>1, <1>2, <1>4, <1>5, <1>6

\* One editor changes; the version the others go by is none of the file's business.
LEMMA ClientKeeps ==
    ASSUME FilesTypeOK, FilesTracked, NEW c \in Clients, NEW r \in ClientSet,
           client' = [client EXCEPT ![c] = r], Tracks(r),
           disk.exists => disk'.exists, r.version.exists => disk'.exists
    PROVE  client' \in [Clients -> ClientSet] /\ FilesTracked'
<1>1. client' \in [Clients -> ClientSet]
  BY DEF FilesTypeOK
<1>2. client'[c] = r /\ \A d \in Clients \ {c} : client'[d] = client[d]
  BY DEF FilesTypeOK
<1>3. ASSUME NEW d \in Clients
      PROVE  Tracks(client'[d]) /\ (client'[d].version.exists => disk'.exists)
  <2>1. CASE d = c
    BY <1>2, <2>1
  <2>2. CASE d # c
    BY <1>2, <2>2 DEF FilesTracked
  <2>3. QED BY <2>1, <2>2
<1>4. QED BY <1>1, <1>3 DEF FilesTracked

LEMMA ClosedTracks == Closed \in ClientSet /\ Tracks(Closed) /\ ~Closed.version.exists
<1>1. Closed.copy = <<>> /\ Closed.meant = <<>> /\ Closed.version = NoFile
  BY DEF Closed
<1>2. NoFile \in FileSet /\ ~NoFile.exists /\ NoFile.flows = <<>> /\ <<>> \in Doc
  BY EmptyDoc DEF NoFile, FileSet
<1>3. Closed \in ClientSet
  BY <1>2 DEF Closed, ClientSet
<1>4. DOMAIN Restored(<<>>, <<>>) = {}
  BY EmptyDoc DEF Restored
<1>5. Restored(<<>>, <<>>) = <<>>
  <2>1. Restored(<<>>, <<>>) \in Doc /\ Len(Restored(<<>>, <<>>)) = Len(<<>>)
    BY <1>2, RestoredDoc
  <2>2. QED BY <2>1 DEF Doc
<1>6. Tracks(Closed)
  BY <1>1, <1>2, <1>5, EmptyDoc DEF Tracks
<1>7. QED BY <1>1, <1>2, <1>3, <1>6

LEMMA OpenedTracks ==
    ASSUME NEW file \in FileSet, ~file.exists => file = NoFile, Runnable(file.flows)
    PROVE  /\ Opened(file) \in ClientSet /\ Opened(file).version = file
           /\ Tracks(Opened(file))
<1> DEFINE shown == Redacted(Normalized(file.flows))
           r == Opened(file)
<1>1. file.flows \in Doc
  BY DEF FileSet
<1>2. /\ Normalized(file.flows) \in Doc /\ shown \in Doc
      /\ Restored(shown, file.flows) = Normalized(file.flows)
      /\ \A i \in DOMAIN shown :
            shown[i].password = Sentinel => Key(shown[i]) \in Keys(file.flows)
  BY <1>1, OpenedDoc
<1>3. /\ r.copy = shown /\ r.meant = Normalized(file.flows) /\ r.version = file
  BY DEF Opened
<1>4. r \in ClientSet
  BY <1>2 DEF Opened, ClientSet
<1> HIDE DEF shown, r
<1>5. Tracks(r)
  BY <1>2, <1>3 DEF Tracks
<1>6. QED BY <1>3, <1>4, <1>5 DEF r

-----------------------------------------------------------------------------
(* FlowFiles: whole documents *)

\* What passes the gate when it is put in place of the file.
LEMMA PutFlows ==
    ASSUME FilesTypeOK, FilesRunnable, NEW c \in Clients, NEW acknowledged \in BOOLEAN,
           Put(c, acknowledged)
    PROVE  LET flows == Restored(client[c].copy, disk.flows)
           IN  /\ flows \in Doc /\ Applied(flows) /\ Runnable(flows)
               /\ waived' \in BOOLEAN /\ (waived => waived') /\ (waived' \/ Scoped(flows))
<1> DEFINE flows == Restored(client[c].copy, disk.flows)
           found == Findings(flows, disk.flows)
<1>1. /\ Blocking(found, acknowledged) = {} /\ Applied(flows)
      /\ waived' = (waived \/ (acknowledged /\ Misplaces(found)))
  BY DEF Put
<1>2. Runnable(disk.flows)
  BY DEF FilesRunnable
<1>3. flows \in Doc /\ Disclosed(flows)
  BY <1>2, ClientParts, DiskParts, RestoredDoc DEF Runnable
<1> HIDE DEF flows
<1>4. found = found \ {}
  OBVIOUS
<1>5. DistinctKeys(flows) /\ DraftsPlaced(flows)
  BY <1>1, <1>3, <1>4, GateShape
<1>6. Runnable(flows)
  BY <1>1, <1>3, <1>5 DEF Runnable, Applied
<1>7. ~(acknowledged /\ Misplaces(found)) => Scoped(flows)
  BY <1>1, <1>3, <1>4, GateScope
<1>8. waived' \in BOOLEAN /\ (waived => waived') /\ (waived' \/ Scoped(flows))
  BY <1>1, <1>7
<1>9. QED BY <1>1, <1>3, <1>6, <1>8 DEF flows

LEMMA SaveCopyKeeps == ASSUME FilesInv, NEW c \in Clients, SaveCopy(c) PROVE FilesInv'
<1> DEFINE flows == Restored(client[c].copy, disk.flows)
           r == [client[c] EXCEPT !.version = disk', !.meant = disk'.flows]
<1> USE DEF FilesInv
<1>1. PICK acknowledged \in BOOLEAN : Put(c, acknowledged)
  BY DEF SaveCopy
<1>2. /\ flows \in Doc /\ Applied(flows) /\ Runnable(flows)
      /\ waived' \in BOOLEAN /\ (waived => waived') /\ (waived' \/ Scoped(flows))
  BY <1>1, PutFlows
<1>3. /\ disk' = File(flows) /\ disk' \in FileSet /\ disk'.exists /\ disk'.flows = flows
      /\ history' \subseteq Doc /\ FilesRunnable' /\ FilesScoped'
  BY <1>2, AppliedKeeps
<1>4. Restored(client[c].copy, flows) = flows
  BY <1>2, ClientParts, DiskParts, RestoredAgain DEF Runnable
<1>5. Keys(flows) = Keys(client[c].copy)
  BY ClientParts, DiskParts, RestoredDoc
<1> HIDE DEF flows
<1>6. r \in ClientSet /\ r.copy = client[c].copy /\ r.meant = flows /\ r.version = disk'
  BY <1>2, <1>3, ClientParts DEF ClientSet
<1>7. client' = [client EXCEPT ![c] = r]
  BY DEF SaveCopy, FilesTypeOK
<1> HIDE DEF r
<1>8. Tracks(r)
  BY <1>3, <1>4, <1>5, <1>6, KeyIn DEF Tracks
<1>9. client' \in [Clients -> ClientSet] /\ FilesTracked'
  BY <1>3, <1>6, <1>7, <1>8, ClientKeeps
<1>10. QED BY <1>2, <1>3, <1>9 DEF FilesTypeOK

LEMMA SaveBlindKeeps == ASSUME FilesInv, NEW c \in Clients, SaveBlind(c) PROVE FilesInv'
<1> DEFINE flows == Restored(client[c].copy, disk.flows)
<1> USE DEF FilesInv
<1>1. Put(c, FALSE) /\ client' = [client EXCEPT ![c] = Closed]
  BY DEF SaveBlind
<1>2. /\ flows \in Doc /\ Applied(flows) /\ Runnable(flows)
      /\ waived' \in BOOLEAN /\ (waived => waived') /\ (waived' \/ Scoped(flows))
  BY <1>1, PutFlows
<1>3. /\ disk' = File(flows) /\ disk' \in FileSet /\ disk'.exists
      /\ history' \subseteq Doc /\ FilesRunnable' /\ FilesScoped'
  BY <1>2, AppliedKeeps
<1>4. client' \in [Clients -> ClientSet] /\ FilesTracked'
  BY <1>1, <1>3, ClosedTracks, ClientKeeps
<1>5. QED BY <1>2, <1>3, <1>4 DEF FilesTypeOK

LEMMA RestoreKeeps == ASSUME FilesInv, NEW c \in Clients, Restore(c) PROVE FilesInv'
<1> USE DEF FilesInv
<1>1. PICK flows \in history : Applied(flows)
  BY DEF Restore
<1>2. flows \in Doc /\ Runnable(flows) /\ (waived \/ Scoped(flows))
  BY DEF FilesTypeOK, FilesRunnable, FilesScoped
<1>3. waived' = waived /\ waived \in BOOLEAN
  BY DEF Restore, FilesTypeOK
<1>4. /\ disk' = File(flows) /\ disk' \in FileSet /\ disk'.exists /\ disk'.flows = flows
      /\ history' \subseteq Doc /\ FilesRunnable' /\ FilesScoped'
  BY <1>1, <1>2, <1>3, AppliedKeeps
<1>5. /\ Opened(disk') \in ClientSet /\ Opened(disk').version = disk' /\ Tracks(Opened(disk'))
  BY <1>2, <1>4, OpenedTracks
<1>6. client' = [client EXCEPT ![c] = Opened(disk')]
  BY DEF Restore
<1>7. client' \in [Clients -> ClientSet] /\ FilesTracked'
  BY <1>4, <1>5, <1>6, ClientKeeps
<1>8. QED BY <1>3, <1>4, <1>7 DEF FilesTypeOK

-----------------------------------------------------------------------------
(* FlowFiles: reading and editing *)

\* Nothing but one editor moves.
LEMMA OnlyClient ==
    ASSUME FilesInv, NEW c \in Clients, NEW r \in ClientSet, Tracks(r),
           r.version = client[c].version \/ r.version = disk \/ r = Closed,
           client' = [client EXCEPT ![c] = r], UNCHANGED <<disk, history, waived>>
    PROVE  FilesInv'
<1> USE DEF FilesInv
<1>1. r.version.exists => disk'.exists
  BY ClosedTracks DEF FilesTracked
<1>2. client' \in [Clients -> ClientSet] /\ FilesTracked'
  BY <1>1, ClientKeeps
<1>3. FilesTypeOK'
  BY <1>2 DEF FilesTypeOK
<1>4. FilesRunnable' /\ FilesScoped'
  BY DEF FilesRunnable, FilesScoped
<1>5. QED BY <1>2, <1>3, <1>4

LEMMA LoadKeeps == ASSUME FilesInv, NEW c \in Clients, Load(c) PROVE FilesInv'
<1>1. disk \in FileSet /\ (~disk.exists => disk = NoFile) /\ Runnable(disk.flows)
  BY DEF FilesInv, FilesTypeOK, FilesRunnable
<1>2. /\ Opened(disk) \in ClientSet /\ Opened(disk).version = disk /\ Tracks(Opened(disk))
  BY <1>1, OpenedTracks
<1>3. client' = [client EXCEPT ![c] = Opened(disk)] /\ UNCHANGED <<disk, history, waived>>
  BY DEF Load
<1>4. QED BY <1>2, <1>3, OnlyClient

LEMMA CloseKeeps == ASSUME FilesInv, NEW c \in Clients, Close(c) PROVE FilesInv'
<1>1. client' = [client EXCEPT ![c] = Closed] /\ UNCHANGED <<disk, history, waived>>
  BY DEF Close
<1>2. QED BY <1>1, ClosedTracks, OnlyClient

\* What an editor knows of its copy.
LEMMA CopyParts ==
    ASSUME FilesInv, NEW c \in Clients
    PROVE  LET copy   == client[c].copy
               meant  == client[c].meant
               stored == client[c].version.flows
           IN  /\ copy \in Doc /\ meant \in Doc /\ stored \in Doc
               /\ meant = Restored(copy, stored)
               /\ DOMAIN meant = DOMAIN copy
               /\ \A i \in DOMAIN copy :
                     /\ copy[i] \in FlowSet /\ meant[i] \in FlowSet
                     /\ meant[i] = PutBack(copy[i], stored)
                     /\ copy[i].password = Sentinel => Key(copy[i]) \in Keys(stored)
<1> DEFINE copy   == client[c].copy
           meant  == client[c].meant
           stored == client[c].version.flows
<1>1. copy \in Doc /\ meant \in Doc /\ stored \in Doc
  BY ClientParts DEF FilesInv
<1>2. /\ Restored(copy, stored) = meant
      /\ \A i \in DOMAIN copy : copy[i].password = Sentinel => Key(copy[i]) \in Keys(stored)
  BY DEF FilesInv, FilesTracked, Tracks
<1> HIDE DEF copy, meant, stored
<1>3. DOMAIN meant = DOMAIN copy /\ \A i \in DOMAIN copy : meant[i] = PutBack(copy[i], stored)
  BY <1>1, <1>2, RestoredDoc
<1>4. \A i \in DOMAIN copy : copy[i] \in FlowSet /\ meant[i] \in FlowSet
  BY <1>1, <1>3, DocParts
<1>5. QED BY <1>1, <1>2, <1>3, <1>4 DEF copy, meant, stored

LEMMA EditFlowKeeps ==
    ASSUME FilesInv, NEW c \in Clients, NEW i \in DOMAIN client[c].copy,
           NEW f \in Changes(client[c].copy[i]), EditFlow(c, i, f)
    PROVE  FilesInv'
<1> DEFINE copy   == client[c].copy
           meant  == client[c].meant
           stored == client[c].version.flows
           g      == [f EXCEPT !.password = IF f.password = Sentinel THEN meant[i].password
                                            ELSE f.password]
           edited == [copy EXCEPT ![i] = f]
           wanted == [meant EXCEPT ![i] = g]
           r      == [client[c] EXCEPT !.copy = edited, !.meant = wanted]
<1>1. client[c] \in ClientSet /\ client \in [Clients -> ClientSet]
  BY DEF FilesInv, FilesTypeOK
<1>2. client' = [client EXCEPT ![c] = r] /\ UNCHANGED <<disk, history, waived>>
  BY <1>1 DEF EditFlow, ClientSet
<1>3. /\ copy \in Doc /\ meant \in Doc /\ stored \in Doc
      /\ DOMAIN meant = DOMAIN copy /\ i \in DOMAIN copy
      /\ \A j \in DOMAIN copy :
            /\ copy[j] \in FlowSet /\ meant[j] \in FlowSet
            /\ meant[j] = PutBack(copy[j], stored)
            /\ copy[j].password = Sentinel => Key(copy[j]) \in Keys(stored)
  BY CopyParts
<1>4. /\ f \in FlowSet /\ Key(f) = Key(copy[i])
      /\ f.password = copy[i].password \/ f.password # Sentinel
  BY <1>3, ChangedFlow
<1> HIDE DEF copy, meant, stored
<1>5. g = PutBack(f, stored)
  <2>1. CASE f.password # Sentinel
    <3>1. g = [f EXCEPT !.password = f.password]
      BY <2>1
    <3>2. QED BY <1>4, <2>1, <3>1, PasswordTwice DEF PutBack
  <2>2. CASE f.password = Sentinel
    <3>1. copy[i].password = Sentinel /\ copy[i] \in FlowSet
      BY <1>3, <1>4, <2>2
    <3>2. meant[i].password = PasswordOf(stored, Key(copy[i]))
      BY <1>3, <3>1, PutBackFlow
    <3>3. QED BY <1>4, <2>2, <3>2 DEF PutBack
  <2>3. QED BY <2>1, <2>2
<1>6. g \in FlowSet
  BY <1>3, <1>4, <1>5, PutBackFlow
<1> HIDE DEF g
<1>7. /\ DOMAIN edited = DOMAIN copy /\ edited = [j \in DOMAIN edited |-> edited[j]]
      /\ edited[i] = f /\ \A j \in DOMAIN copy \ {i} : edited[j] = copy[j]
  BY <1>3
<1>8. /\ DOMAIN wanted = DOMAIN copy /\ wanted = [j \in DOMAIN wanted |-> wanted[j]]
      /\ wanted[i] = g /\ \A j \in DOMAIN copy \ {i} : wanted[j] = meant[j]
  BY <1>3
<1> HIDE DEF edited, wanted
<1>9. edited \in Doc
  BY <1>3, <1>4, <1>7, DocMapped
<1>10. wanted \in Doc
  BY <1>3, <1>6, <1>8, DocMapped
<1>11. Restored(edited, stored) = [j \in DOMAIN edited |-> PutBack(edited[j], stored)]
  BY <1>3, <1>9, RestoredDoc
<1>12. \A j \in DOMAIN edited : PutBack(edited[j], stored) = wanted[j]
  BY <1>3, <1>5, <1>7, <1>8
<1>13. Restored(edited, stored) = wanted
  BY <1>7, <1>8, <1>11, <1>12
<1>14. \A j \in DOMAIN edited : edited[j].password = Sentinel => Key(edited[j]) \in Keys(stored)
  BY <1>3, <1>4, <1>7
<1>15. /\ r \in ClientSet /\ r.copy = edited /\ r.meant = wanted
       /\ r.version = client[c].version
  BY <1>1, <1>9, <1>10 DEF ClientSet
<1> HIDE DEF r
<1>16. Tracks(r)
  <2>1. ~client[c].version.exists => client[c].version = NoFile
    BY DEF FilesInv, FilesTracked, Tracks
  <2>2. r.version.flows = stored
    BY <1>15 DEF stored
  <2>3. QED BY <1>13, <1>14, <1>15, <2>1, <2>2 DEF Tracks
<1>17. QED BY <1>2, <1>15, <1>16, OnlyClient

LEMMA AddFlowKeeps ==
    ASSUME FilesInv, NEW c \in Clients, NEW id \in Ids, AddFlow(c, id) PROVE FilesInv'
<1> DEFINE copy   == client[c].copy
           meant  == client[c].meant
           stored == client[c].version.flows
           f      == NewFlow(id, FALSE)
           r      == [client[c] EXCEPT !.copy = Append(copy, f), !.meant = Append(meant, f)]
<1>1. client[c] \in ClientSet /\ client \in [Clients -> ClientSet]
  BY DEF FilesInv, FilesTypeOK
<1>2. client' = [client EXCEPT ![c] = r] /\ UNCHANGED <<disk, history, waived>>
  BY <1>1 DEF AddFlow, ClientSet
<1>3. /\ copy \in Doc /\ meant \in Doc /\ stored \in Doc /\ meant = Restored(copy, stored)
      /\ \A i \in DOMAIN copy : copy[i].password = Sentinel => Key(copy[i]) \in Keys(stored)
  BY CopyParts
<1>4. f \in FlowSet /\ f.password # Sentinel
  BY NewFlowIs
<1> HIDE DEF copy, meant, stored, f
<1>5. PutBack(f, stored) = f
  BY <1>4 DEF PutBack
<1>6. Restored(Append(copy, f), stored) = Append(meant, f)
  BY <1>3, <1>4, <1>5, RestoredAppend
<1>7. Append(copy, f) \in Doc /\ Append(meant, f) \in Doc
  BY <1>3, <1>4, AppendDoc
<1>8. \A i \in DOMAIN Append(copy, f) :
         Append(copy, f)[i].password = Sentinel => Key(Append(copy, f)[i]) \in Keys(stored)
  <2>1. /\ DOMAIN Append(copy, f) = DOMAIN copy \cup {Len(copy) + 1}
        /\ \A i \in DOMAIN copy : Append(copy, f)[i] = copy[i]
        /\ Append(copy, f)[Len(copy) + 1] = f
    BY <1>3, <1>4, AppendDoc
  <2>2. QED BY <1>3, <1>4, <2>1
<1>9. /\ r \in ClientSet /\ r.copy = Append(copy, f) /\ r.meant = Append(meant, f)
      /\ r.version = client[c].version
  BY <1>1, <1>7 DEF ClientSet
<1> HIDE DEF r
<1>10. Tracks(r)
  <2>1. ~client[c].version.exists => client[c].version = NoFile
    BY DEF FilesInv, FilesTracked, Tracks
  <2>2. r.version.flows = stored
    BY <1>9 DEF stored
  <2>3. QED BY <1>6, <1>8, <1>9, <2>1, <2>2 DEF Tracks
<1>11. QED BY <1>2, <1>9, <1>10, OnlyClient

LEMMA DeleteFlowKeeps ==
    ASSUME FilesInv, NEW c \in Clients, NEW id \in Ids, DeleteFlow(c, id) PROVE FilesInv'
<1> DEFINE copy   == client[c].copy
           meant  == client[c].meant
           stored == client[c].version.flows
           S      == {i \in DOMAIN copy : copy[i].id # id}
           r      == [client[c] EXCEPT !.copy = Kept(copy, S), !.meant = Kept(meant, S)]
<1>1. client[c] \in ClientSet /\ client \in [Clients -> ClientSet]
  BY DEF FilesInv, FilesTypeOK
<1>2. /\ copy \in Doc /\ meant \in Doc /\ stored \in Doc /\ meant = Restored(copy, stored)
      /\ DOMAIN meant = DOMAIN copy
      /\ \A i \in DOMAIN copy :
            /\ copy[i] \in FlowSet /\ meant[i] = PutBack(copy[i], stored)
            /\ copy[i].password = Sentinel => Key(copy[i]) \in Keys(stored)
  BY CopyParts
<1>3. S = {i \in DOMAIN meant : meant[i].id # id}
  <2> HIDE DEF copy, meant, stored
  <2>1. \A i \in DOMAIN copy : meant[i].id = copy[i].id
    BY <1>2, PutBackFlow
  <2>2. QED BY <1>2, <2>1
<1>4. client' = [client EXCEPT ![c] = r] /\ UNCHANGED <<disk, history, waived>>
  BY <1>1, <1>3 DEF DeleteFlow, ClientSet
<1>5. S \in SUBSET DOMAIN copy
  OBVIOUS
<1> HIDE DEF copy, meant, stored, S
<1>6. Restored(Kept(copy, S), stored) = Kept(meant, S)
  BY <1>2, <1>5, RestoredKept
<1>7. Kept(copy, S) \in Doc /\ Kept(meant, S) \in Doc
  BY <1>2, <1>5, KeptDoc
<1>8. \A n \in DOMAIN Kept(copy, S) :
         Kept(copy, S)[n].password = Sentinel => Key(Kept(copy, S)[n]) \in Keys(stored)
  BY <1>2, <1>5, KeptDoc
<1>9. /\ r \in ClientSet /\ r.copy = Kept(copy, S) /\ r.meant = Kept(meant, S)
      /\ r.version = client[c].version
  BY <1>1, <1>7 DEF ClientSet
<1> HIDE DEF r
<1>10. Tracks(r)
  <2>1. ~client[c].version.exists => client[c].version = NoFile
    BY DEF FilesInv, FilesTracked, Tracks
  <2>2. r.version.flows = stored
    BY <1>9 DEF stored
  <2>3. QED BY <1>6, <1>8, <1>9, <2>1, <2>2 DEF Tracks
<1>11. QED BY <1>4, <1>9, <1>10, OnlyClient

LEMMA EditKeeps == ASSUME FilesInv, NEW c \in Clients, Edit(c) PROVE FilesInv'
BY EditFlowKeeps, AddFlowKeeps, DeleteFlowKeeps DEF Edit

LEMMA ProvisionKeeps == ASSUME FilesInv, Provision PROVE FilesInv'
<1> USE DEF FilesInv
<1>1. ~disk.exists /\ disk' = File(Default) /\ UNCHANGED <<history, client, waived>>
  BY DEF Provision
<1>2. disk' \in FileSet /\ disk'.exists /\ disk'.flows = Default
  BY <1>1, DefaultDoc, FileParts
<1>3. FilesTypeOK'
  BY <1>1, <1>2 DEF FilesTypeOK
<1>4. FilesRunnable' /\ FilesScoped'
  BY <1>1, <1>2, DefaultDoc DEF FilesRunnable, FilesScoped
<1>5. FilesTracked'
  BY <1>1, <1>2 DEF FilesTracked
<1>6. QED BY <1>3, <1>4, <1>5

LEMMA WriteFailsKeeps == ASSUME FilesInv, WriteFails PROVE FilesInv'
<1> USE DEF FilesInv
<1>1. history' = history \cup {disk.flows} /\ UNCHANGED <<disk, client, waived>>
  BY DEF WriteFails
<1>2. FilesTypeOK'
  BY <1>1, DiskParts DEF FilesTypeOK
<1>3. FilesRunnable' /\ FilesScoped'
  BY <1>1 DEF FilesRunnable, FilesScoped
<1>4. FilesTracked'
  BY <1>1 DEF FilesTracked
<1>5. QED BY <1>2, <1>3, <1>4

-----------------------------------------------------------------------------
(* FlowFiles: the drafts *)

\* What the draft handlers let through: they look only at what the change brings in, and
\* that is enough, since the document is runnable as it stands.
LEMMA DraftGate ==
    ASSUME FilesInv, NEW flows \in Doc, NEW acknowledged \in BOOLEAN,
           Blocking(Introduced(flows), acknowledged) = {}, Disclosed(flows), Valid(flows)
    PROVE  /\ Runnable(flows)
           /\ waived \/ (acknowledged /\ Misplaces(Introduced(flows))) \/ Scoped(flows)
<1> DEFINE known == Findings(disk.flows, disk.flows)
<1>1. disk.flows \in Doc /\ Runnable(disk.flows) /\ (waived \/ Scoped(disk.flows))
  BY DiskParts DEF FilesInv, FilesRunnable, FilesScoped
<1>2. \A f \in known :
         f.code \notin {"flow-duplicate-id", "draft-target-missing", "permanent-flow-deleted"}
  BY <1>1, CleanShape
<1>3. ~waived => \A f \in known : f.code # "enrollment-node-outside-enrollment-flow"
  BY <1>1, CleanScope
<1>4. Introduced(flows) = Findings(flows, disk.flows) \ known
  BY DEF Introduced
<1> HIDE DEF known
<1>5. known \cap DocumentShape(flows) = {}
  BY <1>2, ShapeCodes
<1>6. DistinctKeys(flows) /\ DraftsPlaced(flows)
  BY <1>4, <1>5, GateShape
<1>7. ASSUME ~waived, ~(acknowledged /\ Misplaces(Introduced(flows))) PROVE Scoped(flows)
  <2>1. \A f \in known : f.code \notin {"permanent-flow-deleted",
                                        "enrollment-node-outside-enrollment-flow"}
    BY <1>2, <1>3, <1>7
  <2>2. QED BY <1>4, <1>7, <2>1, GateScope
<1>8. QED BY <1>6, <1>7 DEF Runnable

\* What is left to show of a handler that writes a document and gives its caller that one.
LEMMA WrittenKeeps ==
    ASSUME FilesInv, NEW c \in Clients, NEW flows \in Doc, Applied(flows), Runnable(flows),
           waived' \in BOOLEAN, waived => waived', waived' \/ Scoped(flows),
           NEW r \in ClientSet, Tracks(r), client' = [client EXCEPT ![c] = r]
    PROVE  FilesInv'
<1> USE DEF FilesInv
<1>1. /\ disk' \in FileSet /\ disk'.exists /\ history' \subseteq Doc
      /\ FilesRunnable' /\ FilesScoped'
  BY AppliedKeeps
<1>2. client' \in [Clients -> ClientSet] /\ FilesTracked'
  BY <1>1, ClientKeeps
<1>3. QED BY <1>1, <1>2 DEF FilesTypeOK

\* An editor whose version is current and who is shown a sentinel has read the document
\* as it stands.
LEMMA CurrentStored ==
    ASSUME FilesInv, NEW c \in Clients, Current(c), disk.exists
    PROVE  LET copy   == client[c].copy
               stored == client[c].version.flows
           IN  \A i \in DOMAIN copy : copy[i].password = Sentinel =>
                  stored = disk.flows /\ Key(copy[i]) \in Keys(disk.flows)
<1> DEFINE copy   == client[c].copy
           stored == client[c].version.flows
<1>1. \A i \in DOMAIN copy : copy[i].password = Sentinel => Key(copy[i]) \in Keys(stored)
  BY CopyParts
<1>2. stored = <<>> \/ stored = disk.flows
  BY DEF Current, NoFile
<1>3. Keys(<<>>) = {}
  BY EmptyDoc DEF Keys
<1> HIDE DEF copy, stored
<1>4. QED BY <1>1, <1>2, <1>3 DEF copy, stored

\* A flow keeps its password when another is put behind it.
LEMMA PasswordAppend ==
    ASSUME NEW flows \in Doc, NEW f \in FlowSet, DistinctKeys(Append(flows, f)),
           NEW key \in Keys(flows)
    PROVE  PasswordOf(Append(flows, f), key) = PasswordOf(flows, key)
<1> DEFINE more == Append(flows, f)
           i == At(flows, key)
<1>1. i \in DOMAIN flows /\ Key(flows[i]) = key
  BY AtKey
<1>2. more[i] = flows[i] /\ i \in DOMAIN more
  BY <1>1, AppendDoc
<1>3. key \in Keys(more)
  BY <1>1, <1>2, KeyIn
<1>4. At(more, key) = i
  <2> HIDE DEF more, i
  <2>1. DistinctKeys(more)
    BY DEF more
  <2>2. QED BY <1>1, <1>2, <2>1, AtDistinct
<1>5. QED BY <1>2, <1>3, <1>4 DEF PasswordOf

\* The put flow's password, too, is found by its key.
LEMMA PasswordAppended ==
    ASSUME NEW flows \in Doc, NEW f \in FlowSet, DistinctKeys(Append(flows, f))
    PROVE  PasswordOf(Append(flows, f), Key(f)) = f.password
<1> DEFINE more == Append(flows, f)
           n == Len(flows) + 1
<1>1. n \in DOMAIN more /\ more[n] = f /\ DistinctKeys(more)
  BY AppendDoc
<1> HIDE DEF more, n
<1>2. Key(f) \in Keys(more) /\ At(more, Key(f)) = n
  BY <1>1, KeyIn, AtDistinct
<1>3. PasswordOf(more, Key(f)) = f.password
  BY <1>1, <1>2 DEF PasswordOf
<1>4. QED BY <1>3 DEF more

\* A flow as the console shows it, put back from a document that has it.
LEMMA ShownFlow ==
    ASSUME NEW f \in FlowSet, f.password # Sentinel, NEW stored \in Doc,
           PasswordOf(stored, Key(f)) = f.password
    PROVE  LET shown == [f EXCEPT !.password = IF f.password = NoPassword THEN f.password
                                               ELSE Sentinel]
           IN  /\ shown \in FlowSet /\ Key(shown) = Key(f)
               /\ PutBack(shown, stored) = f
               /\ Redacted(<<f>>) = <<shown>>
<1> DEFINE p == IF f.password = NoPassword THEN f.password ELSE Sentinel
           shown == [f EXCEPT !.password = p]
<1>1. p \in PasswordField /\ (p = Sentinel \/ p = f.password)
  BY DEF PasswordField
<1>2. /\ Redacted(<<f>>) = [i \in {1} |-> shown]
      /\ <<shown>> = [i \in {1} |-> shown]
  BY DEF Redacted
<1> HIDE DEF p
<1>3. shown \in FlowSet /\ Key(shown) = Key(f) /\ shown.password = p
  BY <1>1, FlowPassword
<1>4. PutBack(shown, stored) = f
  <2>1. CASE p = f.password
    <3>1. shown = f
      BY <2>1, PasswordTwice
    <3>2. QED BY <3>1 DEF PutBack
  <2>2. CASE p = Sentinel
    <3>1. PutBack(shown, stored) = [shown EXCEPT !.password = f.password]
      <4> HIDE DEF shown
      <4>1. QED BY <1>3, <2>2 DEF PutBack
    <3>2. QED BY <3>1, PasswordTwice
  <2>3. QED BY <1>1, <2>1, <2>2
<1>5. QED BY <1>2, <1>3, <1>4 DEF p

LEMMA CreateDraftKeeps ==
    ASSUME FilesInv, NEW c \in Clients, NEW id \in Ids, CreateDraft(c, id) PROVE FilesInv'
<1> DEFINE flows == disk.flows
           draft == DraftOf(flows[At(flows, <<id, FALSE>>)])
           more  == Append(flows, draft)
           copy  == client[c].copy
           meant == client[c].meant
           shown == [draft EXCEPT !.password = IF draft.password = NoPassword
                                               THEN draft.password ELSE Sentinel]
           r     == [client[c] EXCEPT !.copy = Append(copy, shown),
                                      !.meant = Append(meant, draft), !.version = disk']
<1>1. /\ Current(c) /\ disk.exists /\ <<id, FALSE>> \in Keys(flows)
      /\ Blocking(Introduced(more), FALSE) = {} /\ Applied(more)
      /\ waived' = waived /\ waived \in BOOLEAN
  BY DEF CreateDraft, FilesInv, FilesTypeOK
<1>2. flows \in Doc /\ Runnable(flows)
  BY DiskParts DEF FilesInv, FilesRunnable
<1>3. draft \in FlowSet /\ Key(draft) = <<id, TRUE>> /\ draft.password # Sentinel
  <2> DEFINE i == At(flows, <<id, FALSE>>)
  <2>1. i \in DOMAIN flows /\ Key(flows[i]) = <<id, FALSE>>
    BY <1>1, AtKey
  <2>2. flows[i] \in FlowSet /\ flows[i].password # Sentinel /\ flows[i].id = id
    BY <1>2, <2>1, DocParts DEF Runnable, Disclosed, Key
  <2>3. QED BY <2>2, DraftOfFlow
<1>4. client' = [client EXCEPT ![c] = [client[c] EXCEPT !.copy = copy \o Redacted(<<draft>>),
                                  !.meant = Append(meant, draft), !.version = disk']]
  BY DEF CreateDraft, FilesInv, FilesTypeOK, ClientSet
<1>5. /\ copy \in Doc /\ meant \in Doc /\ client[c] \in ClientSet
      /\ meant = Restored(copy, client[c].version.flows)
  BY CopyParts, ClientParts DEF FilesInv
<1>6. \A i \in DOMAIN copy : copy[i].password = Sentinel =>
         client[c].version.flows = flows /\ Key(copy[i]) \in Keys(flows)
  BY <1>1, CurrentStored
<1>7. client[c].version.flows \in Doc
  BY ClientParts DEF FilesInv
<1> HIDE DEF flows, draft, copy, meant
<1>8. more \in Doc /\ Disclosed(more) /\ Valid(more) /\ Keys(more) = Keys(flows) \cup {Key(draft)}
  BY <1>1, <1>2, <1>3, AppendDoc DEF Runnable, Applied
<1>9. Runnable(more) /\ (waived \/ Scoped(more))
  BY <1>1, <1>8, DraftGate
<1>10. DistinctKeys(more)
  BY <1>9 DEF Runnable
<1>11. /\ shown \in FlowSet /\ Key(shown) = Key(draft) /\ PutBack(shown, more) = draft
       /\ Redacted(<<draft>>) = <<shown>>
  <2>1. PasswordOf(more, Key(draft)) = draft.password
    BY <1>2, <1>3, <1>10, PasswordAppended
  <2> HIDE DEF more
  <2>2. QED BY <1>3, <1>8, <2>1, ShownFlow
<1>12. Restored(copy, more) = meant
  <2>1. ASSUME NEW i \in DOMAIN copy, copy[i].password = Sentinel
        PROVE  PasswordOf(more, Key(copy[i])) = PasswordOf(client[c].version.flows, Key(copy[i]))
    BY <1>2, <1>3, <1>6, <1>10, <2>1, PasswordAppend
  <2> HIDE DEF more
  <2>2. QED BY <1>5, <1>7, <1>8, <2>1, RestoredAlike
<1>13. disk' = File(more)
  BY <1>1 DEF Applied
<1> HIDE DEF more, shown
<1>14. copy \o <<shown>> = Append(copy, shown)
  BY <1>5, <1>11 DEF Doc
<1>15. /\ Append(copy, shown) \in Doc /\ Append(meant, draft) \in Doc
       /\ Restored(Append(copy, shown), more) = Append(meant, draft)
  <2>1. Append(copy, shown) \in Doc /\ Append(meant, draft) \in Doc
    BY <1>3, <1>5, <1>11, AppendDoc
  <2>2. Restored(Append(copy, shown), more) = Append(Restored(copy, more), PutBack(shown, more))
    BY <1>5, <1>8, <1>11, RestoredAppend
  <2>3. QED BY <1>11, <1>12, <2>1, <2>2
<1>16. \A i \in DOMAIN Append(copy, shown) : Append(copy, shown)[i].password = Sentinel =>
          Key(Append(copy, shown)[i]) \in Keys(more)
  BY <1>5, <1>6, <1>8, <1>11, AppendDoc
<1>17. disk' \in FileSet /\ disk'.exists /\ disk'.flows = more
  BY <1>8, <1>13, FileParts
<1>18. /\ r \in ClientSet /\ r.copy = Append(copy, shown) /\ r.meant = Append(meant, draft)
       /\ r.version = disk'
  BY <1>5, <1>15, <1>17 DEF ClientSet
<1>19. client' = [client EXCEPT ![c] = r]
  BY <1>4, <1>11, <1>14
<1> HIDE DEF r
<1>20. Tracks(r)
  BY <1>15, <1>16, <1>17, <1>18 DEF Tracks
<1>21. QED BY <1>1, <1>8, <1>9, <1>18, <1>19, <1>20, WrittenKeeps

LEMMA PromoteKeeps ==
    ASSUME FilesInv, NEW c \in Clients, NEW id \in Ids, Promote(c, id) PROVE FilesInv'
<1> DEFINE flows == Promoted(disk.flows, id)
<1>1. /\ {<<id, FALSE>>, <<id, TRUE>>} \subseteq Keys(disk.flows) /\ Applied(flows)
      /\ client' = [client EXCEPT ![c] = Opened(disk')]
  BY DEF Promote
<1>2. PICK acknowledged \in BOOLEAN :
         /\ Blocking(Introduced(flows), acknowledged) = {}
         /\ waived' = (waived \/ (acknowledged /\ Misplaces(Introduced(flows))))
  BY DEF Promote
<1>3. disk.flows \in Doc /\ Disclosed(disk.flows)
  BY DiskParts DEF FilesInv, FilesRunnable, Runnable
<1>4. flows \in Doc /\ Disclosed(flows)
  BY <1>1, <1>3, PromotedDoc
<1> HIDE DEF flows
<1>5. /\ Runnable(flows)
      /\ waived \/ (acknowledged /\ Misplaces(Introduced(flows))) \/ Scoped(flows)
  BY <1>1, <1>2, <1>4, DraftGate DEF Applied
<1>6. waived' \in BOOLEAN /\ (waived => waived') /\ (waived' \/ Scoped(flows))
  BY <1>2, <1>5
<1>7. disk' = File(flows)
  BY <1>1 DEF Applied
<1>8. Opened(disk') \in ClientSet /\ Tracks(Opened(disk'))
  BY <1>4, <1>5, <1>7, FileParts, OpenedTracks
<1>9. QED BY <1>1, <1>4, <1>5, <1>6, <1>8, WrittenKeeps

\* A flow keeps its password when a draft of another is dropped.
LEMMA PasswordWithout ==
    ASSUME NEW flows \in Doc, DistinctKeys(flows), NEW gone, NEW key \in Keys(flows) \ {gone}
    PROVE  PasswordOf(Without(flows, gone), key) = PasswordOf(flows, key)
<1> DEFINE less == Without(flows, gone)
           n == At(less, key)
<1>1. /\ key \in Keys(less) /\ DistinctKeys(less)
      /\ \A m \in DOMAIN less : \E i \in DOMAIN flows : less[m] = flows[i]
  BY WithoutDoc
<1> HIDE DEF less
<1>2. n \in DOMAIN less /\ Key(less[n]) = key
  BY <1>1, AtKey
<1>3. PICK i \in DOMAIN flows : less[n] = flows[i]
  BY <1>1, <1>2
<1>4. At(flows, key) = i
  BY <1>2, <1>3, AtDistinct
<1>5. PasswordOf(less, key) = PasswordOf(flows, key)
  BY <1>1, <1>3, <1>4 DEF PasswordOf
<1>6. QED BY <1>5 DEF less

LEMMA DiscardKeeps ==
    ASSUME FilesInv, NEW c \in Clients, NEW id \in Ids, Discard(c, id) PROVE FilesInv'
<1> DEFINE flows == disk.flows
           key   == <<id, TRUE>>
           less  == Without(flows, key)
           copy  == client[c].copy
           meant == client[c].meant
           stored == client[c].version.flows
           S     == {i \in DOMAIN copy : Key(copy[i]) # key}
           r     == [client[c] EXCEPT !.copy = Without(copy, key),
                                      !.meant = Without(meant, key), !.version = disk']
<1>1. /\ Current(c) /\ key \in Keys(flows) /\ Applied(less)
      /\ waived' = waived /\ waived \in BOOLEAN
  BY DEF Discard, FilesInv, FilesTypeOK
<1>2. flows \in Doc /\ Runnable(flows) /\ (waived \/ Scoped(flows))
  BY DiskParts DEF FilesInv, FilesRunnable, FilesScoped
<1>3. disk.exists
  <2>1. flows # <<>>
    BY <1>1, EmptyDoc DEF Keys
  <2>2. QED BY <2>1, DiskParts DEF FilesInv
<1>4. client' = [client EXCEPT ![c] = r]
  BY DEF Discard, FilesInv, FilesTypeOK, ClientSet
<1>5. /\ copy \in Doc /\ meant \in Doc /\ stored \in Doc /\ client[c] \in ClientSet
      /\ meant = Restored(copy, stored)
  BY CopyParts, ClientParts DEF FilesInv
<1>6. \A i \in DOMAIN copy : copy[i].password = Sentinel =>
         stored = flows /\ Key(copy[i]) \in Keys(flows)
  BY <1>1, <1>3, CurrentStored
<1> HIDE DEF flows, key, copy, meant, stored
<1>7. Runnable(less) /\ less \in Doc /\ Keys(less) = Keys(flows) \ {key}
  BY <1>1, <1>2, WithoutDoc, WithoutDraft DEF Runnable, Applied, key
<1>8. waived \/ Scoped(less)
  BY <1>2, ScopedWithout DEF key
<1>9. Without(copy, key) = Kept(copy, S)
  BY DEF Without
<1>10. Without(meant, key) = Kept(meant, S)
  <2>1. DOMAIN meant = DOMAIN copy /\ \A i \in DOMAIN copy : Key(meant[i]) = Key(copy[i])
    BY <1>5, RestoredDoc
  <2>2. S = {i \in DOMAIN meant : Key(meant[i]) # key}
    BY <2>1
  <2>3. QED BY <2>2 DEF Without
<1>11. S \in SUBSET DOMAIN copy /\ \A i \in S : Key(copy[i]) # key
  OBVIOUS
<1>12. disk' = File(less)
  BY <1>1 DEF Applied
<1> HIDE DEF less, S
<1>13. /\ Kept(copy, S) \in Doc /\ Kept(meant, S) \in Doc
       /\ \A n \in DOMAIN Kept(copy, S) : \E i \in S : Kept(copy, S)[n] = copy[i]
  <2>1. DOMAIN meant = DOMAIN copy
    BY <1>5, RestoredDoc
  <2>2. QED BY <1>5, <1>11, <2>1, KeptDoc
<1>14. \A n \in DOMAIN Kept(copy, S) : Kept(copy, S)[n].password = Sentinel =>
          /\ stored = flows
          /\ Key(Kept(copy, S)[n]) \in Keys(flows) \ {key}
  BY <1>6, <1>11, <1>13
<1>15. Restored(Kept(copy, S), less) = Kept(meant, S)
  <2>1. Restored(Kept(copy, S), stored) = Kept(meant, S)
    BY <1>5, <1>11, RestoredKept
  <2>2. ASSUME NEW n \in DOMAIN Kept(copy, S), Kept(copy, S)[n].password = Sentinel
        PROVE  PasswordOf(less, Key(Kept(copy, S)[n])) = PasswordOf(stored, Key(Kept(copy, S)[n]))
    BY <1>2, <1>14, <2>2, PasswordWithout DEF less, Runnable
  <2>3. QED BY <1>5, <1>7, <1>13, <2>1, <2>2, RestoredAlike
<1>16. disk' \in FileSet /\ disk'.exists /\ disk'.flows = less
  BY <1>7, <1>12, FileParts
<1>17. /\ r \in ClientSet /\ r.copy = Kept(copy, S) /\ r.meant = Kept(meant, S)
       /\ r.version = disk'
  BY <1>5, <1>9, <1>10, <1>13, <1>16 DEF ClientSet
<1> HIDE DEF r
<1>18. Tracks(r)
  BY <1>7, <1>14, <1>15, <1>16, <1>17 DEF Tracks
<1>19. QED BY <1>1, <1>4, <1>7, <1>8, <1>17, <1>18, WrittenKeeps

-----------------------------------------------------------------------------
(* FlowFiles: the invariant, and what follows from it *)

LEMMA FilesStart == FilesInit => FilesInv
<1> SUFFICES ASSUME FilesInit PROVE FilesInv
  OBVIOUS
<1>1. /\ history = {} /\ client = [c \in Clients |-> Closed] /\ waived = FALSE
  BY DEF FilesInit
<1>2. /\ disk \in FileSet /\ (~disk.exists => disk = NoFile)
      /\ Runnable(disk.flows) /\ Scoped(disk.flows)
  <2>1. CASE disk = NoFile
    <3>1. disk \in FileSet /\ disk.flows = <<>>
      BY <2>1, EmptyDoc DEF NoFile, FileSet
    <3>2. Runnable(<<>>) /\ Scoped(<<>>)
      <4>1. LiveFlows(<<>>) = {} /\ Marked(<<>>) = {}
        BY EmptyDoc DEF LiveFlows, Marked
      <4>2. Valid(<<>>)
        BY <4>1, FS_EmptySet DEF Valid
      <4>3. QED BY <4>2, EmptyDoc DEF Runnable, DistinctKeys, DraftsPlaced, Disclosed, Scoped
    <3>3. QED BY <2>1, <3>1, <3>2
  <2>2. ASSUME NEW id \in Ids \ {First}, NEW p \in Passwords, NEW q \in Passwords,
               disk = File(<<[Default[1] EXCEPT !.password = p],
                             [NewFlow(id, FALSE) EXCEPT !.password = q]>>)
        PROVE  /\ disk \in FileSet /\ disk.exists
               /\ Runnable(disk.flows) /\ Scoped(disk.flows)
    <3> DEFINE flows == <<[Default[1] EXCEPT !.password = p],
                          [NewFlow(id, FALSE) EXCEPT !.password = q]>>
    <3>1. flows \in Doc /\ Runnable(flows) /\ Scoped(flows)
      BY TwoFlows
    <3>2. disk = File(flows)
      BY <2>2
    <3> HIDE DEF flows
    <3>3. QED BY <3>1, <3>2, FileParts
  <2>3. QED BY <2>1, <2>2 DEF FilesInit
<1>3. \A c \in Clients : client[c] = Closed
  BY <1>1
<1>4. FilesTypeOK
  BY <1>1, <1>2, ClosedTracks DEF FilesTypeOK
<1>5. FilesRunnable /\ FilesScoped
  BY <1>1, <1>2 DEF FilesRunnable, FilesScoped
<1>6. FilesTracked
  BY <1>3, ClosedTracks DEF FilesTracked
<1>7. QED BY <1>4, <1>5, <1>6 DEF FilesInv

LEMMA FilesKept == FilesInv /\ [FilesNext]_filesVars => FilesInv'
<1> SUFFICES ASSUME FilesInv, [FilesNext]_filesVars PROVE FilesInv'
  OBVIOUS
<1>1. ASSUME NEW c \in Clients, Load(c) \/ Close(c) \/ Edit(c) PROVE FilesInv'
  BY <1>1, LoadKeeps, CloseKeeps, EditKeeps
<1>2. ASSUME NEW c \in Clients, Requests(c) PROVE FilesInv'
  <2>1. CASE SaveCopy(c) \/ SaveBlind(c) \/ Restore(c)
    BY <2>1, SaveCopyKeeps, SaveBlindKeeps, RestoreKeeps
  <2>2. ASSUME NEW id \in Ids, CreateDraft(c, id) \/ Promote(c, id) \/ Discard(c, id)
        PROVE  FilesInv'
    BY <2>2, CreateDraftKeeps, PromoteKeeps, DiscardKeeps
  <2>3. QED BY <1>2, <2>1, <2>2 DEF Requests
<1>3. CASE Provision \/ WriteFails
  BY <1>3, ProvisionKeeps, WriteFailsKeeps
<1>4. CASE UNCHANGED filesVars
  BY <1>4 DEF filesVars, FilesInv, FilesTypeOK, FilesRunnable, FilesScoped, FilesTracked
<1>5. QED BY <1>1, <1>2, <1>3, <1>4 DEF FilesNext

LEMMA FilesInvariant == FilesSpec => []FilesInv
BY FilesStart, FilesKept, PTL DEF FilesSpec

\* Flows with keys of their own are as many as their keys.
LEMMA KeysCounted ==
    ASSUME NEW flows \in Doc, DistinctKeys(flows)
    PROVE  Cardinality(Keys(flows)) = Len(flows)
<1> DEFINE keyAt == [i \in DOMAIN flows |-> Key(flows[i])]
<1>1. keyAt \in Bijection(DOMAIN flows, Keys(flows))
  BY DEF Bijection, Injection, Surjection, IsInjective, Keys, DistinctKeys
<1>2. DOMAIN flows = 1..Len(flows) /\ Len(flows) \in Nat
  BY DocParts
<1>3. IsFiniteSet(DOMAIN flows) /\ Cardinality(DOMAIN flows) = Len(flows)
  <2> DEFINE n == Len(flows)
  <2> HIDE DEF n
  <2>1. n \in Nat
    BY <1>2 DEF n
  <2>2. IsFiniteSet(1..n) /\ Cardinality(1..n) = n
    BY <2>1, FS_Interval
  <2>3. QED BY <1>2, <2>2 DEF n
<1>4. QED BY <1>1, <1>3, FS_Bijection DEF ExistsBijection

LEMMA WellFormedHolds == FilesInv => WellFormed
<1> SUFFICES ASSUME FilesInv PROVE WellFormed
  OBVIOUS
<1>1. disk.flows \in Doc /\ Runnable(disk.flows)
  BY DiskParts DEF FilesInv, FilesRunnable
<1>2. QED BY <1>1, KeysCounted DEF Runnable, WellFormed, DraftsPlaced, Disclosed

\* The document of flows stays one the engine can run, whatever the editors do to it
\* between them (api/routes/config.py, services/flow_drafts.py).
THEOREM FilesStayRunnable == FilesSpec => []WellFormed
BY FilesInvariant, WellFormedHolds, PTL

LEMMA ScopedHolds == FilesInv => SetupStepsScoped
BY DEF FilesInv, FilesScoped, Scoped, SetupStepsScoped

\* No Setup Assistant step gets out of the enrollment flow unless somebody acknowledges
\* it: no draft, restore or save over another's work takes it there (_check_scoping).
THEOREM SetupStaysScoped == FilesSpec => []SetupStepsScoped
BY FilesInvariant, ScopedHolds, PTL

LEMMA SaveIsMeant ==
    ASSUME FilesInv, NEW c \in Clients, SaveCopy(c), client[c].version # NoFile
    PROVE  disk'.flows = client[c].meant
<1>1. client[c].version.exists /\ disk.exists /\ Tracks(client[c])
  BY DEF FilesInv, FilesTracked, Tracks
<1>2. client[c].version = disk
  BY <1>1 DEF SaveCopy, Current, NoFile
<1>3. disk' = File(Restored(client[c].copy, disk.flows))
  BY DEF SaveCopy, Put, Applied
<1>4. QED BY <1>1, <1>2, <1>3 DEF Tracks, File

\* A save that names the version it was based on writes what its editor means: every
\* password back where it was, and nothing of anybody else's undone
\* (_check_config_version, _restore_flow_secrets).
THEOREM SavesKeepTheWord == FilesSpec => SavedAsMeant
<1>1. FilesInv /\ [FilesNext]_filesVars =>
         [\A c \in Clients : SaveCopy(c) /\ client[c].version # NoFile
             => disk'.flows = client[c].meant]_filesVars
  BY SaveIsMeant
<1>2. QED BY <1>1, FilesInvariant, PTL DEF FilesSpec, SavedAsMeant
=============================================================================
