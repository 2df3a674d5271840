------------------------- MODULE DeclarationsProofs -------------------------
(* Proofs about Declarations, for any declarations, any scope, any callers  *)
(* and any bound on the disturbances.                                       *)
EXTENDS Declarations, TLAPS

----------------------------------------------------------------------------
(* The inductive invariant. Between its send and its save a sync carries in *)
(* memory the set it has sent; that set is still one this enrollment was    *)
(* sent when it becomes the published one.                                  *)
SavesWhatWasSent == \A p \in Callers : sync[p].pc = "save" => sync[p].set \in told

(* The records have the fields that the updates change.                     *)
Shape ==
    /\ {"published", "failure"} \subseteq DOMAIN row
    /\ DOMAIN sync = Callers
    /\ \A p \in Callers : {"pc", "set", "row"} \subseteq DOMAIN sync[p]

IInv == Shape /\ SavesWhatWasSent /\ PublishedWasSent

LEMMA IdleFields ==
    /\ {"pc", "set", "row"} \subseteq DOMAIN Idle
    /\ Idle.pc = "idle"
BY DEF Idle

(* A step that leaves what was sent alone, and neither takes a sync to its  *)
(* save nor changes what one under way will save nor publishes anything.    *)
Quiet ==
    /\ told \subseteq told'
    /\ row'.published \in {row.published, Nothing}
    /\ {"published", "failure"} \subseteq DOMAIN row'
    /\ DOMAIN sync' = Callers
    /\ \A p \in Callers : /\ {"pc", "set", "row"} \subseteq DOMAIN sync'[p]
                          /\ sync'[p].pc = "save" => /\ sync[p].pc = "save"
                                                     /\ sync'[p].set = sync[p].set

LEMMA QuietKeeps == IInv /\ Quiet => IInv'
BY DEF IInv, Quiet, Shape, SavesWhatWasSent, PublishedWasSent

LEMMA ServerUntouched == IInv /\ UNCHANGED server /\ told \subseteq told' => IInv'
<1>1. SUFFICES ASSUME IInv, UNCHANGED server, told \subseteq told' PROVE Quiet
  BY QuietKeeps
<1>2. row' = row /\ sync' = sync
  BY <1>1 DEF server
<1>3. QED BY <1>1, <1>2 DEF Quiet, IInv, Shape

----------------------------------------------------------------------------
(* One lemma for each step that does more.                                  *)
LEMMA BeginSyncKeeps == ASSUME IInv, NEW p \in Callers, BeginSync(p) PROVE IInv'
<1>1. {"pc", "set", "row"} \subseteq DOMAIN sync'[p] /\ sync'[p].pc = "decide"
  BY IdleFields DEF IInv, Shape, BeginSync
<1>2. DOMAIN sync' = Callers /\ \A q \in Callers \ {p} : sync'[q] = sync[q]
  BY DEF IInv, Shape, BeginSync
<1>3. told' = told
  BY DEF BeginSync
<1>4. /\ row'.published \in {row.published, Nothing}
      /\ {"published", "failure"} \subseteq DOMAIN row'
  BY DEF IInv, Shape, BeginSync
<1>5. Quiet
  BY <1>1, <1>2, <1>3, <1>4 DEF Quiet, IInv, Shape
<1>6. QED BY <1>5, QuietKeeps

LEMMA DecideKeeps == ASSUME IInv, NEW p \in Callers, Decide(p) PROVE IInv'
<1>1. PICK s : sync' = [sync EXCEPT ![p] = IF s[1] THEN Idle
                                           ELSE [sync[p] EXCEPT !.pc = "send", !.set = s[2]]]
  <2> DEFINE mine == sync[p]
             set == Desired(mine.cfg[1], mine.cfg[2], open, mine.cfg[3])
             quits == p # "command" /\ ((set = mine.row.published /\ mine.row.started)
                                          \/ HeldOff(set, mine.row.failure))
  <2>1. sync' = [sync EXCEPT ![p] = IF quits THEN Idle
                                    ELSE [sync[p] EXCEPT !.pc = "send", !.set = set]]
    BY DEF Decide
  <2> HIDE DEF quits, set
  <2>2. QED BY <2>1, <<quits, set>>[1] = quits, <<quits, set>>[2] = set
<1>2. {"pc", "set", "row"} \subseteq DOMAIN sync'[p] /\ sync'[p].pc # "save"
  BY <1>1, IdleFields DEF IInv, Shape
<1>3. DOMAIN sync' = Callers /\ \A q \in Callers \ {p} : sync'[q] = sync[q]
  BY <1>1 DEF IInv, Shape
<1>4. told' = told /\ row' = row
  BY DEF Decide
<1>5. Quiet
  BY <1>2, <1>3, <1>4 DEF Quiet, IInv, Shape
<1>6. QED BY <1>5, QuietKeeps

LEMMA AcceptedKeeps == ASSUME IInv, NEW p \in Callers, Accepted(p) PROVE IInv'
<1>1. told' = told \cup {sync[p].set} /\ row' = row
  BY DEF Accepted, Enqueued
<1>2. /\ {"pc", "set", "row"} \subseteq DOMAIN sync'[p]
      /\ sync'[p].set = sync[p].set
  BY DEF Accepted, IInv, Shape
<1>3. DOMAIN sync' = Callers /\ \A q \in Callers \ {p} : sync'[q] = sync[q]
  BY DEF Accepted, IInv, Shape
<1>4. Shape'
  BY <1>1, <1>2, <1>3 DEF IInv, Shape
<1>5. SavesWhatWasSent'
  BY <1>1, <1>2, <1>3 DEF IInv, SavesWhatWasSent
<1>6. PublishedWasSent'
  BY <1>1 DEF IInv, PublishedWasSent
<1>7. QED BY <1>4, <1>5, <1>6 DEF IInv

LEMMA RefusedKeeps ==
    ASSUME IInv, NEW p \in Callers, NEW reached \in BOOLEAN, Refused(p, reached) PROVE IInv'
<1>1. told \subseteq told'
  BY DEF Refused, Enqueued
<1>2. sync' = [sync EXCEPT ![p] = Idle]
  BY DEF Refused
<1>3. row'.published = row.published /\ {"published", "failure"} \subseteq DOMAIN row'
  BY DEF Refused, IInv, Shape
<1>4. Quiet
  BY <1>1, <1>2, <1>3, IdleFields DEF Quiet, IInv, Shape
<1>5. QED BY <1>4, QuietKeeps

LEMMA SavePublishedKeeps == ASSUME IInv, NEW p \in Callers, SavePublished(p) PROVE IInv'
<1>1. told' = told /\ sync' = [sync EXCEPT ![p] = Idle]
  BY DEF SavePublished
<1>2. row'.published = sync[p].set /\ {"published", "failure"} \subseteq DOMAIN row'
  BY DEF SavePublished, IInv, Shape
<1>3. sync[p].set \in told
  BY DEF SavePublished, IInv, SavesWhatWasSent
<1>4. Shape'
  BY <1>1, <1>2, IdleFields DEF IInv, Shape
<1>5. SavesWhatWasSent'
  BY <1>1, IdleFields DEF IInv, Shape, SavesWhatWasSent
<1>6. PublishedWasSent'
  BY <1>1, <1>2, <1>3 DEF PublishedWasSent
<1>7. QED BY <1>4, <1>5, <1>6 DEF IInv

LEMMA EnrollmentKeeps ==
    ASSUME "reenroll" \notin Overlaps, IInv, CheckOut \/ Reenroll
    PROVE  IInv'
<1>1. row'.published = Nothing /\ {"published", "failure"} \subseteq DOMAIN row'
  BY DEF CheckOut, Reenroll, IInv, Shape
<1>2. sync' = sync /\ \A p \in Callers : sync[p].pc \in {"idle", "decide"}
  BY DEF CheckOut, Reenroll, Undisturbed
<1>3. QED BY <1>1, <1>2 DEF IInv, Shape, SavesWhatWasSent, PublishedWasSent

LEMMA RowOnlyKeeps ==
    ASSUME IInv, HandleAnswer \/ \E full, lost \in BOOLEAN : Report(full, lost)
    PROVE  IInv'
<1>1. told' = told /\ sync' = sync
  BY DEF HandleAnswer, Report
<1>2. /\ row'.published \in {row.published, Nothing}
      /\ {"published", "failure"} \subseteq DOMAIN row'
  <2>1. CASE HandleAnswer
    BY <2>1 DEF HandleAnswer, IInv, Shape
  <2>2. ASSUME NEW full \in BOOLEAN, NEW lost \in BOOLEAN, Report(full, lost)
        PROVE  row'.published = row.published /\ {"published", "failure"} \subseteq DOMAIN row'
    <3>1. PICK s : row' = [row EXCEPT !.status = s, !.lacks = Exotic]
      BY <2>2 DEF Report
    <3>2. QED BY <3>1 DEF IInv, Shape
  <2>3. QED BY <2>1, <2>2
<1>3. Quiet
  BY <1>1, <1>2 DEF Quiet, IInv, Shape
<1>4. QED BY <1>3, QuietKeeps

LEMMA TickKeeps == IInv /\ Tick => IInv'
<1>1. SUFFICES ASSUME IInv, Tick PROVE Quiet
  BY QuietKeeps
<1>2. told' = told
  BY <1>1 DEF Tick
<1>3. row'.published = row.published /\ {"published", "failure"} \subseteq DOMAIN row'
  BY <1>1 DEF Tick, IInv, Shape
<1>4. DOMAIN sync' = Callers
  BY <1>1 DEF Tick
<1>5. ASSUME NEW p \in Callers
      PROVE  /\ {"pc", "set", "row"} \subseteq DOMAIN sync'[p]
             /\ sync'[p].pc = sync[p].pc /\ sync'[p].set = sync[p].set
  <2>1. sync'[p] = IF sync[p].pc = "decide"
                   THEN [sync[p] EXCEPT !.row.failure = Older(@)] ELSE sync[p]
    BY <1>1 DEF Tick
  <2>2. QED BY <1>1, <2>1 DEF IInv, Shape
<1>6. QED BY <1>2, <1>3, <1>4, <1>5 DEF Quiet

LEMMA RestartKeeps == IInv /\ Restart => IInv'
<1>1. SUFFICES ASSUME IInv, Restart PROVE Quiet
  BY QuietKeeps
<1>2. QED BY <1>1, IdleFields DEF Quiet, Restart, IInv, Shape

----------------------------------------------------------------------------
LEMMA InitHolds == Init => IInv
<1>1. SUFFICES ASSUME Init PROVE IInv
  OBVIOUS
<1>2. QED BY <1>1, IdleFields DEF Init, IInv, Shape, SavesWhatWasSent, PublishedWasSent

LEMMA StepKeeps ==
    ASSUME "reenroll" \notin Overlaps, IInv, [Next]_vars
    PROVE  IInv'
<1>1. CASE \E p \in Callers : \/ BeginSync(p) \/ Decide(p) \/ Accepted(p) \/ SavePublished(p)
                              \/ \E reached \in BOOLEAN : Refused(p, reached)
  BY <1>1, BeginSyncKeeps, DecideKeeps, AcceptedKeeps, SavePublishedKeeps, RefusedKeeps
<1>2. CASE HandleAnswer \/ \E full, lost \in BOOLEAN : Report(full, lost)
  BY <1>2, RowOnlyKeeps
<1>3. CASE CheckOut \/ Reenroll
  BY <1>3, EnrollmentKeeps
<1>4. CASE Tick
  BY <1>4, TickKeeps
<1>5. CASE Restart
  BY <1>5, RestartKeeps
<1>6. ASSUME \/ DiscardAnswer \/ DeviceGetsManifest \/ DeviceApplies \/ CacheExpires
             \/ Edit \/ UNCHANGED vars
             \/ \E ok \in BOOLEAN : DeviceSyncs(ok)
             \/ \E i \in Items \cup {"properties"} : DeviceFetches(i)
      PROVE  UNCHANGED server /\ told' = told
  BY <1>6 DEF DiscardAnswer, DeviceGetsManifest, DeviceApplies, CacheExpires, Edit,
              DeviceSyncs, DeviceFetches, vars, server
<1>7. QED BY <1>1, <1>2, <1>3, <1>4, <1>5, <1>6, ServerUntouched DEF Next

(* As long as no device enrolls again while a sync of it is under way, the  *)
(* published token is never one that this enrollment was not sent: the      *)
(* reconciler takes no device for in sync that is not                       *)
(* (ddm_manager.sync_device, _reenroll, apply_unenroll).                    *)
THEOREM PublishedAlwaysWasSent ==
    ASSUME "reenroll" \notin Overlaps
    PROVE  Spec => []PublishedWasSent
<1>1. Init => IInv
  BY InitHolds
<1>2. IInv /\ [Next]_vars => IInv'
  BY StepKeeps
<1>3. IInv => PublishedWasSent
  BY DEF IInv
<1>4. QED BY <1>1, <1>2, <1>3, PTL DEF Spec

----------------------------------------------------------------------------
(* What the device holds, and what the console has heard of it. Without     *)
(* reverts a declaration that the server has stopped serving is never       *)
(* served again: it is superseded, not supported, or removed.               *)
Onwards == {"revert", "warm"} \cap Overlaps = {}

Gone(d) ==
    \/ d[1] \in Items /\ d[2] \in 1..(1 + events) /\ d[2] # cfg[d[1]]
    \/ d[1] \in row.lacks
    \/ d[1] = "properties" /\ d[2] = 1 /\ tagged
Settled(d) == d \in Current \/ Gone(d)

Fields ==
    /\ {"status", "lacks"} \subseteq DOMAIN row
    /\ {"pc", "token", "want", "held", "reported"} \subseteq DOMAIN device
Counted ==
    /\ cfg \in [Items -> 0..(1 + events)] /\ events \in Nat
    /\ tagged \in BOOLEAN /\ open \in BOOLEAN

(* The cache never serves a set of another time.                            *)
CacheTrue ==
    cache = NotCached \/ cache.set = Desired(cache.key[1], cache.key[2], open, cache.key[3])

(* Until its first report the console knows nothing of the device.          *)
Supports == row.lacks = Exotic \/ (row.lacks = {} /\ row.status = {})

(* What the device lacks of the set it fetches, it has yet to ask for, or   *)
(* the server no longer has.                                                *)
Single(S) == \A d, e \in S : d[1] = e[1] => d = e
Fetching ==
    /\ device.pc # "fetch" => device.want = {}
    /\ Single(device.held) /\ Single(device.token)
    /\ device.want \subseteq device.token
    /\ device.token = Nothing => device.held = {} /\ device.want = {}
    /\ Ids(device.held) \subseteq Ids(device.token)
    /\ device.token # Nothing =>
          \A t \in device.token : t \in device.held \/ t \in device.want \/ Gone(t)
Settling == \A d \in device.held \cup device.want : Settled(d)

(* The console agrees with the device's last report, but for what a report  *)
(* that is under way has already told it, and what is gone.                 *)
Heard ==
    /\ \A d \in row.status, t \in device.reported :
          d[1] = t[1] => d = t \/ (device.pc = "report" /\ d \in device.held)
    /\ \A t \in device.reported :
          t \in row.status \/ Gone(t) \/ (device.pc = "report" /\ t \notin device.held)

World == Fields /\ Counted /\ CacheTrue /\ Supports
DInv == World /\ Fetching /\ Settling /\ Heard /\ SettledIsTrue

LEMMA OfDesired ==
    ASSUME NEW c, NEW t, NEW w, NEW l, NEW d
    PROVE  d \in Desired(c, t, w, l) <=>
              \/ \E i \in Items \ l : /\ d = <<i, c[i]>> /\ c[i] # 0
                                      /\ (i \in Tagged => t) /\ (i \in Waves => w)
              \/ d = <<"properties", IF t THEN 2 ELSE 1>>
BY DEF Desired

LEMMA OfCurrent ==
    ASSUME NEW d
    PROVE  d \in Current <=>
              \/ \E i \in Items \ row.lacks : /\ d = <<i, cfg[i]>> /\ cfg[i] # 0
                                              /\ (i \in Tagged => tagged) /\ (i \in Waves => open)
              \/ d = <<"properties", IF tagged THEN 2 ELSE 1>>
BY OfDesired DEF Current

(* A set has one declaration of an id, and the published one is never the   *)
(* token of a device that has none.                                         *)
LEMMA CurrentSingle == Single(Current) /\ Current # Nothing
<1>1. ASSUME NEW d \in Current, NEW e \in Current, d[1] = e[1] PROVE d = e
  BY <1>1, OfCurrent, DeclarationsAssumption
<1>2. <<"properties", IF tagged THEN 2 ELSE 1>> \in Current
  BY OfCurrent
<1>3. <<"properties", IF tagged THEN 2 ELSE 1>> # <<"none", 0>>
  OBVIOUS
<1>4. QED BY <1>1, <1>2, <1>3 DEF Single, Nothing

LEMMA GoneIsOver == ASSUME World, NEW d, Gone(d) PROVE d \notin Current
<1>1. row.lacks \subseteq Items
  BY DeclarationsAssumption DEF World, Supports
<1>2. QED BY <1>1, OfCurrent, DeclarationsAssumption DEF Gone, World, Counted

LEMMA ServesCurrent == World => Served = Current
<1>1. SUFFICES ASSUME World, cache.key = Fingerprint PROVE cache.set = Current
  BY DEF Served
<1>2. cache # NotCached
  BY <1>1 DEF NotCached, Fingerprint
<1>3. QED BY <1>1, <1>2 DEF World, CacheTrue, Fingerprint, Current

(* How the world changes: an item gets a content it never had or goes, and  *)
(* a tag, a wave and what the device lacks only come.                       *)
Ages ==
    /\ events' \in {events, events + 1} /\ (tagged => tagged') /\ (open => open')
    /\ row.lacks \subseteq row'.lacks
    /\ \A i \in Items : \/ cfg'[i] = cfg[i] \/ cfg'[i] = 0
                        \/ cfg'[i] = 2 + events /\ events' = events + 1

LEMMA StaysSettled ==
    ASSUME World, World', Ages, NEW d
    PROVE  (Gone(d) => Gone(d)') /\ (Settled(d) => Settled(d)')
<1>1. ASSUME Gone(d) PROVE Gone(d)'
  BY <1>1 DEF Gone, Ages, World, Counted
<1>2. ASSUME d \in Current PROVE Settled(d)'
  <2>1. CASE \E i \in Items \ row.lacks : /\ d = <<i, cfg[i]>> /\ cfg[i] # 0
                                          /\ (i \in Tagged => tagged) /\ (i \in Waves => open)
    <3>1. PICK i \in Items \ row.lacks : /\ d = <<i, cfg[i]>> /\ cfg[i] # 0
                                         /\ (i \in Tagged => tagged) /\ (i \in Waves => open)
      BY <2>1
    <3>2. CASE i \in row'.lacks
      BY <3>1, <3>2 DEF Settled, Gone
    <3>3. CASE i \notin row'.lacks /\ cfg'[i] = cfg[i]
      <4>1. d \in Current'
        BY <3>1, <3>3, OfDesired DEF Current, Ages
      <4>2. QED BY <4>1 DEF Settled
    <3>4. CASE cfg'[i] # cfg[i]
      <4>1. d[1] = i /\ d[2] = cfg[i] /\ cfg[i] \in 1..(1 + events')
        BY <3>1 DEF World, Counted, Ages
      <4>2. QED BY <3>4, <4>1 DEF Settled, Gone
    <3>5. QED BY <3>2, <3>3, <3>4
  <2>2. CASE d = <<"properties", IF tagged THEN 2 ELSE 1>>
    <3>1. CASE tagged' = tagged
      BY <2>2, <3>1, OfDesired DEF Settled, Current
    <3>2. CASE ~tagged /\ tagged'
      BY <2>2, <3>2 DEF Settled, Gone
    <3>3. QED BY <3>1, <3>2 DEF Ages, World, Counted
  <2>3. QED BY <1>2, <2>1, <2>2, OfCurrent
<1>3. QED BY <1>1, <1>2 DEF Settled

----------------------------------------------------------------------------
(* Steps that change neither the configuration nor what the console knows.  *)
DeviceFields == {"pc", "token", "want", "held", "reported"}
Same ==
    /\ UNCHANGED config /\ events' \in {events, events + 1}
    /\ {"status", "lacks"} \subseteq DOMAIN row'
    /\ row'.status = row.status /\ row'.lacks = row.lacks
    /\ cache' \in {cache, NotCached, [key |-> Fingerprint, set |-> Served]}

LEMMA SameWorld ==
    ASSUME World, Same, DeviceFields \subseteq DOMAIN device'
    PROVE  /\ World' /\ Current' = Current
           /\ \A d : (Gone(d) => Gone(d)') /\ (Settled(d) => Settled(d)')
<1>1. cfg' = cfg /\ tagged' = tagged /\ open' = open
  BY DEF Same, config
<1>2. Fields' /\ Supports'
  BY DEF Same, World, Fields, Supports, DeviceFields
<1>3. Counted'
  BY <1>1 DEF Same, World, Counted
<1>4. CacheTrue'
  <2>1. CASE cache' = cache
    BY <1>1, <2>1 DEF World, CacheTrue
  <2>2. CASE cache' = NotCached
    BY <2>2 DEF CacheTrue
  <2>3. CASE cache' = [key |-> Fingerprint, set |-> Served]
    <3>1. cache'.set = Current /\ cache'.key = Fingerprint
      BY <2>3, ServesCurrent
    <3>2. QED BY <1>1, <3>1 DEF CacheTrue, Fingerprint, Current
  <2>4. QED BY <2>1, <2>2, <2>3 DEF Same
<1>5. World'
  BY <1>2, <1>3, <1>4 DEF World
<1>6. Current' = Current
  BY <1>1 DEF Same, Current
<1>7. Ages
  BY <1>1 DEF Same, Ages
<1>8. QED BY <1>5, <1>6, <1>7, StaysSettled

(* The device is elsewhere: a sync of the server, a webhook, time.          *)
LEMMA ElsewhereKeeps == ASSUME DInv, Same, device' = device PROVE DInv'
<1>1. /\ World' /\ Current' = Current
      /\ \A d : (Gone(d) => Gone(d)') /\ (Settled(d) => Settled(d)')
  BY SameWorld DEF DInv, World, Fields, DeviceFields
<1>2. Fetching' /\ Settling'
  BY <1>1 DEF DInv, Fetching, Settling, Ids
<1>3. Heard'
  BY <1>1 DEF DInv, Heard, Same
<1>4. SettledIsTrue'
  BY <1>1 DEF DInv, SettledIsTrue, Same
<1>5. QED BY <1>1, <1>2, <1>3, <1>4 DEF DInv

LEMMA EnrolledKeeps == ASSUME DInv, Same, device' = NewDevice PROVE DInv'
<1>1. World' /\ Current' = Current
  BY SameWorld DEF DInv, NewDevice, DeviceFields
<1>2. /\ device'.pc = "idle" /\ device'.token = Nothing /\ device'.want = {}
      /\ device'.held = {} /\ device'.reported = {}
  BY DEF NewDevice
<1>3. Single(Nothing)
  BY DEF Single, Nothing
<1>4. Fetching' /\ Settling' /\ Heard'
  BY <1>2, <1>3 DEF Fetching, Settling, Heard, Single, Ids
<1>5. SettledIsTrue'
  BY <1>1, <1>2, CurrentSingle DEF SettledIsTrue
<1>6. QED BY <1>1, <1>4, <1>5 DEF DInv

(* The device takes up a command, or has fetched the last declaration.      *)
LEMMA MovesOnKeeps ==
    ASSUME DInv, Same, NEW pc, pc \in {"manifest", "report"},
           device' = [device EXCEPT !.pc = pc],
           device.pc # "report", device.want = {}
    PROVE  DInv'
<1>1. /\ DeviceFields \subseteq DOMAIN device' /\ device'.pc = pc
      /\ device'.token = device.token /\ device'.want = device.want
      /\ device'.held = device.held /\ device'.reported = device.reported
  BY DEF DInv, World, Fields, DeviceFields
<1>2. /\ World' /\ Current' = Current
      /\ \A d : (Gone(d) => Gone(d)') /\ (Settled(d) => Settled(d)')
  BY <1>1, SameWorld DEF DInv
<1>3. Fetching' /\ Settling'
  BY <1>1, <1>2 DEF DInv, Fetching, Settling, Ids
<1>4. Heard'
  BY <1>1, <1>2 DEF DInv, Heard, Same
<1>5. SettledIsTrue'
  BY <1>1 DEF SettledIsTrue
<1>6. QED BY <1>2, <1>3, <1>4, <1>5 DEF DInv

LEMMA ManifestKeeps == DInv /\ DeviceGetsManifest => DInv'
<1> SUFFICES ASSUME DInv, DeviceGetsManifest PROVE DInv'
  OBVIOUS
<1>1. Served = Current
  BY ServesCurrent DEF DInv
<1>2. /\ DeviceFields \subseteq DOMAIN device'
      /\ device'.pc = "fetch" /\ device'.token = Current
      /\ device'.want = Current \ device.held
      /\ device'.held = {d \in device.held : d[1] \in Ids(Current)}
      /\ device'.reported = device.reported
  BY <1>1 DEF DeviceGetsManifest, DInv, World, Fields, DeviceFields
<1>3. Same
  BY DEF DeviceGetsManifest, Same, Serve, server, DInv, World, Fields
<1>4. /\ World' /\ Current' = Current
      /\ \A d : (Gone(d) => Gone(d)') /\ (Settled(d) => Settled(d)')
  BY <1>2, <1>3, SameWorld DEF DInv
<1>5. Fetching'
  <2>1. Single(device'.held)
    BY <1>2 DEF DInv, Fetching, Single
  <2>2. Ids(device'.held) \subseteq Ids(device'.token)
    BY <1>2 DEF Ids
  <2>3. Single(device'.token) /\ device'.token # Nothing
    BY <1>2, <1>4, CurrentSingle
  <2>4. \A t \in device'.token : t \in device'.held \/ t \in device'.want
    BY <1>2 DEF Ids
  <2>5. device'.want \subseteq device'.token /\ device'.pc = "fetch"
    BY <1>2
  <2>6. QED BY <2>1, <2>2, <2>3, <2>4, <2>5 DEF Fetching
<1>6. Settling'
  BY <1>2, <1>4 DEF DInv, Settling, Settled
<1>7. Heard'
  <2>1. device.pc # "report"
    BY DEF DeviceGetsManifest
  <2>2. row'.status = row.status
    BY <1>3 DEF Same
  <2>3. QED BY <1>2, <1>4, <2>1, <2>2 DEF DInv, Heard
<1>8. SettledIsTrue'
  BY <1>2 DEF SettledIsTrue
<1>9. QED BY <1>4, <1>5, <1>6, <1>7, <1>8 DEF DInv

LEMMA FetchesKeeps == ASSUME DInv, NEW i, DeviceFetches(i) PROVE DInv'
<1>1. Served = Current
  BY ServesCurrent DEF DInv
<1>2. /\ DeviceFields \subseteq DOMAIN device'
      /\ device'.pc = "fetch" /\ device'.token = device.token
      /\ device'.want = {d \in device.want : d[1] # i}
      /\ device'.held = {d \in device.held : d[1] # i} \cup {d \in Current : d[1] = i}
      /\ device'.reported = device.reported
  BY <1>1 DEF DeviceFetches, DInv, World, Fields, DeviceFields
<1>3. Same
  BY DEF DeviceFetches, Same, Serve, server, DInv, World, Fields
<1>4. /\ World' /\ Current' = Current
      /\ \A d : (Gone(d) => Gone(d)') /\ (Settled(d) => Settled(d)')
  BY <1>2, <1>3, SameWorld DEF DInv
<1>5. PICK w \in device.want : w[1] = i
  BY DEF DeviceFetches, Ids
<1>6. Fetching'
  <2>1. Single(device'.held)
    BY <1>2, CurrentSingle DEF DInv, Fetching, Single
  <2>2. Ids(device'.held) \subseteq Ids(device'.token)
    BY <1>2, <1>5 DEF DInv, Fetching, Ids
  <2>3. device'.token # Nothing
    BY <1>2, <1>5 DEF DInv, Fetching
  <2>4. ASSUME NEW t \in device'.token
        PROVE  t \in device'.held \/ t \in device'.want \/ Gone(t)'
    <3>1. t \in device.held \/ t \in device.want \/ Gone(t)
      BY <1>2, <2>3, <2>4 DEF DInv, Fetching
    <3>2. CASE t[1] # i
      BY <1>2, <1>4, <3>1, <3>2
    <3>3. CASE t[1] = i
      <4>1. t \in device.want
        BY <1>2, <1>5, <3>3 DEF DInv, Fetching, Single
      <4>2. t \in Current \/ Gone(t)
        BY <4>1 DEF DInv, Settling, Settled
      <4>3. QED BY <1>2, <1>4, <3>3, <4>2
    <3>4. QED BY <3>2, <3>3
  <2>5. QED BY <1>2, <2>1, <2>2, <2>3, <2>4 DEF DInv, Fetching
<1>7. Settling'
  BY <1>2, <1>4 DEF DInv, Settling, Settled
<1>8. Heard'
  <2>1. device.pc # "report"
    BY DEF DeviceFetches
  <2>2. row'.status = row.status
    BY <1>3 DEF Same
  <2>3. QED BY <1>2, <1>4, <2>1, <2>2 DEF DInv, Heard
<1>9. SettledIsTrue'
  BY <1>2 DEF SettledIsTrue
<1>10. QED BY <1>4, <1>6, <1>7, <1>8, <1>9 DEF DInv

(* The same of the next state.                                              *)
LEMMA NextCurrent ==
    ASSUME World' PROVE Current' # Nothing /\ \A d : Gone(d)' => d \notin Current'
<1>1. \A d : d \in Current' <=>
              \/ \E i \in Items \ row'.lacks :
                    /\ d = <<i, cfg'[i]>> /\ cfg'[i] # 0
                    /\ (i \in Tagged => tagged') /\ (i \in Waves => open')
              \/ d = <<"properties", IF tagged' THEN 2 ELSE 1>>
  BY OfDesired DEF Current
<1>2. <<"properties", IF tagged' THEN 2 ELSE 1>> # <<"none", 0>>
  OBVIOUS
<1>3. row'.lacks \subseteq Items
  BY DeclarationsAssumption DEF World, Supports
<1>4. \A d : Gone(d)' => d \notin Current'
  BY <1>1, <1>3, DeclarationsAssumption DEF Gone, World, Counted
<1>5. QED BY <1>1, <1>2, <1>4 DEF Nothing

----------------------------------------------------------------------------
(* The report.                                                              *)
LEMMA ReportKeeps ==
    ASSUME DInv, NEW full \in BOOLEAN, NEW lost \in BOOLEAN, Report(full, lost)
    PROVE  DInv'
<1> DEFINE held == device.held
           delta == IF full THEN held ELSE held \ device.reported
<1>1. Served = Current
  BY ServesCurrent DEF DInv
<1>2. /\ row'.status = Prune(Merge(row.status, delta, full), Current, Ids(delta))
      /\ row'.lacks = Exotic /\ {"status", "lacks"} \subseteq DOMAIN row'
  <2> DEFINE status == Prune(Merge(row.status, delta, full), Served, Ids(delta))
  <2>1. row' = [row EXCEPT !.status = status, !.lacks = Exotic]
    BY DEF Report
  <2>2. {"status", "lacks"} \subseteq DOMAIN row
    BY DEF DInv, World, Fields
  <2> HIDE DEF status
  <2>3. row'.status = status /\ row'.lacks = Exotic /\ {"status", "lacks"} \subseteq DOMAIN row'
    BY <2>1, <2>2
  <2>4. QED BY <1>1, <2>3 DEF status
<1>3. \A d : d \in row'.status <=>
         d \in delta \/ (~full /\ d \in row.status /\ d[1] \notin Ids(delta) /\ d[1] \in Ids(Current))
  <2> HIDE DEF delta
  <2>1. \A d : d \in row'.status <=> /\ d \in Merge(row.status, delta, full)
                                     /\ d[1] \in Ids(Current) \/ d[1] \in Ids(delta)
    BY <1>2 DEF Prune
  <2>2. \A d : d \in Merge(row.status, delta, full) <=>
                  d \in delta \/ (~full /\ d \in row.status /\ d[1] \notin Ids(delta))
    <3>1. full => delta = held
      BY DEF delta
    <3>2. QED BY DEF Merge
  <2>3. \A d \in delta : d[1] \in Ids(delta)
    BY DEF Ids
  <2>4. QED BY <2>1, <2>2, <2>3
<1>4. /\ device.pc = "report" /\ UNCHANGED config /\ events' \in {events, events + 1}
      /\ device' = device \/ ~lost
  BY DEF Report, Event
<1>5. /\ DeviceFields \subseteq DOMAIN device' /\ device'.token = device.token
      /\ device'.want = device.want /\ device'.held = held
      /\ lost => device'.pc = "report" /\ device'.reported = device.reported
      /\ ~lost => device'.pc = "idle" /\ device'.reported = held
  BY <1>4 DEF Report, DInv, World, Fields, DeviceFields
<1>6. cache' = [key |-> Fingerprint, set |-> Current]
  BY <1>1 DEF Report, Serve
<1>7. World'
  <2>1. Fields' /\ Counted' /\ Supports'
    BY <1>2, <1>4, <1>5
       DEF DInv, World, Fields, Counted, Supports, config, DeviceFields
  <2>2. CacheTrue'
    BY <1>4, <1>6 DEF CacheTrue, Fingerprint, Current, config
  <2>3. QED BY <2>1, <2>2 DEF World
<1>8. Ages
  BY <1>2, <1>4 DEF Ages, config, DInv, World, Supports
<1>9. \A d : (Gone(d) => Gone(d)') /\ (Settled(d) => Settled(d)')
  BY <1>7, <1>8, StaysSettled DEF DInv
<1>10. device.want = {} /\ Single(held)
  BY <1>4 DEF DInv, Fetching
<1>11. Fetching' /\ Settling'
  BY <1>5, <1>9, <1>10 DEF DInv, Fetching, Settling, Ids
<1>12. delta \subseteq held /\ \A t \in held : t \in delta \/ (~full /\ t \in device.reported)
  OBVIOUS
<1> HIDE DEF delta
<1>13. \A t \in held : t \in row'.status \/ Gone(t)'
  <2>1. SUFFICES ASSUME NEW t \in held, t \notin delta, ~Gone(t) PROVE t \in row'.status
    BY <1>3, <1>9
  <2>2. ~full /\ t \in device.reported
    BY <1>12, <2>1
  <2>3. t \in row.status
    BY <2>1, <2>2 DEF DInv, Heard
  <2>4. t \in Current
    BY <2>1 DEF DInv, Settling, Settled
  <2>5. t[1] \notin Ids(delta)
    BY <1>10, <1>12, <2>1 DEF Ids, Single
  <2>6. QED BY <1>3, <2>2, <2>3, <2>4, <2>5 DEF Ids
<1>14. \A d \in row'.status, t \in held : d[1] = t[1] => d = t
  <2>1. SUFFICES ASSUME NEW d \in row'.status, NEW t \in held, d[1] = t[1], d \notin held
                 PROVE  FALSE
    BY <1>10 DEF Single
  <2>2. ~full /\ d \in row.status /\ d[1] \notin Ids(delta)
    BY <1>3, <1>12, <2>1
  <2>3. t \in device.reported
    BY <1>12, <2>1, <2>2 DEF Ids
  <2>4. QED BY <2>1, <2>2, <2>3 DEF DInv, Heard
<1>15. Heard'
  <2>1. CASE ~lost
    BY <1>5, <1>13, <1>14, <2>1 DEF Heard
  <2>2. CASE lost
    <3>1. ASSUME NEW d \in row'.status, NEW t \in device.reported, d[1] = t[1]
          PROVE  d = t \/ d \in held
      BY <1>3, <1>12, <3>1 DEF DInv, Heard
    <3>2. QED BY <1>5, <1>13, <2>2, <3>1 DEF Heard
  <2>3. QED BY <2>1, <2>2
<1>16. SettledIsTrue'
  <2>1. SUFFICES ASSUME ~lost, device.token = Current' PROVE held = Current' /\ row'.status = held
    BY <1>5 DEF SettledIsTrue
  <2>2. Current' # Nothing /\ \A d : Gone(d)' => d \notin Current'
    BY <1>7, NextCurrent
  <2>3. Current' \subseteq held
    BY <1>9, <1>10, <2>1, <2>2 DEF DInv, Fetching
  <2>4. held \subseteq Current'
    <3>1. SUFFICES ASSUME NEW d \in held PROVE d \in Current'
      OBVIOUS
    <3>2. PICK t \in Current' : t[1] = d[1]
      BY <2>1 DEF DInv, Fetching, Ids
    <3>3. QED BY <1>10, <2>3, <3>2 DEF Single
  <2>5. held \subseteq row'.status
    BY <1>13, <2>2, <2>4
  <2>6. row'.status \subseteq held
    <3>1. SUFFICES ASSUME NEW d \in row'.status, d \notin delta PROVE d \in held
      BY <1>12
    <3>2. d \in row.status /\ d[1] \in Ids(Current)
      BY <1>3, <3>1
    <3>3. row'.lacks = row.lacks
      BY <1>2, <3>2 DEF DInv, World, Supports
    <3>4. Current' = Current
      BY <1>4, <3>3 DEF Current, config
    <3>5. PICK t \in held : t[1] = d[1]
      BY <2>3, <3>2, <3>4 DEF Ids
    <3>6. QED BY <1>14, <3>5
  <2>7. QED BY <2>3, <2>4, <2>5, <2>6
<1>17. QED BY <1>7, <1>11, <1>15, <1>16 DEF DInv

(* The world changes: the set the device has does not come back.            *)
LEMMA EditKeeps == ASSUME Onwards, DInv, Edit PROVE DInv'
<1>1. UNCHANGED <<server, cache, queue, answer, device, told>> /\ events' = events + 1
  BY DEF Edit, Event
<1>2. row' = row /\ device' = device /\ cache' = cache
  BY <1>1 DEF server
<1>3. device.token = Current \/ device.token # Current'
  BY DEF Edit, Onwards
<1>4. \/ /\ UNCHANGED <<tagged, open>>
         /\ \E i \in Items, c \in {0, 2 + events} : c # cfg[i] /\ cfg' = [cfg EXCEPT ![i] = c]
      \/ ~tagged /\ tagged' = TRUE /\ UNCHANGED <<cfg, open>>
      \/ cache = NotCached /\ ~open /\ open' = TRUE /\ UNCHANGED <<cfg, tagged>>
  BY DEF Edit, Editable, Onwards
<1>5. Ages /\ Counted'
  <2>1. CASE UNCHANGED cfg
    <3>1. /\ events \in Nat /\ cfg \in [Items -> 0..(1 + events)]
          /\ tagged \in BOOLEAN /\ open \in BOOLEAN
      BY DEF DInv, World, Counted
    <3>2. cfg' \in [Items -> 0..(2 + events)] /\ events' \in Nat
      BY <1>1, <2>1, <3>1
    <3>3. tagged' \in BOOLEAN /\ open' \in BOOLEAN /\ (tagged => tagged') /\ (open => open')
      BY <1>4, <3>1
    <3>4. Counted'
      BY <1>1, <3>2, <3>3, <3>1 DEF Counted
    <3>5. Ages
      BY <1>1, <1>2, <2>1, <3>3 DEF Ages
    <3>6. QED BY <3>4, <3>5
  <2>2. CASE UNCHANGED <<tagged, open>> /\
             \E i \in Items, c \in {0, 2 + events} : c # cfg[i] /\ cfg' = [cfg EXCEPT ![i] = c]
    <3>1. PICK i \in Items, c \in {0, 2 + events} : cfg' = [cfg EXCEPT ![i] = c]
      BY <2>2
    <3>2. /\ events \in Nat /\ cfg \in [Items -> 0..(1 + events)]
          /\ tagged' \in BOOLEAN /\ open' \in BOOLEAN
      BY <2>2 DEF DInv, World, Counted
    <3>3. cfg \in [Items -> 0..(2 + events)] /\ c \in 0..(2 + events)
      BY <3>2
    <3>4. cfg' \in [Items -> 0..(2 + events)]
      BY <3>1, <3>3
    <3>5. Counted'
      BY <1>1, <3>2, <3>4 DEF Counted
    <3>6. \A j \in Items : cfg'[j] = cfg[j] \/ cfg'[j] = c
      BY <3>1, <3>2
    <3>7. Ages
      BY <1>1, <1>2, <2>2, <3>6 DEF Ages
    <3>8. QED BY <3>5, <3>7
  <2>3. QED BY <1>4, <2>1, <2>2
<1>6. World'
  <2>1. CacheTrue'
    BY <1>2, <1>4 DEF DInv, World, CacheTrue
  <2>2. QED BY <1>2, <1>5, <2>1 DEF DInv, World, Fields, Supports
<1>7. \A d : (Gone(d) => Gone(d)') /\ (Settled(d) => Settled(d)')
  BY <1>5, <1>6, StaysSettled DEF DInv
<1>8. Fetching' /\ Settling' /\ Heard'
  BY <1>2, <1>7 DEF DInv, Fetching, Settling, Heard
<1>9. SettledIsTrue'
  <2>1. SUFFICES ASSUME device.pc = "idle", device.token = Current'
                 PROVE  device.held = Current' /\ row.status = device.held
    BY <1>2 DEF SettledIsTrue
  <2>2. QED BY <1>3, <2>1 DEF DInv, SettledIsTrue
<1>10. QED BY <1>6, <1>8, <1>9 DEF DInv

LEMMA InitSettled == Init => DInv
<1> SUFFICES ASSUME Init PROVE DInv
  OBVIOUS
<1>1. /\ row.lacks = {} /\ row.status = {} /\ {"status", "lacks"} \subseteq DOMAIN row
      /\ device.pc = "idle" /\ device.token = Nothing /\ device.want = {}
      /\ device.held = {} /\ device.reported = {} /\ DeviceFields \subseteq DOMAIN device
  BY DEF Init, NewDevice, DeviceFields
<1>2. Counted
  <2>1. events = 0 /\ cfg = [i \in Items |-> 1] /\ tagged = FALSE /\ open = FALSE
    BY DEF Init
  <2>2. cfg \in [Items -> 0..(1 + events)]
    BY <2>1
  <2>3. QED BY <2>1, <2>2 DEF Counted
<1>3. World
  BY <1>1, <1>2 DEF Init, World, Fields, CacheTrue, Supports, DeviceFields
<1>4. Single(Nothing)
  BY DEF Single, Nothing
<1>5. Fetching /\ Settling /\ Heard
  BY <1>1, <1>4 DEF Fetching, Settling, Heard, Single, Ids
<1>6. SettledIsTrue
  BY <1>1, CurrentSingle DEF SettledIsTrue
<1>7. QED BY <1>3, <1>5, <1>6 DEF DInv

(* The server's own steps leave both sides of the comparison alone.         *)
LEMMA ServersSteps ==
    ASSUME DInv, NEW p \in Callers,
           \/ BeginSync(p) \/ Decide(p) \/ Accepted(p) \/ SavePublished(p)
           \/ \E reached \in BOOLEAN : Refused(p, reached)
    PROVE  Same /\ device' = device
<1> USE DEF DInv, World, Fields, Same
<1>1. CASE BeginSync(p)
  BY <1>1 DEF BeginSync, Event, config
<1>2. CASE Decide(p)
  BY <1>2 DEF Decide
<1>3. CASE Accepted(p)
  BY <1>3 DEF Accepted
<1>4. CASE SavePublished(p)
  <2>1. PICK f : row' = [row EXCEPT !.published = sync[p].set, !.started = TRUE, !.failure = f]
    BY <1>4 DEF SavePublished
  <2>2. {"status", "lacks"} \subseteq DOMAIN row' /\ row'.status = row.status /\ row'.lacks = row.lacks
    BY <2>1
  <2>3. QED BY <1>4, <2>2 DEF SavePublished
<1>5. CASE \E reached \in BOOLEAN : Refused(p, reached)
  BY <1>5 DEF Refused, Event
<1>6. QED BY <1>1, <1>2, <1>3, <1>4, <1>5

LEMMA OthersSteps ==
    ASSUME DInv,
           HandleAnswer \/ DiscardAnswer \/ CacheExpires \/ Tick \/ Restart \/ UNCHANGED vars
    PROVE  Same /\ device' = device
<1> USE DEF DInv, World, Fields, Same
<1>1. CASE HandleAnswer
  BY <1>1 DEF HandleAnswer
<1>2. CASE DiscardAnswer \/ CacheExpires
  BY <1>2 DEF DiscardAnswer, CacheExpires, server
<1>3. CASE Tick
  <2>1. PICK f : row' = [row EXCEPT !.failure = f]
    BY <1>3 DEF Tick
  <2>2. QED BY <1>3, <2>1 DEF Tick
<1>4. CASE Restart
  BY <1>4 DEF Restart, Event
<1>5. CASE UNCHANGED vars
  BY <1>5 DEF vars, config
<1>6. QED BY <1>1, <1>2, <1>3, <1>4, <1>5

LEMMA EnrollmentsSteps ==
    ASSUME DInv, CheckOut \/ Reenroll PROVE Same /\ device' = NewDevice
<1> USE DEF DInv, World, Fields, Same
<1>1. CASE CheckOut
  BY <1>1 DEF CheckOut, Event
<1>2. CASE Reenroll
  BY <1>2 DEF Reenroll, Event
<1>3. QED BY <1>1, <1>2

LEMMA StepSettles == ASSUME Onwards, DInv, [Next]_vars PROVE DInv'
<1>1. ASSUME NEW p \in Callers,
             \/ BeginSync(p) \/ Decide(p) \/ Accepted(p) \/ SavePublished(p)
             \/ \E reached \in BOOLEAN : Refused(p, reached)
      PROVE  DInv'
  BY <1>1, ServersSteps, ElsewhereKeeps
<1>2. CASE HandleAnswer \/ DiscardAnswer \/ CacheExpires \/ Tick \/ Restart \/ UNCHANGED vars
  BY <1>2, OthersSteps, ElsewhereKeeps
<1>3. CASE CheckOut \/ Reenroll
  BY <1>3, EnrollmentsSteps, EnrolledKeeps
<1>4. ASSUME NEW ok \in BOOLEAN, DeviceSyncs(ok) PROVE DInv'
  <2>1. Same /\ device.pc = "idle" /\ device.want = {}
    BY <1>4 DEF DeviceSyncs, Same, server, Event, DInv, World, Fields, Fetching
  <2>2. CASE device' = device
    BY <2>1, <2>2, ElsewhereKeeps
  <2>3. CASE device' = [device EXCEPT !.pc = "manifest"]
    BY <2>1, <2>3, MovesOnKeeps
  <2>4. QED BY <1>4, <2>2, <2>3 DEF DeviceSyncs
<1>5. CASE DeviceApplies
  <2>1. /\ Same /\ device.pc = "fetch" /\ device.want = {}
        /\ device' = [device EXCEPT !.pc = "report"]
    BY <1>5 DEF DeviceApplies, Same, server, DInv, World, Fields
  <2>2. QED BY <2>1, MovesOnKeeps
<1>6. CASE DeviceGetsManifest
  BY <1>6, ManifestKeeps
<1>7. CASE \E i \in Items \cup {"properties"} : DeviceFetches(i)
  BY <1>7, FetchesKeeps
<1>8. CASE \E full, lost \in BOOLEAN : Report(full, lost)
  BY <1>8, ReportKeeps
<1>9. CASE Edit
  BY <1>9, EditKeeps
<1>10. QED BY <1>1, <1>2, <1>3, <1>4, <1>5, <1>6, <1>7, <1>8, <1>9 DEF Next

(* As long as no set the device has comes back and no wave opens over a     *)
(* cached set, a device that is done with the set the server serves holds   *)
(* exactly that set and the console shows exactly what it holds, whatever   *)
(* is edited while it fetches, is lost or happens twice                     *)
(* (ddm_declaration_items, ingest_status_report, merge_status_items).        *)
THEOREM DeviceAndConsoleAgree ==
    ASSUME Onwards
    PROVE  Spec => []SettledIsTrue
<1>1. DInv => SettledIsTrue
  BY DEF DInv
<1>2. Init => DInv
  BY InitSettled
<1>3. DInv /\ [Next]_vars => DInv'
  BY StepSettles
<1>4. QED BY <1>1, <1>2, <1>3, PTL DEF Spec
=============================================================================
