------------------------------ MODULE Identity ------------------------------
(* The identity certificate of one Mac: identity.py, identity_renewal.py,   *)
(* the check-in half of webhook_handler.py, the challenges of               *)
(* enrollment_links.py, and what they read and write in NanoMDM's database  *)
(* (nanomdm_store.py).                                                      *)
(*                                                                          *)
(* Every handler of a udid holds its device lock and its advisory lock, so  *)
(* each is one action; an upsert lets go of both between its bind and its   *)
(* last save, and is two. NanoMDM answers the Mac without those locks and   *)
(* changes its rows between any two actions; its webhooks arrive later, in  *)
(* any order, or not at all. A write to NanoMDM's database may fail.        *)
(*                                                                          *)
(* A certificate is known by its number, and stands for its challenge row   *)
(* too. A handler is a function from worlds to worlds: what it reads and    *)
(* writes, as one record.                                                   *)
EXTENDS Integers, FiniteSets, SequencesExt, FiniteSetsExt

CONSTANTS
    Certs,        \* the certificates there may ever be, 1 .. N
    FirstKinds,   \* what the Mac may be enrolled with at first: legacy, manual, ade
    LaterKinds,   \* what may be issued later: renewal, manual, ade, rts, stray
    MaxTokens,    \* bootstrap tokens the Mac escrows
    MaxInbox,     \* webhooks on their way at once
    MaxTroubles   \* failed writes to NanoMDM's database, webhooks lost or
                  \* overtaken, renewals ended before their answer; the
                  \* step that reaches the bound may meet one of each

ASSUME CertsAssumption == 1 \in Certs /\ Certs \subseteq Nat \ {0}
ASSUME KindsAssumption == FirstKinds \subseteq {"legacy", "manual", "ade"}
ASSUME BoundsAssumption == MaxTokens \in Nat

VARIABLES
    row,       \* the ScepChallenge rows, with the task of a renewal
    dev,       \* the Device row
    snapshot,  \* the legacy certificates of the cutover
    nano,      \* NanoMDM's rows of this udid
    alarm,     \* the identity:refused alert: raised lately; a restore to repeat
    saving,    \* an upsert between its bind and its save
    inbox,     \* webhooks on their way, in the order they were sent
    mac,       \* the Mac itself
    faults, mishaps

server == <<row, dev, snapshot, nano, alarm>>
vars == <<row, dev, snapshot, nano, alarm, saving, inbox, mac, faults, mishaps>>

None == 0
Alien == MaxTokens + 1       \* the bootstrap token of another machine
Held == {"young", "aged"}    \* how NanoMDM holds an association it accepts
FreeRow == [kind |-> "free", used |-> FALSE, bound |-> 0, holds |-> FALSE,
            live |-> FALSE, task |-> "none", pem |-> None]
NotSaving == [busy |-> FALSE, fresh |-> FALSE, inactive |-> FALSE]

World == [row |-> row, dev |-> dev, snapshot |-> snapshot, nano |-> nano, alarm |-> alarm]
Become(w) ==
    /\ row' = w.row /\ dev' = w.dev /\ snapshot' = w.snapshot
    /\ nano' = w.nano /\ alarm' = w.alarm

----------------------------------------------------------------------------
(* The allowed set.                                                         *)
Assoc(w) == {c \in Certs : w.nano.assoc[c] \in Held}
Enrolled(w) == w.dev.state = "enrolled"
Bound(w) == {c \in Certs : w.row[c].bound > 0 /\ w.row[c].holds}
Newest(w, S) == IF S = {} THEN None ELSE CHOOSE c \in S : \A b \in S : w.row[b].bound <= w.row[c].bound
Renewals(w) == {c \in Certs : w.row[c].kind = "renewal"}
BoundBefore(w, c) == Newest(w, {b \in Bound(w) : w.row[b].bound < w.row[c].bound})

(* The certificate held before the newest renewal, until that is completed. *)
Unacknowledged(w) == {c \in Renewals(w) \cap Bound(w) : w.row[c].live /\ w.row[c].task # "done"}
PreviousOfOpen(w) ==
    LET c == Newest(w, Unacknowledged(w)) IN IF c = None THEN None ELSE BoundBefore(w, c)

Allowed(w) == ({w.dev.id, PreviousOfOpen(w)} \cup w.snapshot) \ {None}

(* A renewal under way counts as settled before it is bound.                *)
Renewing(w) == {c \in Renewals(w) : /\ w.row[c].live
                                    /\ c \in Bound(w) \/ (c = w.nano.id /\ w.row[c].used
                                                            /\ w.row[c].bound = 0)}
Settled(w) == /\ w.nano.id # None
              /\ {w.nano.id} \cup Assoc(w) \subseteq Allowed(w) \cup Renewing(w)

----------------------------------------------------------------------------
(* The writes to NanoMDM. F is the set of those that fail.                  *)
Prune(w, keep, F) ==
    IF "prune" \in F \/ keep = {} THEN w
    ELSE [w EXCEPT !.nano.assoc = [c \in Certs |-> IF c \in Assoc(w) \ keep THEN "no" ELSE @[c]]]

Park(w, S, F) ==
    IF "park" \in F THEN w
    ELSE [w EXCEPT !.nano.assoc = [c \in Certs |-> IF c \in S THEN "parked" ELSE @[c]]]

WriteToken(w) == [w EXCEPT !.nano.token = w.dev.sealed, !.nano.stamped = TRUE, !.dev.escrowed = TRUE]

(* An Authenticate clears NanoMDM's token; the sealed copy is written back  *)
(* unless the Mac stored or removed one since.                              *)
Restores(w, F) == w.dev.sealed # None /\ ~w.nano.stamped /\ "token" \notin F
(* (mutant) a write that fails leaves the flag standing. *)
RestoreTokenUnflagged(w, F) == IF Restores(w, F) THEN WriteToken(w) ELSE w

RestoreToken(w, F) ==
    IF Restores(w, F) THEN WriteToken(w)
    ELSE IF w.dev.sealed # None /\ "token" \in F THEN [w EXCEPT !.dev.escrowed = FALSE]
    ELSE w

(* NanoMDM's token is sealed only when its certificates are the Mac's own.  *)
Capture(w, replace) ==
    IF /\ Enrolled(w) /\ ~w.alarm.recent /\ Settled(w) /\ w.nano.token # None
       /\ \/ w.dev.sealed \in {None, w.nano.token} /\ ~(w.dev.sealed # None /\ w.dev.escrowed)
          \/ replace
    THEN [w EXCEPT !.dev.sealed = w.nano.token, !.dev.escrowed = TRUE]
    ELSE w

----------------------------------------------------------------------------
(* Judge: the certificate NanoMDM recorded against its challenge row.       *)
AlreadyBound(w, c) == c \in Bound(w)
(* (mutant) a rolled back renewal still stands. *)
StandsRolledBack(w, c) ==
    \/ w.row[c].kind = "legacy" /\ c \in w.snapshot
    \/ w.row[c].kind \in {"manual", "ade", "rts", "renewal"} /\ w.row[c].used
Stands(w, c) ==
    \/ w.row[c].kind = "legacy" /\ c \in w.snapshot
    \/ /\ w.row[c].kind \in {"manual", "ade", "rts", "renewal"}
       /\ w.row[c].used
       /\ ~(w.row[c].kind = "renewal" /\ w.row[c].bound > 0 /\ ~w.row[c].holds)

Takeover(w, c) == Enrolled(w) /\ w.row[c].kind \in {"manual", "ade"} /\ ~AlreadyBound(w, c)
TakeoverAllowed(w, c) ==
    ~Enrolled(w) \/ w.dev.erased \/ w.dev.allowance \/ w.row[c].kind = "ade"

----------------------------------------------------------------------------
(* apply_acceptance: bind the row, write the device row, put the bootstrap  *)
(* token back on the same install, prune the associations.                  *)
Fresh(w, c) == w.row[c].kind # "legacy" /\ ~AlreadyBound(w, c)
BindRank(w) == 1 + Max({w.row[c].bound : c \in Certs})

BindRow(w, c) ==
    IF ~Fresh(w, c) THEN w
    ELSE [w EXCEPT
            !.row[c].bound = IF @ = 0 THEN BindRank(w) ELSE @,
            !.row[c].holds = TRUE,
            !.row[c].pem = IF w.row[c].kind = "renewal" /\ w.dev.pem # None THEN w.dev.pem ELSE @,
            !.snapshot = IF w.row[c].kind = "renewal" THEN @ ELSE {}]

(* (mutant) a renewal counts as a new install. *)
NewInstallEachBind(w, c) == Fresh(w, c) \/ (w.row[c].kind = "legacy" /\ ~Enrolled(w))
NewInstall(w, c) == /\ w.row[c].kind # "renewal"
                    /\ Fresh(w, c) \/ (w.row[c].kind = "legacy" /\ ~Enrolled(w))

WriteDevice(w, c) ==
    [w.dev EXCEPT !.id = c, !.pem = c,
                  !.allowance = @ /\ ~Fresh(w, c), !.erased = @ /\ ~Fresh(w, c),
                  !.sealed = IF NewInstall(w, c) THEN None ELSE @,
                  !.escrowed = @ /\ ~NewInstall(w, c)]

SameInstall(w, c, topic) ==
    Enrolled(w) /\ topic \in {"none", "Authenticate"} /\ (~Fresh(w, c) \/ w.row[c].kind = "renewal")

Accept(w, c, topic, F) ==
    LET written == [BindRow(w, c) EXCEPT !.dev = WriteDevice(w, c)]
        same == SameInstall(w, c, topic)
        renewal == w.row[c].kind = "renewal"
        restored == IF same THEN RestoreToken(written, F) ELSE written
        keep == (Allowed(restored) \cup {c} \cup (IF renewal THEN {w.dev.id} ELSE {})) \ {None}
        pruned == Prune(restored, keep, F)
        kept == /\ same /\ renewal /\ topic = "Authenticate"
                /\ written.dev.sealed # None /\ ~Restores(written, F)
                /\ pruned = restored /\ "prune" \notin F
    IN  IF kept THEN Capture(pruned, TRUE) ELSE pruned

(* apply_refusal: park what is not allowed and put the Mac's own token and  *)
(* certificate back; a restore that fails is remembered on the alert.       *)
Refuse(w, c, F) ==
    LET stale == c \notin Assoc(w)
        live == Enrolled(w) /\ ~stale
        parked == Park(w, ({c} \cup Assoc(w)) \ Allowed(w), F)
        tokened == IF ~live \/ "token" \in F THEN parked
                   ELSE IF w.dev.sealed # None THEN WriteToken(parked)
                   ELSE [parked EXCEPT !.nano.token = None, !.nano.stamped = FALSE]
        wiped == live /\ w.dev.sealed = None /\ "token" \notin F
        owed == w.dev.pem # None /\ c # w.dev.id
    IN  [tokened EXCEPT
           !.dev.escrowed = IF ~stale /\ (w.dev.sealed = None \/ ~live \/ "token" \in F)
                            THEN FALSE ELSE @,
           !.nano.id = IF owed /\ "pem" \notin F THEN w.dev.pem ELSE @,
           !.alarm = [recent |-> TRUE, redo |-> IF owed /\ "pem" \in F THEN c ELSE None]]

----------------------------------------------------------------------------
(* The renewal's task ends.                                                 *)
Open(w, c) == w.row[c].task = "open"
Fail(w, S, how) ==
    [w EXCEPT !.row = [c \in Certs |-> IF c \in S /\ Open(w, c)
                                       THEN [@[c] EXCEPT !.task = how, !.live = FALSE] ELSE @[c]]]

(* finish_renewal: the previous certificate and the snapshot go.            *)
Finish(w, c, F) ==
    LET cleared == [w EXCEPT !.row[c].pem = None]
    IN  IF w.dev.id # c \/ c \notin Bound(w) THEN cleared
        ELSE Prune([cleared EXCEPT !.snapshot = {}], {c}, F)

(* (mutant) the renewal's row keeps no certificate of its own to go back to. *)
RollBackKeepingPem(w, c, F) ==
    IF c \notin Bound(w) THEN w
    ELSE [w EXCEPT !.row[c].holds = FALSE, !.row[c].live = FALSE, !.dev.id = BoundBefore(w, c)]

(* fail_renewal with force: back to the previous certificate, while NanoMDM *)
(* still associates it.                                                     *)
RollBack(w, c, F) ==
    LET expired == [w EXCEPT !.row[c].live = FALSE]
        before == BoundBefore(w, c)
        previous == IF before = None /\ Cardinality(w.snapshot) = 1
                    THEN CHOOSE b \in w.snapshot : TRUE ELSE before
        pem == IF w.row[c].pem = previous THEN previous ELSE None
        mine == w.dev.id = c
        forgotten == [expired EXCEPT !.row[c].holds = FALSE, !.row[c].pem = None]
        restored == IF ~mine THEN forgotten
                    ELSE [forgotten EXCEPT
                            !.dev.id = previous, !.dev.pem = pem,
                            !.nano.id = IF pem # None /\ @ = w.dev.pem /\ "pem" \notin F
                                        THEN pem ELSE @]
        keep == {IF restored.dev.id \in {None, c, previous} THEN previous ELSE restored.dev.id}
                   \cup w.snapshot
    IN  IF c \notin Bound(w) \/ previous = None \/ previous \notin Assoc(w) THEN expired
        ELSE Prune(restored, keep \ {c}, F)

(* A new certificate on the row fails what was sent under the old one; a    *)
(* fresh enrollment, unlike a renewal, drops the sealed token too.          *)
Reenroll(w, c, sameInstall) ==
    LET renewal == w.row[c].kind = "renewal"
        failed == Fail(w, IF renewal THEN Certs \ {c} ELSE Certs, "failed")
    IN  IF renewal
        THEN [failed EXCEPT !.dev.escrowed = @ /\ sameInstall /\ w.dev.sealed # None]
        ELSE [failed EXCEPT !.dev.escrowed = FALSE, !.dev.sealed = None]

(* (mutant) the first TokenUpdate prunes, though the task is still open. *)
FinishAtOnce(w, c, F) == Finish(w, c, F)
FinishOnTokenUpdate(w, c, F) ==
    IF w.row[c].task \in {"none", "open"} \/ \E b \in Renewals(w) : b > c /\ Open(w, b) THEN w
    ELSE Finish(w, c, F)

(* _bind_row: a fresh bind implies a re-enrollment or a renewal.            *)
Bind(w, c, topic, F) ==
    LET accepted == Accept(w, c, topic, F)
        anew == Fresh(w, c) \/ NewInstall(w, c)
        enrolled == IF anew THEN Reenroll(accepted, c, SameInstall(w, c, topic)) ELSE accepted
        rts == IF anew /\ w.row[c].kind = "rts" THEN Capture(enrolled, FALSE) ELSE enrolled
    IN  IF topic = "TokenUpdate" /\ w.row[c].kind = "renewal"
        THEN FinishOnTokenUpdate(rts, c, F) ELSE rts

----------------------------------------------------------------------------
(* The handlers.                                                            *)
Failing(F) == /\ F = {} \/ faults + mishaps < MaxTroubles
              /\ faults' = faults + Cardinality(F)
Faults == {{}} \cup {{f} : f \in {"prune", "park", "token", "pem"}}

Mishap(n) == (n = 0 \/ faults + mishaps < MaxTroubles) /\ mishaps' = mishaps + n
Arrives(m) == \E i \in 1 .. Len(inbox) :
                /\ inbox[i] = m /\ inbox' = RemoveAt(inbox, i)
                /\ Mishap(IF i = 1 THEN 0 ELSE 1)
Msg(topic, n) == [topic |-> topic, n |-> n]
Send(m) == Len(inbox) < MaxInbox /\ inbox' = Append(inbox, m)

CheckIns == {"Authenticate", "TokenUpdate"}

(* A check-in of the Mac whose recorded certificate is parked: unjudged.    *)
Stale(w, topic) == topic = "TokenUpdate" /\ Enrolled(w) /\ w.nano.id \notin Assoc(w)
MayBind(w, c) == Stands(w, c) /\ (~Takeover(w, c) \/ TakeoverAllowed(w, c))

UpsertUnjudged(topic) ==
    /\ ~saving.busy /\ Stale(World, topic)
    /\ Arrives(Msg(topic, 0))
    /\ saving' = [NotSaving EXCEPT !.busy = TRUE]
    /\ UNCHANGED <<server, mac, faults>>

UpsertRefused(topic, F) ==
    /\ ~Stale(World, topic) /\ ~MayBind(World, nano.id)
    /\ Arrives(Msg(topic, 0))
    /\ Failing(F)
    /\ Become(Refuse(World, nano.id, F))
    /\ UNCHANGED <<saving, mac>>

UpsertBound(topic, F) ==
    /\ ~saving.busy /\ ~Stale(World, topic) /\ MayBind(World, nano.id)
    /\ Arrives(Msg(topic, 0))
    /\ Failing(F)
    /\ Become(Bind(World, nano.id, topic, F))
    /\ LET c == nano.id
           inactive == dev.state # "enrolled"
           anew == Fresh(World, c) \/ NewInstall(World, c)
       IN  saving' = [busy |-> TRUE, inactive |-> inactive,
                      fresh |-> inactive \/ (anew /\ row[c].kind \in {"manual", "ade", "legacy"})]
    /\ UNCHANGED <<mac>>

(* The save after the bind, unless the device checked out in between; then  *)
(* a fresh enrollment seals a token that was stored before it.              *)
SaveUpsert ==
    /\ saving.busy
    /\ IF ~saving.inactive /\ dev.state = "unenrolled" THEN UNCHANGED server
       ELSE LET saved == [World EXCEPT !.dev.state = "enrolled"]
            IN  Become(IF saving.fresh THEN Capture(saved, FALSE) ELSE saved)
    /\ saving' = NotSaving
    /\ UNCHANGED <<inbox, mac, faults, mishaps>>

(* SetBootstrapToken: sealed when it came from the Mac's own identity.      *)
HandleSetToken(t) ==
    /\ Arrives(Msg("SetToken", t))
    /\ IF Enrolled(World) /\ Settled(World) /\ nano.token = t
       THEN dev' = [dev EXCEPT !.sealed = t, !.escrowed = TRUE]
       ELSE UNCHANGED dev
    /\ UNCHANGED <<row, snapshot, nano, alarm, saving, mac, faults>>

(* CheckOut: ignored after a recent refusal, or when NanoMDM recorded a     *)
(* certificate that is neither allowed nor parked.                          *)
HandleCheckOut ==
    /\ Arrives(Msg("CheckOut", 0))
    /\ IF alarm.recent \/ nano.id \in Assoc(World) \ Allowed(World) THEN UNCHANGED server
       ELSE Become([Fail(World, Certs, "failed") EXCEPT
                      !.dev.state = "unenrolled", !.dev.sealed = None, !.dev.escrowed = FALSE])
    /\ UNCHANGED <<saving, mac, faults>>

(* The Mac's answer to the renewal's InstallProfile. A task the timeout     *)
(* failed still takes it.                                                   *)
Answerable(c) == row[c].task \in {"open", "late"}

HandleAcknowledged(c, F) ==
    /\ Arrives(Msg("Acknowledged", c))
    /\ Failing(F)
    /\ LET done == [World EXCEPT !.row[c].task = "done"]
       IN  Become(IF ~Answerable(c) THEN World
                  ELSE IF row[c].bound = 0 THEN done ELSE Finish(done, c, F))
    /\ UNCHANGED <<saving, mac>>

HandleError(c, F) ==
    /\ Arrives(Msg("Error", c))
    /\ Failing(F)
    /\ Become(IF ~Answerable(c) THEN World
              ELSE RollBack([World EXCEPT !.row[c].task = "failed"], c, F))
    /\ UNCHANGED <<saving, mac>>

----------------------------------------------------------------------------
(* The reconciler's minute.                                                 *)
Candidate == \E c \in Certs \ Allowed(World) : nano.assoc[c] = "aged"

Reconcile(F) ==
    /\ Candidate
    /\ LET c == nano.id
           w == World
       IN  /\ ~(Stands(w, c) /\ Takeover(w, c) /\ TakeoverAllowed(w, c))
           /\ Become(IF Stands(w, c) /\ ~Takeover(w, c) THEN Accept(w, c, "none", F)
                     ELSE Refuse(w, c, F))
    /\ Failing(F)
    /\ UNCHANGED <<saving, inbox, mac, mishaps>>

RetryRefusalRestore ==
    /\ alarm.redo # None
    /\ nano' = IF dev.pem # None /\ alarm.redo # dev.id /\ nano.id = alarm.redo
               THEN [nano EXCEPT !.id = dev.pem] ELSE nano
    /\ alarm' = [alarm EXCEPT !.redo = None]
    /\ UNCHANGED <<row, dev, snapshot, saving, inbox, mac, faults, mishaps>>

RetryBootstrapRestore ==
    /\ Enrolled(World) /\ ~dev.escrowed /\ dev.sealed # None
    /\ Settled(World) /\ ~nano.stamped
    /\ Become(WriteToken(World))
    /\ UNCHANGED <<saving, inbox, mac, faults, mishaps>>

CaptureToken ==
    /\ Capture(World, FALSE) # World
    /\ Become(Capture(World, FALSE))
    /\ UNCHANGED <<saving, inbox, mac, faults, mishaps>>

----------------------------------------------------------------------------
(* Issuing. A certificate number is taken in order of creation.             *)
NextCert(c) == row[c].kind = "free" /\ \A b \in Certs : b < c => row[b].kind # "free"

(* _keep_bootstrap_copy: sealed before a renewal clears it in NanoMDM.      *)
CopyKept(w) ==
    IF ~w.dev.escrowed \/ w.dev.sealed # None THEN w
    ELSE IF w.nano.token = None THEN [w EXCEPT !.dev.escrowed = FALSE]
    ELSE [w EXCEPT !.dev.sealed = w.nano.token]
MayCopy(w) == ~w.dev.escrowed \/ w.dev.sealed # None \/ (~w.alarm.recent /\ Settled(w))

(* The renewal is sent when NanoMDM associates exactly the identity.        *)
Renew(c) ==
    /\ NextCert(c) /\ "renewal" \in LaterKinds
    /\ Enrolled(World)
    /\ \A b \in Certs : ~Open(World, b)
    /\ LET expected == IF dev.id # None THEN dev.id ELSE nano.id
       IN  Assoc(World) = {expected} /\ nano.id = expected
    /\ MayCopy(World)
    /\ Become([CopyKept(World) EXCEPT
                 !.row[c] = [FreeRow EXCEPT !.kind = "renewal", !.live = TRUE,
                                            !.task = "open", !.pem = nano.id]])
    /\ UNCHANGED <<saving, inbox, mac, faults, mishaps>>

(* A renewal's task times out, or is cancelled.                             *)
EndTask(c, how) ==
    /\ Open(World, c)
    /\ Mishap(1)
    /\ Become(Fail(World, {c}, how))
    /\ UNCHANGED <<saving, inbox, mac, faults>>

(* An administrator allows a re-enrollment; an erase is acknowledged.       *)
Allow == /\ ~dev.allowance /\ "manual" \in LaterKinds
         /\ dev' = [dev EXCEPT !.allowance = TRUE]
         /\ UNCHANGED <<row, snapshot, nano, alarm, saving, inbox, mac, faults, mishaps>>

(* Five minutes pass: an association is old enough for the reconciler, a    *)
(* refusal is no longer recent. Webhooks take less.                         *)
Quiet == inbox = <<>> /\ ~saving.busy

AgeAssociations ==
    /\ Quiet
    /\ \E c \in Certs : nano.assoc[c] = "young"
    /\ nano' = [nano EXCEPT !.assoc = [c \in Certs |-> IF @[c] = "young" THEN "aged" ELSE @[c]]]
    /\ UNCHANGED <<row, dev, snapshot, alarm, saving, inbox, mac, faults, mishaps>>

RefusalLapses ==
    /\ Quiet /\ alarm.recent
    /\ alarm' = [alarm EXCEPT !.recent = FALSE]
    /\ UNCHANGED <<row, dev, snapshot, nano, saving, inbox, mac, faults, mishaps>>

----------------------------------------------------------------------------
(* The Mac and NanoMDM.                                                     *)
Authenticated(c) ==
    [nano EXCEPT !.id = c, !.token = None, !.stamped = FALSE,
                 !.assoc[c] = IF @ \in Held THEN @ ELSE "young"]

(* An enrollment or a check-out clears the queue: what was issued so far    *)
(* is not answered any more.                                                *)
Issued == {c \in Certs : row[c].kind # "free"}

(* The renewal profile arrives: the Mac asks for its certificate.           *)
MacRenews(c) ==
    /\ row[c].kind = "renewal" /\ ~row[c].used /\ row[c].live
    /\ mac.using # None /\ mac.trying = None /\ c \notin mac.answered
    /\ row' = [row EXCEPT ![c].used = TRUE]
    /\ mac' = [mac EXCEPT !.trying = c]
    /\ UNCHANGED <<dev, snapshot, nano, alarm, saving, inbox, faults, mishaps>>

MacAuthenticates ==
    /\ mac.trying # None /\ nano.assoc[mac.trying] = "no"
    /\ nano' = Authenticated(mac.trying)
    /\ Send(Msg("Authenticate", 0))
    /\ UNCHANGED <<row, dev, snapshot, alarm, saving, mac, faults, mishaps>>

(* Its TokenUpdate commits the Mac to the new certificate; the answer       *)
(* follows. A profile that will not install leaves it with the old one.     *)
MacConfirms ==
    /\ mac.trying # None /\ mac.trying \in Assoc(World)
    /\ mac' = [mac EXCEPT !.using = mac.trying, !.trying = None]
    /\ Send(Msg("TokenUpdate", 0))
    /\ UNCHANGED <<server, saving, faults, mishaps>>

MacAcknowledges(c) ==
    /\ row[c].kind = "renewal" /\ mac.using = c /\ c \notin mac.answered
    /\ c \in Assoc(World)
    /\ Send(Msg("Acknowledged", c))
    /\ mac' = [mac EXCEPT !.answered = @ \cup {c}]
    /\ UNCHANGED <<server, saving, faults, mishaps>>

MacFails(c) ==
    /\ row[c].kind = "renewal" /\ c \notin mac.answered
    /\ mac.using \in Assoc(World) \ {c}
    /\ mac.trying = c \/ (mac.trying = None /\ ~row[c].used)
    /\ Send(Msg("Error", c))
    /\ mac' = [mac EXCEPT !.trying = None, !.answered = @ \cup {c}]
    /\ UNCHANGED <<server, saving, faults, mishaps>>

MacTokenUpdate ==
    /\ mac.using \in Assoc(World) /\ mac.trying = None
    /\ ~Contains(inbox, Msg("TokenUpdate", 0))
    /\ Send(Msg("TokenUpdate", 0))
    /\ UNCHANGED <<server, saving, mac, faults, mishaps>>

MacSetsToken ==
    /\ mac.using \in Assoc(World) /\ mac.tokens < MaxTokens
    /\ LET t == mac.tokens + 1
       IN  /\ mac' = [mac EXCEPT !.tokens = t, !.token = t]
           /\ nano' = [nano EXCEPT !.token = t, !.stamped = TRUE]
           /\ Send(Msg("SetToken", t))
    /\ UNCHANGED <<row, dev, snapshot, alarm, saving, faults, mishaps>>

(* The Mac enrolls again: after an erase the server sent (Return to Service *)
(* and Automated Enrollment), or by hand.                                   *)
MacEnrolls(c, kind, erased) ==
    /\ NextCert(c) /\ kind \in LaterKinds \cap {"manual", "ade", "rts"}
    /\ erased \/ kind # "rts"
    /\ Quiet
    /\ row' = [row EXCEPT ![c] = [FreeRow EXCEPT !.kind = kind, !.used = TRUE]]
    /\ mac' = [mac EXCEPT !.using = c, !.trying = None, !.token = None, !.answered = Issued]
    /\ dev' = [dev EXCEPT !.erased = @ \/ erased]
    /\ nano' = Authenticated(c)
    /\ Send(Msg("Authenticate", 0))
    /\ UNCHANGED <<snapshot, alarm, saving, faults, mishaps>>

MacChecksOut ==
    /\ mac.using \in Assoc(World)
    /\ mac' = [mac EXCEPT !.using = None, !.trying = None, !.token = None, !.answered = Issued]
    /\ Send(Msg("CheckOut", 0))
    /\ UNCHANGED <<server, saving, faults, mishaps>>

(* Another machine under the same udid, with a certificate whose challenge  *)
(* is not this device's: its check-ins reach NanoMDM like the Mac's.        *)
OtherAuthenticates(c) ==
    /\ NextCert(c) /\ "stray" \in LaterKinds
    /\ Quiet
    /\ row' = [row EXCEPT ![c].kind = "stray"]
    /\ nano' = Authenticated(c)
    /\ Send(Msg("Authenticate", 0))
    /\ UNCHANGED <<dev, snapshot, alarm, saving, mac, faults, mishaps>>

OtherSetsToken(c) ==
    /\ row[c].kind = "stray" /\ c \in Assoc(World) /\ nano.token # Alien
    /\ nano' = [nano EXCEPT !.token = Alien, !.stamped = TRUE]
    /\ Send(Msg("SetToken", Alien))
    /\ UNCHANGED <<row, dev, snapshot, alarm, saving, mac, faults, mishaps>>

LoseWebhook ==
    /\ inbox # <<>>
    /\ inbox' = Tail(inbox)
    /\ Mishap(1)
    /\ UNCHANGED <<server, saving, mac, faults>>

----------------------------------------------------------------------------
Init ==
    /\ \E kind \in FirstKinds, known \in BOOLEAN, t \in {None, MaxTokens} :
         /\ known \/ kind = "legacy"
         /\ row = [c \in Certs |-> IF c # 1 THEN FreeRow
                                   ELSE [FreeRow EXCEPT !.kind = kind, !.used = kind # "legacy",
                                           !.bound = IF kind = "legacy" THEN 0 ELSE 1,
                                           !.holds = kind # "legacy"]]
         /\ dev = [state |-> "enrolled", id |-> IF known THEN 1 ELSE None,
                   pem |-> IF known THEN 1 ELSE None, sealed |-> None,
                   escrowed |-> t # None, erased |-> FALSE, allowance |-> FALSE]
         /\ snapshot = IF kind = "legacy" THEN {1} ELSE {}
         /\ nano = [id |-> 1, assoc |-> [c \in Certs |-> IF c = 1 THEN "aged" ELSE "no"],
                    token |-> t, stamped |-> t # None]
         /\ mac = [using |-> 1, trying |-> None, answered |-> {}, token |-> t,
                   tokens |-> t]
    /\ alarm = [recent |-> FALSE, redo |-> None]
    /\ saving = NotSaving /\ inbox = <<>> /\ faults = 0 /\ mishaps = 0

Handle ==
    \/ \E topic \in CheckIns : UpsertUnjudged(topic)
    \/ \E topic \in CheckIns, F \in Faults : UpsertRefused(topic, F) \/ UpsertBound(topic, F)
    \/ SaveUpsert
    \/ \E t \in 1 .. Alien : HandleSetToken(t)
    \/ HandleCheckOut
    \/ \E c \in Certs, F \in Faults : HandleAcknowledged(c, F) \/ HandleError(c, F)

Minute == (\E F \in Faults : Reconcile(F)) \/ RetryRefusalRestore \/ RetryBootstrapRestore
             \/ CaptureToken
Issue == \/ \E c \in Certs : Renew(c)
         \/ \E c \in Certs, how \in {"late", "cancelled"} : EndTask(c, how)
         \/ Allow \/ AgeAssociations \/ RefusalLapses
Outside ==
    \/ \E c \in Certs : MacRenews(c) \/ MacFails(c) \/ MacAcknowledges(c)
                        \/ OtherAuthenticates(c) \/ OtherSetsToken(c)
    \/ \E c \in Certs, kind \in LaterKinds, erased \in BOOLEAN : MacEnrolls(c, kind, erased)
    \/ MacAuthenticates \/ MacConfirms \/ MacTokenUpdate \/ MacSetsToken \/ MacChecksOut
    \/ LoseWebhook

Next == Handle \/ Minute \/ Issue \/ Outside

Spec == Init /\ [][Next]_vars

----------------------------------------------------------------------------
(* identity_pem is only ever the certificate identity_sha256 names, or      *)
(* empty, through binds, refusals and rollbacks: a refusal would otherwise  *)
(* put a certificate into NanoMDM that the device row does not allow.       *)
PemNamesIdentity == dev.pem \in {None, dev.id}

(* The certificate the Mac uses, once accepted, is not pruned under it, as  *)
(* long as webhooks come in order and renewals end with their answer: a Mac *)
(* whose association is gone can no longer be managed.                      *)
NoLockout ==
    /\ mac.using # None /\ (row[mac.using].kind = "legacy" \/ row[mac.using].bound > 0)
    /\ mishaps = 0
    => nano.assoc[mac.using] # "no"

(* The sealed copy of the token the Mac still has is neither dropped nor    *)
(* replaced, when no write fails and webhooks come in order: not by a       *)
(* renewal, a refusal or a capture. Another machine's token stored while a  *)
(* renewal is under way, or just after a refusal, is not covered.           *)
CopyOutlives ==
    [][/\ dev.sealed # None /\ dev.sealed = mac.token /\ mac'.token = mac.token
       /\ ~(nano.token = Alien /\ (alarm.recent \/ \E c \in Certs : Open(World, c)))
       /\ faults' + mishaps' = 0
       => dev'.sealed = dev.sealed]_vars

(* bootstrap_token_escrowed is only set while NanoMDM holds a token, when   *)
(* no webhook is on its way and nothing but the Mac used its udid.          *)
FlagTrue ==
    dev.escrowed /\ Quiet /\ mishaps = 0 /\ (\A c \in Certs : row[c].kind # "stray")
    => nano.token # None

(* A certificate whose renewal was rolled back is never the device's again. *)
RolledBackStays ==
    [][\A c \in Certs : row[c].bound > 0 /\ ~row[c].holds /\ dev.id # c => dev'.id # c]_vars
=============================================================================
