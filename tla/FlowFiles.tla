------------------------------ MODULE FlowFiles ------------------------------
(* flows.yaml and the people who edit it: the configuration routes           *)
(* (api/routes/config.py), the redaction of secrets (api/redaction.py), the  *)
(* drafts (services/flow_drafts.py, api/routes/flows.py) and the save gate   *)
(* (services/flow_gate.py).                                                  *)
(*                                                                           *)
(* An editor works on a copy in which every password reads as the sentinel   *)
(* and sends the whole document back. A request is one step: no handler      *)
(* awaits anything between its checks and its write.                         *)
(*                                                                           *)
(* Of a flow's nodes there is one that may hold a password; "sound" says its *)
(* nodes and edges pass the structural checks, "setup" that it has a Setup   *)
(* Assistant step. What the gate finds beyond that only blocks a save.       *)
EXTENDS Integers, Sequences, FiniteSets

CONSTANTS
    Ids,         \* ids of live flows; the draft of a flow is named after it
    First,       \* the id of default_enrollment_flow
    Passwords,   \* what may be typed
    NoPassword,
    Sentinel,    \* REDACTED
    Clients,     \* editors
    MaxEvents    \* edits, drafts, restores and failures

ASSUME FlowFilesAssumption ==
    /\ First \in Ids /\ MaxEvents \in Nat
    /\ Sentinel \notin Passwords /\ NoPassword \notin Passwords \cup {Sentinel}

VARIABLES
    disk,      \* flows.yaml
    history,   \* what _snapshot_config_history has kept
    client,    \* what each editor has open
    waived,    \* has somebody acknowledged a misplaced Setup Assistant step?
    events

filesVars == <<disk, history, client, waived, events>>

NoFile == [exists |-> FALSE, flows |-> <<>>]
File(flows) == [exists |-> TRUE, flows |-> flows]
Closed == [open |-> FALSE, copy |-> <<>>, meant |-> <<>>, version |-> NoFile]
Event == events < MaxEvents /\ events' = events + 1

-----------------------------------------------------------------------------
(* Flows.                                                                    *)
NewFlow(id, setup) == [id |-> id, draft |-> FALSE, base |-> {}, permanent |-> FALSE,
                       enabled |-> TRUE, password |-> NoPassword, sound |-> TRUE, setup |-> setup]
Default == <<[NewFlow(First, TRUE) EXCEPT !.permanent = TRUE]>>

Key(f) == <<f.id, f.draft>>
IsLive(f) == ~f.draft
Keys(flows) == {Key(flows[i]) : i \in DOMAIN flows}
At(flows, key) == CHOOSE i \in DOMAIN flows : Key(flows[i]) = key

\* The flows at the positions of S, in their order.
Ordinal(S, i) == Cardinality({j \in S : j <= i})
Kept(flows, S) == [n \in 1..Cardinality(S) |-> flows[CHOOSE i \in S : Ordinal(S, i) = n]]
Without(flows, key) == Kept(flows, {i \in DOMAIN flows : Key(flows[i]) # key})

\* _flow_hash: everything but the flag and what drafts add.
Hash(f) == [enabled |-> f.enabled, password |-> f.password, sound |-> f.sound, setup |-> f.setup]

\* _flagged_permanent_id and _permanent_id, as a set of at most one id.
FirstOf(flows, S) == {flows[i].id : i \in {j \in S : \A k \in S : j <= k}}
LiveFlows(flows) == {i \in DOMAIN flows : IsLive(flows[i])}
Marked(flows) == {i \in LiveFlows(flows) : flows[i].permanent}
Flagged(flows) == FirstOf(flows, Marked(flows))
Permanent(flows) == FirstOf(flows, IF Marked(flows) # {} THEN Marked(flows) ELSE LiveFlows(flows))

\* normalize_flow_document, of a document as the routes store it.
Normalized(flows) ==
    [i \in DOMAIN flows |-> [flows[i] EXCEPT !.permanent = IsLive(flows[i]) /\ flows[i].id \in Permanent(flows)]]

Redacted(flows) ==
    [i \in DOMAIN flows |->
        [flows[i] EXCEPT !.password = IF @ = NoPassword THEN @ ELSE Sentinel]]

\* (mutant) Only what is stored is put back.
RestoredIfStored(flows, stored) ==
    [i \in DOMAIN flows |->
        IF flows[i].password = Sentinel /\ Key(flows[i]) \in Keys(stored)
        THEN [flows[i] EXCEPT !.password = stored[At(stored, Key(flows[i]))].password]
        ELSE flows[i]]

\* _restore_flow_secrets: by flow and node, and dropped if nothing is stored there.
Restored(flows, stored) ==
    [i \in DOMAIN flows |->
        IF flows[i].password # Sentinel THEN flows[i]
        ELSE [flows[i] EXCEPT !.password = IF Key(flows[i]) \in Keys(stored)
                                           THEN stored[At(stored, Key(flows[i]))].password
                                           ELSE NoPassword]]

-----------------------------------------------------------------------------
(* The save gate: check_flows_document. The findings it lets through on a    *)
(* draft are left out.                                                       *)
Finding(code, id) == [code |-> code, id |-> id]

DocumentShape(flows) ==
    {Finding("flow-duplicate-id", flows[i].id) : i \in
        {j \in DOMAIN flows : \E k \in 1..(j - 1) : Key(flows[k]) = Key(flows[j])}}
    \cup {Finding("draft-target-missing", flows[i].id) : i \in
        {j \in DOMAIN flows : flows[j].draft /\ <<flows[j].id, FALSE>> \notin Keys(flows)}}

Protection(flows, prior) ==
    LET was == Permanent(prior)
        now == Permanent(flows)
        flow(id) == flows[At(flows, <<id, FALSE>>)]
    IN  UNION {
            IF <<id, FALSE>> \notin Keys(flows)
            THEN {Finding("permanent-flow-deleted", id)}
            ELSE (IF Flagged(flows) = {} /\ now # was
                  THEN {Finding("permanent-flow-missing", id)} ELSE {})
                 \cup (IF Flagged(flows) \notin {{}, was}
                       THEN {Finding("permanent-flag-moved", id)} ELSE {})
                 \cup (IF ~flow(id).enabled
                       THEN {Finding("permanent-flow-disabled", id)} ELSE {})
            : id \in was}

Scoping(flows) ==
    {Finding("enrollment-node-outside-enrollment-flow", flows[i].id) : i \in
        {j \in DOMAIN flows : IsLive(flows[j]) /\ flows[j].setup /\ flows[j].id \notin Permanent(flows)}}

\* An empty document is found nothing wrong with.
Findings(flows, prior) ==
    LET protection == Protection(flows, prior)
    IN  IF flows = <<>> THEN {}
        ELSE DocumentShape(flows) \cup protection
             \cup (IF \E f \in protection : f.code = "permanent-flow-deleted" THEN {} ELSE Scoping(flows))

Acknowledgeable(f) ==
    f.code \notin {"permanent-flow-deleted", "flow-duplicate-id", "draft-target-missing"}

Blocking(found, acknowledged) == {f \in found : ~(acknowledged /\ Acknowledgeable(f))}

Misplaces(found) == \E f \in found : f.code = "enrollment-node-outside-enrollment-flow"

-----------------------------------------------------------------------------
(* _apply_config_update: validate, snapshot, write.                          *)

\* YAMLValidator: a draft's errors are only warnings.
Valid(flows) ==
    /\ Cardinality(Marked(flows)) <= 1
    /\ \A i \in LiveFlows(flows) : flows[i].sound

\* ensure_enrollment_flow comes first; the write may fail after the snapshot.
Applied(flows) ==
    LET before == IF disk.exists THEN disk ELSE File(Default)
    IN  /\ Valid(flows)
        /\ history' = history \cup {before.flows}
        /\ disk' = File(flows)

WriteFails ==
    /\ Event /\ disk.exists
    /\ history' = history \cup {disk.flows}
    /\ UNCHANGED <<disk, client, waived>>

\* (mutant) The last save wins.
CurrentAlways(c) == TRUE

\* _check_config_version.
Current(c) == client[c].version = NoFile \/ disk = NoFile \/ client[c].version = disk

-----------------------------------------------------------------------------
(* Editors. Each keeps the copy it was given with its edits made, "meant" is *)
(* the same edits made on the document itself.                               *)
Opened(file) == [open |-> TRUE, copy |-> Redacted(Normalized(file.flows)),
                 meant |-> Normalized(file.flows), version |-> file]

\* Only an editor with nothing unsaved reads again. With no file there is nothing open.
Load(c) ==
    /\ ~client[c].open
    /\ client' = [client EXCEPT ![c] = Opened(disk)]
    /\ UNCHANGED <<disk, history, waived, events>>

Close(c) ==
    /\ client[c].open
    /\ client' = [client EXCEPT ![c] = Closed]
    /\ UNCHANGED <<disk, history, waived, events>>

\* What an editor may do to the i-th flow; a draft goes with its flow.
Changes(f) ==
    {[f EXCEPT !.password = p] : p \in Passwords \cup {NoPassword}}
    \cup {[f EXCEPT !.sound = ~@], [f EXCEPT !.setup = ~@]}
    \cup (IF f.draft THEN {} ELSE {[f EXCEPT !.permanent = ~@], [f EXCEPT !.enabled = ~@]})

EditFlow(c, i, f) ==
    /\ Event
    /\ client' = [client EXCEPT ![c].copy[i] = f,
                                ![c].meant[i] = [f EXCEPT !.password =
                                    IF f.password = Sentinel THEN client[c].meant[i].password ELSE @]]
    /\ UNCHANGED <<disk, history, waived>>

AddFlow(c, id) ==
    /\ Event /\ <<id, FALSE>> \notin Keys(client[c].copy)
    /\ client' = [client EXCEPT ![c].copy = Append(@, NewFlow(id, FALSE)),
                                ![c].meant = Append(@, NewFlow(id, FALSE))]
    /\ UNCHANGED <<disk, history, waived>>

DeleteFlow(c, id) ==
    LET less(flows) == Kept(flows, {i \in DOMAIN flows : flows[i].id # id})
    IN  /\ Event /\ <<id, FALSE>> \in Keys(client[c].copy)
        /\ client' = [client EXCEPT ![c].copy = less(@), ![c].meant = less(@)]
        /\ UNCHANGED <<disk, history, waived>>

Edit(c) ==
    /\ client[c].open
    /\ \/ \E i \in DOMAIN client[c].copy :
             \E f \in Changes(client[c].copy[i]) \ {client[c].copy[i]} : EditFlow(c, i, f)
       \/ \E id \in Ids : AddFlow(c, id) \/ DeleteFlow(c, id)

\* update_yaml_config.
Put(c, acknowledged) ==
    LET flows == Restored(client[c].copy, disk.flows)
        found == Findings(flows, disk.flows)
    IN  /\ client[c].open
        /\ Blocking(found, acknowledged) = {}
        /\ Applied(flows)
        /\ waived' = (waived \/ (acknowledged /\ Misplaces(found)))

\* The console goes on with its copy, at the version it has just written.
SaveCopy(c) ==
    /\ Current(c) /\ \E acknowledged \in BOOLEAN : Put(c, acknowledged)
    /\ client' = [client EXCEPT ![c].version = disk', ![c].meant = disk'.flows]
    /\ UNCHANGED events

\* The command-line tool (yaml update) sends no version.
SaveBlind(c) ==
    /\ Event /\ Put(c, FALSE)
    /\ client' = [client EXCEPT ![c] = Closed]

-----------------------------------------------------------------------------
(* Drafts. The handlers work on the document as it is, whatever copy their   *)
(* caller has, and refuse only findings the change brings in.                *)
DraftOf(f) == [f EXCEPT !.draft = TRUE, !.base = {Hash(f)}, !.permanent = FALSE, !.enabled = TRUE]

\* (mutant) A draft was looked at when it was saved.
IntroducedNone(flows) == {}

Introduced(flows) == Findings(flows, disk.flows) \ Findings(disk.flows, disk.flows)

\* create_flow_draft. The console adds the draft to its copy.
CreateDraft(c, id) ==
    LET flows == disk.flows
        draft == DraftOf(flows[At(flows, <<id, FALSE>>)])
    IN  /\ Event /\ Current(c) /\ disk.exists
        /\ <<id, FALSE>> \in Keys(flows) /\ <<id, TRUE>> \notin Keys(flows)
        /\ Blocking(Introduced(Append(flows, draft)), FALSE) = {}
        /\ Applied(Append(flows, draft))
        /\ client' = [client EXCEPT ![c].copy = @ \o Redacted(<<draft>>),
                                    ![c].meant = Append(@, draft), ![c].version = disk']
        /\ UNCHANGED waived

\* flow_drafts.promote.
Promoted(flows, id) ==
    LET draft  == flows[At(flows, <<id, TRUE>>)]
        onto(f) == [f EXCEPT !.password = draft.password, !.sound = draft.sound, !.setup = draft.setup]
    IN  Without([i \in DOMAIN flows |->
                    IF Key(flows[i]) = <<id, FALSE>> THEN onto(flows[i]) ELSE flows[i]], <<id, TRUE>>)

Drifted(flows, id) ==
    Hash(flows[At(flows, <<id, FALSE>>)]) \notin flows[At(flows, <<id, TRUE>>)].base

\* promote_flow_draft. The console reads the document again.
Promote(c, id) ==
    LET flows == Promoted(disk.flows, id)
    IN  /\ Event /\ Current(c)
        /\ {<<id, FALSE>>, <<id, TRUE>>} \subseteq Keys(disk.flows)
        /\ \E force, acknowledged \in BOOLEAN :
              /\ force \/ ~Drifted(disk.flows, id)
              /\ Blocking(Introduced(flows), acknowledged) = {}
              /\ waived' = (waived \/ (acknowledged /\ Misplaces(Introduced(flows))))
        /\ Applied(flows)
        /\ client' = [client EXCEPT ![c] = Opened(disk')]

\* discard_flow_draft. The console drops the draft from its copy.
Discard(c, id) ==
    /\ Event /\ Current(c)
    /\ <<id, TRUE>> \in Keys(disk.flows)
    /\ Applied(Without(disk.flows, <<id, TRUE>>))
    /\ client' = [client EXCEPT ![c].copy = Without(@, <<id, TRUE>>),
                                ![c].meant = Without(@, <<id, TRUE>>), ![c].version = disk']
    /\ UNCHANGED waived

\* restore_config_history_version: no gate, and the passwords of that time.
Restore(c) ==
    /\ Event /\ Current(c)
    /\ \E flows \in history : Applied(flows)
    /\ client' = [client EXCEPT ![c] = Opened(disk')]
    /\ UNCHANGED waived

\* ensure_enrollment_flow, when the controller starts or another file is saved.
Provision ==
    /\ ~disk.exists /\ disk' = File(Default)
    /\ UNCHANGED <<history, client, waived, events>>

-----------------------------------------------------------------------------
\* A new tenant, or one whose flows hold a password of their own.
FilesInit ==
    /\ \/ disk = NoFile
       \/ \E id \in Ids \ {First}, p \in Passwords : \E q \in Passwords \ {p} :
             disk = File(<<[Default[1] EXCEPT !.password = p],
                           [NewFlow(id, FALSE) EXCEPT !.password = q]>>)
    /\ history = {}
    /\ client = [c \in Clients |-> Closed]
    /\ waived = FALSE
    /\ events = 0

Requests(c) ==
    /\ client[c].open
    /\ \/ SaveCopy(c) \/ SaveBlind(c) \/ Restore(c)
       \/ \E id \in Ids : CreateDraft(c, id) \/ Promote(c, id) \/ Discard(c, id)

FilesNext ==
    \/ \E c \in Clients : Load(c) \/ Close(c) \/ Edit(c) \/ Requests(c)
    \/ Provision \/ WriteFails

FilesSpec == FilesInit /\ [][FilesNext]_filesVars

-----------------------------------------------------------------------------
\* Whatever the editors do to it between them, by whole documents saved over each
\* other, drafts and restores, the document stays one the engine can run: each
\* flow and draft is there once, one flow at most is the enrollment flow, every
\* live flow passes the checks, every draft has its flow, and no password has
\* become the sentinel it is shown as (update_yaml_config, restore_config_secrets).
WellFormed ==
    LET flows == disk.flows
    IN  /\ Cardinality(Keys(flows)) = Len(flows)
        /\ Valid(flows)
        /\ \A i \in DOMAIN flows :
              /\ flows[i].draft => <<flows[i].id, FALSE>> \in Keys(flows)
              /\ flows[i].password # Sentinel

\* A save that names the version it was based on writes what its editor meant:
\* the document as it stands with the edits made, no password lost, none swapped,
\* and nobody else's work undone (_check_config_version, _restore_flow_secrets).
SavedAsMeant ==
    [][\A c \in Clients : SaveCopy(c) /\ client[c].version # NoFile => disk'.flows = client[c].meant]_filesVars

\* Setup Assistant steps are found in the enrollment flow and nowhere else, by
\* whatever drafts and restores they came, unless somebody acknowledged one out of
\* place (_check_scoping, promote_flow_draft).
SetupStepsScoped ==
    waived \/ \A i \in DOMAIN disk.flows :
        IsLive(disk.flows[i]) /\ disk.flows[i].setup => disk.flows[i].id \in Permanent(disk.flows)

\* The enrollment flow is not deleted, whatever is acknowledged (_check_protection
\* says it "cannot be deleted"). An empty document, and a restore, do delete it.
EnrollmentFlowStays ==
    [][\A id \in Permanent(disk.flows) : <<id, FALSE>> \in Keys(disk'.flows)]_filesVars
=============================================================================
