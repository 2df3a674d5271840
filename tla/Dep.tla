-------------------------------- MODULE Dep --------------------------------
(* Automated enrollment: dep_manager.py and the endpoints of api/dep.py,    *)
(* for one tenant linked to one server at Apple.                            *)
(*                                                                          *)
(* Apple keeps a log of what happened to each serial number. A cursor is a  *)
(* position in it; a fetch without one lists what is assigned now. A sync   *)
(* collects the records past its cursor, applies them to the device rows    *)
(* one at a time, assigns the default profile to the rows it created, and   *)
(* only then saves the cursor. The enrollment profile has a definition in   *)
(* profiles.yaml and one at Apple, under a new uuid at each definition.     *)
EXTENDS Integers, Sequences, FiniteSets

CONSTANTS
    Serials,    \* serial numbers
    Invalid,    \* versions of the profile that Apple would refuse
    Syncers,    \* who syncs and pushes profiles: the tick, an administrator
    Overlaps,   \* what else may happen: sync, enroll (below)
    MaxEvents   \* operations at Apple, by administrators, and faults

ASSUME DepAssumption == IsFiniteSet(Serials)

VARIABLES
    log,        \* Apple: the operations, oldest first
    defined,    \* Apple: the version under each profile uuid
    yaml,       \* the version of the profile in profiles.yaml
    row,        \* the device rows
    link,       \* the DepServer row
    mapping,    \* the DepProfile row
    sync,       \* each syncer's sync
    push,       \* each pusher's push
    upload,     \* an administrator's token upload
    missed,     \* history: rows of devices gone by the time of a full fetch
    events

vars == <<log, defined, yaml, row, link, mapping, sync, push, upload, missed,
          events>>
work == <<sync, push, upload, missed>>

NoUuid == 0
NoCursor == -1
Absent == [state |-> "none", dep |-> FALSE, uuid |-> NoUuid, status |-> "empty", refused |-> FALSE]
NoMapping == [exists |-> FALSE, uuid |-> NoUuid, hash |-> 0]
NotSyncing == [pc |-> "idle", cursor |-> NoCursor, recs |-> <<>>, known |-> {}, todo |-> {},
               created |-> {}, profile |-> NoUuid, ok |-> TRUE]
NotPushing == [pc |-> "idle", version |-> 0, uuid |-> NoUuid]

Event == events < MaxEvents /\ events' = events + 1

----------------------------------------------------------------------------
(* Apple.                                                                   *)
LastOf(s, from, to) ==      \* the last operation on s in a part of the log
    LET At == {n \in (from + 1)..to : log[n].serial = s}
    IN  log[CHOOSE n \in At : \A m \in At : m <= n]
Touched(from, to) == {log[n].serial : n \in (from + 1)..to}
Listed(s) == s \in Touched(0, Len(log)) /\ LastOf(s, 0, Len(log)).op # "deleted"
Op(s, op, uuid) == [serial |-> s, op |-> op, uuid |-> uuid]
ProfileOf(s) == IF Listed(s) THEN LastOf(s, 0, Len(log)).uuid ELSE NoUuid

Assigns(S, uuid) ==         \* one more operation for each serial of S
    \E order \in [1..Cardinality(S) -> S] :
        /\ {order[n] : n \in DOMAIN order} = S
        /\ log' = log \o [n \in DOMAIN order |-> Op(order[n], "modified", uuid)]

AppleAdds(s) ==
    /\ Event /\ ~Listed(s)
    /\ log' = Append(log, Op(s, "added", NoUuid))
    /\ UNCHANGED <<defined, yaml, row, link, mapping, work>>

AppleDeletes(s) ==
    /\ Event /\ Listed(s)
    /\ log' = Append(log, Op(s, "deleted", NoUuid))
    /\ UNCHANGED <<defined, yaml, row, link, mapping, work>>

----------------------------------------------------------------------------
(* The link: begin_link, complete_link, unlink, remove. complete_link saves *)
(* the whole row it loaded before it asked Apple.                           *)
CanSync == link.status = "linked" /\ link.token

BeginLink ==
    /\ Event /\ link.status # "gone"
    /\ link' = [link EXCEPT !.status = "awaiting_token", !.key = TRUE, !.token = FALSE]
    /\ UNCHANGED <<log, defined, yaml, row, mapping, work>>

UploadToken ==
    /\ upload.pc = "idle" /\ link.key /\ link.status # "gone"
    /\ IF CanSync THEN Event ELSE UNCHANGED events
    /\ upload' = [pc |-> "asking", link |-> link]
    /\ UNCHANGED <<log, defined, yaml, row, link, mapping, sync, push, missed>>

CompleteLink ==
    /\ upload.pc = "asking" /\ link.status # "gone"
    /\ link' = [upload.link EXCEPT !.status = "linked", !.token = TRUE]
    /\ upload' = [upload EXCEPT !.pc = "idle"]
    /\ UNCHANGED <<log, defined, yaml, row, mapping, sync, push, events, missed>>

TokenRefused ==
    /\ upload.pc = "asking" /\ Event
    /\ link' = IF link.status = "gone" THEN link ELSE [link EXCEPT !.status = "error"]
    /\ upload' = [upload EXCEPT !.pc = "idle"]
    /\ UNCHANGED <<log, defined, yaml, row, mapping, sync, push, missed>>

Unlink ==
    /\ Event /\ link.status # "gone"
    /\ link' = [status |-> "unlinked", key |-> FALSE, token |-> FALSE, cursor |-> NoCursor]
    /\ UNCHANGED <<log, defined, yaml, row, mapping, work>>

Remove ==
    /\ Event /\ link.status # "gone"
    /\ link' = [status |-> "gone", key |-> FALSE, token |-> FALSE, cursor |-> NoCursor]
    /\ mapping' = NoMapping
    /\ row' = [s \in Serials |-> IF row[s].dep
                                 THEN [row[s] EXCEPT !.dep = FALSE, !.status = "removed"]
                                 ELSE row[s]]
    /\ UNCHANGED <<log, defined, yaml, work>>

----------------------------------------------------------------------------
(* sync_devices. With "sync" in Overlaps the tick's and an administrator's  *)
(* may overlap.                                                             *)
Quiet == \A p \in Syncers : sync[p].pc = "idle"

BeginSync(p) ==
    /\ CanSync /\ sync[p].pc = "idle"
    /\ "sync" \in Overlaps \/ Quiet
    /\ p = "tick" => link.cursor # Len(log)         \* else the sync finds nothing
    /\ IF p = "tick" THEN UNCHANGED events ELSE Event
    /\ sync' = [sync EXCEPT ![p] = [NotSyncing EXCEPT !.pc = "collect", !.cursor = link.cursor]]
    /\ UNCHANGED <<log, defined, yaml, row, link, mapping, push, upload, missed>>

(* The records up to a position, the latest of each serial; the rows and    *)
(* the default profile are read with them. A full fetch does not list what  *)
(* is gone.                                                                 *)
Window(cursor, to) == IF cursor = NoCursor THEN {s \in Serials : Listed(s)} ELSE Touched(cursor, to)
RecordEarliest(s, cursor, to) ==                             \* (mutant)
    IF cursor = NoCursor THEN Op(s, "added", ProfileOf(s))
    ELSE log[CHOOSE n \in (cursor + 1)..to : log[n].serial = s
                        /\ \A m \in (cursor + 1)..(n - 1) : log[m].serial # s]
Record(s, cursor, to) == IF cursor = NoCursor THEN Op(s, "added", ProfileOf(s))
                         ELSE LastOf(s, cursor, to)
CollectFrom(p, cursor, to, ok) ==
    /\ sync[p].pc = "collect"
    /\ sync' = [sync EXCEPT ![p] =
                  [@ EXCEPT !.pc = "apply", !.ok = ok, !.cursor = IF ok THEN to ELSE cursor,
                            !.todo = Window(cursor, to),
                            !.recs = [s \in Window(cursor, to) |-> Record(s, cursor, to)],
                            !.known = {s \in Serials : row[s].state # "none"},
                            !.profile = mapping.uuid]]
    /\ missed' = IF cursor # NoCursor THEN missed
                 ELSE missed \cup {s \in Serials : row[s].dep /\ ~Listed(s)}
    /\ UNCHANGED <<log, defined, yaml, row, link, mapping, push, upload>>

Collect(p) == CollectFrom(p, sync[p].cursor, Len(log), TRUE) /\ UNCHANGED events

(* Apple keeps promising more pages: what was read is applied, but the      *)
(* cursor does not move.                                                    *)
PagingIncomplete(p) ==
    /\ Event
    /\ \E to \in (IF sync[p].cursor = NoCursor THEN {Len(log)} ELSE sync[p].cursor..Len(log)) :
           CollectFrom(p, sync[p].cursor, to, FALSE)

(* A cursor that is too old, or that Apple refuses: a full fetch.           *)
CursorRefused(p) ==
    /\ sync[p].cursor # NoCursor /\ Event
    /\ CollectFrom(p, NoCursor, Len(log), TRUE)

SyncFails(p) ==
    /\ sync[p].pc = "collect" /\ Event
    /\ sync' = [sync EXCEPT ![p] = NotSyncing]
    /\ UNCHANGED <<log, defined, yaml, row, link, mapping, push, upload, missed>>

(* _upsert_device and _handle_deleted. A row that appeared since the rows   *)
(* were read is not updated but inserted, which the index refuses: the      *)
(* exception is logged and the sync goes on.                                *)
StampedOnce(r, rec) ==                                       \* (mutant)
    [r EXCEPT !.dep = TRUE, !.uuid = IF @ # NoUuid THEN @ ELSE rec.uuid,
              !.status = IF rec.uuid = NoUuid THEN "empty" ELSE "assigned"]
Stamped(r, rec) ==
    [r EXCEPT !.dep = TRUE, !.uuid = IF rec.uuid = NoUuid THEN @ ELSE rec.uuid,
              !.status = IF rec.uuid = NoUuid THEN "empty" ELSE "assigned"]
Upserted(p, s) ==
    IF s \in sync[p].known
    THEN IF row[s].state = "none" THEN row[s] ELSE Stamped(row[s], sync[p].recs[s])
    ELSE IF row[s].state # "none" THEN row[s]
         ELSE Stamped([Absent EXCEPT !.state = "pending"], sync[p].recs[s])
Forgotten(r) ==
    CASE r.state = "none" -> r
      [] r.state = "pending" -> Absent
      [] OTHER -> [r EXCEPT !.dep = FALSE, !.status = "removed"]

ApplyRecord(p, s) ==
    /\ sync[p].pc = "apply" /\ s \in sync[p].todo
    /\ LET deleted == sync[p].recs[s].op = "deleted"
           new == s \notin sync[p].known /\ row[s].state = "none"
       IN  /\ row' = [row EXCEPT ![s] = IF deleted THEN Forgotten(@) ELSE Upserted(p, s)]
           /\ sync' = [sync EXCEPT ![p].todo = @ \ {s},
                          ![p].created = IF ~deleted /\ new THEN @ \cup {s} ELSE @]
    /\ UNCHANGED <<log, defined, yaml, link, mapping, push, upload, events, missed>>

(* _assign_and_record: only what Apple reports as assigned is stamped; what *)
(* it refuses is recorded; an exception leaves the rows alone.              *)
Recorded(S, R, uuid) ==
    [s \in Serials |-> IF row[s].state = "none" \/ s \notin S \cup R THEN row[s]
                       ELSE IF s \in R THEN [row[s] EXCEPT !.refused = TRUE]
                       ELSE [row[s] EXCEPT !.uuid = uuid, !.status = "assigned", !.refused = FALSE]]

AssignDefault(p) ==
    /\ sync[p].pc = "apply" /\ sync[p].todo = {}
    /\ sync[p].created # {} /\ sync[p].profile # NoUuid
    /\ LET S == {s \in sync[p].created : Listed(s)}
       IN  \/ /\ Assigns(S, sync[p].profile)
              /\ row' = Recorded(S, sync[p].created \ S, sync[p].profile)
              /\ UNCHANGED events
           \/ /\ Event                              \* the reply is lost
              /\ Assigns(S, sync[p].profile)
              /\ UNCHANGED row
    /\ sync' = [sync EXCEPT ![p].created = {}]
    /\ UNCHANGED <<defined, yaml, link, mapping, push, upload, missed>>

(* _finish_sync: the cursor moves after everything else, on a clean sync.   *)
FinishSync(p) ==
    /\ sync[p].pc = "apply" /\ sync[p].todo = {}
    /\ sync[p].created = {} \/ sync[p].profile = NoUuid
    /\ link' = IF sync[p].ok /\ link.status # "gone" THEN [link EXCEPT !.cursor = sync[p].cursor]
               ELSE link
    /\ sync' = [sync EXCEPT ![p] = NotSyncing]
    /\ UNCHANGED <<log, defined, yaml, row, mapping, push, upload, events, missed>>

----------------------------------------------------------------------------
(* push_profile and repush_changed_profiles: the tick looks at the mapped   *)
(* profile whose definition changed; an administrator pushes any.           *)
BeginPush(p) ==
    /\ push[p].pc = "idle" /\ CanSync
    /\ yaml \notin Invalid /\ (mapping.uuid = NoUuid \/ mapping.hash # yaml)
    /\ IF p = "tick" THEN mapping.exists /\ UNCHANGED events ELSE Event
    /\ mapping' = [mapping EXCEPT !.exists = TRUE]
    /\ push' = [push EXCEPT ![p] = [pc |-> "define", version |-> yaml, uuid |-> NoUuid]]
    /\ UNCHANGED <<log, defined, yaml, row, link, sync, upload, missed>>

DefineAtApple(p) ==
    /\ push[p].pc = "define"
    /\ defined' = Append(defined, push[p].version)
    /\ push' = [push EXCEPT ![p].pc = "save", ![p].uuid = Len(defined')]
    /\ UNCHANGED <<log, yaml, row, link, mapping, sync, upload, events, missed>>

DefineFails(p, reached) ==
    /\ push[p].pc = "define" /\ Event
    /\ defined' = IF reached THEN Append(defined, push[p].version) ELSE defined
    /\ push' = [push EXCEPT ![p] = NotPushing]
    /\ UNCHANGED <<log, yaml, row, link, mapping, sync, upload, missed>>

SaveMapping(p) ==
    /\ push[p].pc = "save"
    /\ mapping' = IF mapping.exists
                  THEN [mapping EXCEPT !.uuid = push[p].uuid, !.hash = push[p].version]
                  ELSE mapping
    /\ push' = [push EXCEPT ![p] = NotPushing]
    /\ UNCHANGED <<log, defined, yaml, row, link, sync, upload, events, missed>>

----------------------------------------------------------------------------
(* The administrator's other calls: each asks Apple and writes what Apple   *)
(* said, or leaves the rows alone when the answer is lost.                  *)
Assignable(S) == CanSync /\ mapping.uuid # NoUuid /\ \A s \in S : row[s].dep

Assign(S, lost) ==
    /\ Event /\ Assignable(S)
    /\ LET L == {s \in S : Listed(s)}
       IN  /\ Assigns(L, mapping.uuid)
           /\ row' = IF lost THEN row ELSE Recorded(L, S \ L, mapping.uuid)
    /\ UNCHANGED <<defined, yaml, link, mapping, work>>

Unassign(s, lost) ==
    /\ Event /\ CanSync /\ Listed(s) /\ ProfileOf(s) # NoUuid
    /\ log' = Append(log, Op(s, "modified", NoUuid))
    /\ row' = IF lost \/ row[s].state = "none" THEN row
              ELSE [row EXCEPT ![s].status = "removed"]
    /\ UNCHANGED <<defined, yaml, link, mapping, work>>

Disown(s, lost) ==
    /\ Event /\ CanSync /\ Listed(s)
    /\ log' = Append(log, Op(s, "deleted", NoUuid))
    /\ row' = IF lost THEN row ELSE [row EXCEPT ![s] = Forgotten(@)]
    /\ UNCHANGED <<defined, yaml, link, mapping, work>>

(* A device enrolls: the webhook adopts its placeholder, or creates the     *)
(* row. "enroll" lets it create one while a sync has read the rows.         *)
Enroll(s) ==
    /\ Event /\ row[s].state # "enrolled"
    /\ "enroll" \in Overlaps \/ \A p \in Syncers : sync[p].pc # "apply"
    /\ row' = [row EXCEPT ![s].state = "enrolled"]
    /\ UNCHANGED <<log, defined, yaml, link, mapping, work>>

EditProfile ==
    /\ Event /\ yaml' = yaml + 1
    /\ UNCHANGED <<log, defined, row, link, mapping, work>>

Restart ==
    /\ Event /\ sync' = [p \in Syncers |-> NotSyncing] /\ push' = [p \in Syncers |-> NotPushing]
    /\ upload' = [upload EXCEPT !.pc = "idle"]
    /\ UNCHANGED <<log, defined, yaml, row, link, mapping, missed>>

Init ==
    /\ log = <<>> /\ defined = <<>> /\ yaml = 1
    /\ row = [s \in Serials |-> Absent]
    /\ link = [status |-> "linked", key |-> TRUE, token |-> TRUE, cursor |-> 0]
    /\ mapping = NoMapping
    /\ sync = [p \in Syncers |-> NotSyncing] /\ push = [p \in Syncers |-> NotPushing]
    /\ upload = [pc |-> "idle", link |-> link]
    /\ missed = {} /\ events = 0

Next ==
    \/ \E s \in Serials : AppleAdds(s) \/ AppleDeletes(s) \/ Enroll(s)
    \/ BeginLink \/ UploadToken \/ CompleteLink \/ TokenRefused \/ Unlink \/ Remove
    \/ \E p \in Syncers : \/ BeginSync(p) \/ Collect(p) \/ PagingIncomplete(p)
                          \/ CursorRefused(p) \/ SyncFails(p)
                          \/ \E s \in Serials : ApplyRecord(p, s)
                          \/ AssignDefault(p) \/ FinishSync(p)
                          \/ BeginPush(p) \/ DefineAtApple(p) \/ SaveMapping(p)
                          \/ \E reached \in BOOLEAN : DefineFails(p, reached)
    \/ \E S \in SUBSET Serials \ {{}}, lost \in BOOLEAN : Assign(S, lost)
    \/ \E s \in Serials, lost \in BOOLEAN : Unassign(s, lost) \/ Disown(s, lost)
    \/ EditProfile \/ Restart

(* The tick comes back; Apple and the database answer.                      *)
Fairness ==
    /\ \A p \in Syncers : /\ WF_vars(Collect(p)) /\ WF_vars(AssignDefault(p))
                          /\ WF_vars(FinishSync(p))
                          /\ \A s \in Serials : WF_vars(ApplyRecord(p, s))
                          /\ WF_vars(DefineAtApple(p)) /\ WF_vars(SaveMapping(p))
    /\ WF_vars(BeginSync("tick")) /\ WF_vars(BeginPush("tick"))

Spec == Init /\ [][Next]_vars /\ Fairness

----------------------------------------------------------------------------
(* What the stored cursor has passed has been applied: a serial that Apple  *)
(* listed there has a row linked to the server, and one that it had deleted *)
(* has none, unless a full fetch came between. Whatever a sync skipped it   *)
(* will read again.                                                         *)
CursorCovers ==
    link.status # "gone" /\ link.cursor # NoCursor =>
        \A s \in Touched(0, link.cursor) \ (Touched(link.cursor, Len(log)) \cup missed) :
            row[s].dep = (LastOf(s, 0, link.cursor).op # "deleted")

(* While the server is linked, the rows come to say what Apple says of each *)
(* device, and the profile defined at Apple to be the one authored.         *)
RowAgrees(s) ==
    /\ row[s].dep = Listed(s)
    /\ row[s].dep => /\ (row[s].status = "assigned") = (ProfileOf(s) # NoUuid)
                     /\ row[s].status = "assigned" => row[s].uuid = ProfileOf(s)
ProfileAgrees ==
    mapping.exists /\ yaml \notin Invalid => mapping.uuid # NoUuid /\ defined[mapping.uuid] = yaml
Converges == <>[](CanSync => ProfileAgrees /\ \A s \in Serials \ missed : RowAgrees(s))
=============================================================================
