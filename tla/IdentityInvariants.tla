------------------------- MODULE IdentityInvariants -------------------------
(* The inductive invariants of Identity and the facts they are made of: what*)
(* IdentityProofs and whoever reads it need besides the specification. A    *)
(* predicate is one of worlds, since the handlers are functions of worlds.  *)
EXTENDS Identity

----------------------------------------------------------------------------
DevFields == {"state", "id", "pem", "sealed", "escrowed", "erased", "allowance"}

Fields(w) == /\ {"row", "dev", "snapshot", "nano", "alarm"} \subseteq DOMAIN w
             /\ DevFields \subseteq DOMAIN w.dev

(* A world whose device row does not put a foreign certificate next to its  *)
(* identity; a step that leaves both as they are.                           *)
Good(w) == Fields(w) /\ w.dev.pem \in {None, w.dev.id}
SameIdentity(w, v) == Fields(v) /\ v.dev.id = w.dev.id /\ v.dev.pem = w.dev.pem

IInv == DevFields \subseteq DOMAIN dev /\ PemNamesIdentity

----------------------------------------------------------------------------
(* What was rolled back stays so. Only renewals are rolled back, so what a  *)
(* rollback goes back to, and what is accepted, is not one of them: the     *)
(* newest of the rows that hold, or the one certificate of the cutover.     *)
RowFields == {"kind", "used", "bound", "holds", "live", "task", "pem"}
Rowed(w) ==
    /\ Fields(w)
    /\ DOMAIN w.row = Certs /\ \A c \in Certs : RowFields \subseteq DOMAIN w.row[c]
RolledBack(w, c) == w.row[c].bound > 0 /\ ~w.row[c].holds

Ranked(w) == \E n \in Nat : \A c \in Certs : w.row[c].bound \in 0..n
Sound(w) ==
    /\ Rowed(w) /\ Ranked(w)
    /\ \A c \in Certs : /\ RolledBack(w, c) => w.row[c].kind = "renewal"
                        /\ w.row[c].task # "none" => w.row[c].kind = "renewal"
    /\ w.snapshot \subseteq {c \in Certs : w.row[c].kind = "legacy"}

(* A step that leaves kinds, ranks and bindings alone.                      *)
Kept(w, v) ==
    /\ Rowed(v) /\ v.snapshot \subseteq w.snapshot
    /\ \A c \in Certs : /\ v.row[c].kind = w.row[c].kind /\ v.row[c].bound = w.row[c].bound
                        /\ v.row[c].holds = w.row[c].holds
                        /\ w.row[c].task = "none" => v.row[c].task = "none"

----------------------------------------------------------------------------
(* What binds and what unbinds.                                             *)
WithRow(w, c, r) == [w EXCEPT !.row = [w.row EXCEPT ![c] = r]]

----------------------------------------------------------------------------
(* The actions.                                                             *)
Stays == \A c \in Certs : RolledBack(World, c) /\ dev.id # c => dev'.id # c

(* What the handlers do to the rows, the identity and the associations.     *)
NanoFields == {"id", "assoc", "token", "stamped"}
Nanoed(w) == NanoFields \subseteq DOMAIN w.nano /\ DOMAIN w.nano.assoc = Certs
Shaped(w) == Sound(w) /\ Nanoed(w)

(* Tokens and alerts aside, the same world.                                 *)
Aside(w, v) ==
    /\ Fields(v) /\ Nanoed(v)
    /\ v.row = w.row /\ v.snapshot = w.snapshot
    /\ v.dev.id = w.dev.id /\ v.dev.pem = w.dev.pem /\ v.dev.state = w.dev.state
    /\ v.nano.id = w.nano.id /\ v.nano.assoc = w.nano.assoc

(* Every other association stays, or is pruned; or parked.                  *)
Loses(w, v, keep) ==
    \A b \in Certs : \/ v.nano.assoc[b] = w.nano.assoc[b]
                     \/ v.nano.assoc[b] = "no" /\ b \in Assoc(w) /\ b \notin keep
Rest(w, v) ==
    /\ v.row = w.row /\ v.snapshot = w.snapshot /\ v.dev = w.dev /\ v.alarm = w.alarm
    /\ v.nano.id = w.nano.id /\ v.nano.token = w.nano.token /\ v.nano.stamped = w.nano.stamped

SameRow(w, v, b) ==
    /\ v.row[b].kind = w.row[b].kind /\ v.row[b].used = w.row[b].used
    /\ v.row[b].bound = w.row[b].bound /\ v.row[b].holds = w.row[b].holds
    /\ v.row[b].live = w.row[b].live /\ v.row[b].task = w.row[b].task

(* Tasks fail.                                                              *)
Failed(w, v, S) ==
    \A b \in Certs :
        /\ v.row[b].kind = w.row[b].kind /\ v.row[b].used = w.row[b].used
        /\ v.row[b].bound = w.row[b].bound /\ v.row[b].holds = w.row[b].holds
        /\ IF b \in S /\ Open(w, b) THEN v.row[b].task = "failed" /\ v.row[b].live = FALSE
           ELSE v.row[b].task = w.row[b].task /\ v.row[b].live = w.row[b].live

----------------------------------------------------------------------------
(* The webhooks on their way.                                               *)
Topics == CheckIns \cup {"SetToken", "CheckOut", "Acknowledged", "Error"}
Msgs == [topic : Topics, n : Nat]
Answers(c) == {Msg("Acknowledged", c), Msg("Error", c)}
Out == Msg("CheckOut", 0)

OnTheWay(q, x) == \E i \in 1 .. Len(q) : q[i] = x

(* A check-in comes before any answer to a renewal and any check-out.       *)
Ahead(q, c) == \E i \in 1 .. Len(q) : /\ q[i].topic \in CheckIns
                                      /\ \A j \in 1 .. i : q[j] \notin Answers(c) \cup {Out}
Once(q, c) == \A i, j \in 1 .. Len(q) : q[i] \in Answers(c) /\ q[j] \in Answers(c) => i = j

(* The invariant: of the rows, of the identity, of the Mac, between them.   *)
Accepted(w, c) == w.row[c].kind = "legacy" \/ w.row[c].bound > 0
Precedes(w, p, c) ==
    \/ /\ p \in Bound(w) /\ w.row[p].bound < w.row[c].bound
       /\ \A b \in Bound(w) : w.row[b].bound < w.row[c].bound
                              => w.row[b].bound <= w.row[p].bound
    \/ p \in w.snapshot /\ \A b \in Bound(w) : ~(w.row[b].bound < w.row[c].bound)

Ranks(w) == \A b, c \in Certs : w.row[b].bound > 0 /\ w.row[b].bound = w.row[c].bound => b = c
OneOpen(w) == \A b, c \in Certs : Open(w, b) /\ Open(w, c) => b = c
Tasks(w) ==
    \A c \in Certs :
        /\ Open(w, c) => w.row[c].live /\ (w.row[c].bound > 0 => w.row[c].holds)
        /\ w.row[c].live => w.row[c].task \in {"open", "done"}
        /\ w.row[c].task = "done" => w.row[c].used
        /\ w.row[c].task # "late"
        /\ w.row[c].kind = "renewal" /\ w.row[c].bound > 0 => w.row[c].used
        /\ w.row[c].kind = "free" => ~w.row[c].used /\ w.row[c].bound = 0
Rows(w) ==
    /\ Shaped(w) /\ Ranks(w) /\ OneOpen(w) /\ Tasks(w)
    /\ w.snapshot \in {{}, {1}}
    /\ ~Enrolled(w) => \A c \in Certs : ~Open(w, c)

Latest(w, c) == c \in Bound(w) /\ \A b \in Bound(w) : w.row[b].bound <= w.row[c].bound
Identified(w) ==
    /\ w.dev.pem \in {None, w.dev.id}
    /\ \/ /\ w.dev.id \in Certs
          /\ Latest(w, w.dev.id) \/ (Bound(w) = {} /\ w.dev.id \in w.snapshot)
       \/ w.dev.id = None /\ Bound(w) = {} /\ w.snapshot = {1} /\ 1 \in Assoc(w)
Recorded(w) ==
    /\ w.nano.id \in Certs /\ w.row[w.nano.id].kind # "free"
    /\ w.row[w.nano.id].kind = "renewal" => w.row[w.nano.id].used
    /\ Stands(w, w.nano.id) /\ ~Fresh(w, w.nano.id) => w.dev.id \in {None, w.nano.id}

(* What the Mac is asked and will answer; what it tries, uses and said.     *)
Expected(w, m, q, c) ==
    Open(w, c) /\ (c \notin m.answered \/ \E x \in Answers(c) : OnTheWay(q, x))
MacFields == {"using", "trying", "answered", "token", "tokens"}
Shape(m, q) ==
    /\ MacFields \subseteq DOMAIN m /\ q \in Seq(Msgs) /\ m.tokens \in Nat
    /\ m.using \in Certs \cup {None} /\ m.trying \in Certs \cup {None}
    /\ m.answered \subseteq Certs
Tries(w, m) ==
    m.trying # None => /\ w.row[m.trying].kind = "renewal" /\ w.row[m.trying].used
                       /\ Open(w, m.trying) /\ m.trying \notin m.answered
                       /\ m.using # None /\ m.using # m.trying
Uses(w, m) ==
    m.using # None =>
        /\ w.row[m.using].kind # "free"
        /\ w.row[m.using].kind = "renewal"
           => w.row[m.using].used /\ (m.using \notin m.answered => Open(w, m.using))
Answered(w, m, q) ==
    /\ \A c \in m.answered : w.row[c].kind # "free"
    /\ \A c \in Certs :
         /\ OnTheWay(q, Msg("Acknowledged", c)) =>
              /\ c \in m.answered /\ w.row[c].used /\ m.using \in {c, None}
              /\ m.using = c => Open(w, c)
         /\ OnTheWay(q, Msg("Error", c)) => c \in m.answered /\ m.using # c /\ m.trying # c
         /\ Once(q, c)
    /\ OnTheWay(q, Out) => m.using = None /\ m.trying = None
Asked(w, m, q) == Shape(m, q) /\ Tries(w, m) /\ Uses(w, m) /\ Answered(w, m, q)

(* NanoMDM recorded a renewal the server has not bound yet; or anything the *)
(* server would bind.                                                       *)
Renewed(w) == w.row[w.nano.id].kind = "renewal" /\ w.row[w.nano.id].bound = 0
Pending(w) == Stands(w, w.nano.id) /\ Fresh(w, w.nano.id)
Managed(w, m) == m.using # None /\ Accepted(w, m.using)
Safe(w, m) ==
    \/ m.using = w.dev.id
    \/ w.dev.id = None /\ m.using \in w.snapshot
    \/ w.dev.id # None /\ Open(w, w.dev.id) /\ Precedes(w, m.using, w.dev.id)
Awaits(w, m, q) ==
    /\ \A c \in Certs : Expected(w, m, q, c) /\ w.row[c].bound > 0 => w.dev.id = c
    /\ Renewed(w) => /\ Open(w, w.nano.id) /\ w.nano.id \in Assoc(w)
                     /\ Ahead(q, w.nano.id)
    /\ Pending(w) => /\ w.nano.assoc[w.nano.id] # "no"
                     /\ \A c \in Certs : Expected(w, m, q, c) => c = w.nano.id
Keeps(w, m) ==
    Managed(w, m) =>
        /\ w.nano.assoc[m.using] # "no"
        /\ m.using \in Assoc(w) => Safe(w, m)
        /\ Pending(w) => w.row[w.nano.id].kind = "renewal"

LInv(w, m, q) ==
    /\ Rows(w) /\ Identified(w) /\ Recorded(w)
    /\ Asked(w, m, q) /\ Awaits(w, m, q) /\ Keeps(w, m)

----------------------------------------------------------------------------
(* The same, but for what no part of the invariant looks at.                *)
Alike(w, v) ==
    /\ Shaped(v) /\ v.snapshot = w.snapshot /\ \A b \in Certs : SameRow(w, v, b)
    /\ v.dev.id = w.dev.id /\ v.dev.pem = w.dev.pem /\ v.nano.id = w.nano.id
    /\ v.dev.state \in {w.dev.state, "enrolled"}
    /\ \A b \in Certs : /\ v.nano.assoc[b] \in Held <=> w.nano.assoc[b] \in Held
                        /\ v.nano.assoc[b] = "no" <=> w.nano.assoc[b] = "no"

----------------------------------------------------------------------------
(* The recorded certificate is accepted: bound if it was not, and the       *)
(* device's. What was allowed, or the device's before a renewal, stays.     *)
Accepts(w, v, c) ==
    /\ \A b \in Certs \ {c} : SameRow(w, v, b)
    /\ v.row[c].kind = w.row[c].kind /\ v.row[c].used = w.row[c].used
    /\ v.row[c].live = w.row[c].live /\ v.row[c].task = w.row[c].task
    /\ ~Fresh(w, c) => SameRow(w, v, c) /\ v.snapshot = w.snapshot
    /\ Fresh(w, c) => /\ v.row[c].holds
                      /\ v.row[c].bound = IF w.row[c].bound = 0 THEN BindRank(w)
                                          ELSE w.row[c].bound
                      /\ v.snapshot = IF w.row[c].kind = "renewal" THEN w.snapshot ELSE {}
    /\ v.dev.id = c /\ v.dev.pem = c /\ v.dev.state = w.dev.state /\ v.nano.id = w.nano.id
    /\ Loses(w, v, (Allowed(v) \cup {c} \cup (IF w.row[c].kind = "renewal" THEN {w.dev.id}
                                              ELSE {})) \ {None})

(* A task that is not the identity's ends, or nothing was before it.        *)
Ended(w, v, d, how) ==
    /\ \A b \in Certs \ {d} : SameRow(w, v, b)
    /\ v.row[d].kind = w.row[d].kind /\ v.row[d].used = w.row[d].used
    /\ v.row[d].bound = w.row[d].bound /\ v.row[d].holds = w.row[d].holds
    /\ v.row[d].task = how /\ (v.row[d].live => how = "done")
    /\ v.snapshot = w.snapshot /\ v.dev = w.dev /\ v.nano = w.nano

(* The renewal is rolled back, to what came before it.                      *)
Returns(w, v, d, p) ==
    /\ \A b \in Certs \ {d} : SameRow(w, v, b)
    /\ v.row[d].kind = w.row[d].kind /\ v.row[d].used = w.row[d].used
    /\ v.row[d].bound = w.row[d].bound
    /\ ~v.row[d].holds /\ ~v.row[d].live /\ v.row[d].task = "failed"
    /\ v.snapshot = w.snapshot /\ v.dev.state = w.dev.state
    /\ v.dev.id = p /\ v.dev.pem \in {None, p} /\ v.nano.id \in {w.nano.id, p}
    /\ Loses(w, v, ({p} \cup w.snapshot) \ {d})

(* What a rollback goes back to is what came before.                        *)
BackTo(w, c) ==
    IF BoundBefore(w, c) = None /\ Cardinality(w.snapshot) = 1
    THEN CHOOSE b \in w.snapshot : TRUE ELSE BoundBefore(w, c)

(* A free row is taken.                                                     *)
Taken(w, v, c) ==
    /\ w.row[c].kind = "free" /\ v.row[c].kind # "free" /\ v.row[c].bound = 0
    /\ \A b \in Certs \ {c} : SameRow(w, v, b)
    /\ v.snapshot = w.snapshot /\ v.dev.id = w.dev.id /\ v.dev.pem = w.dev.pem
    /\ v.dev.state = w.dev.state
    /\ \A b \in Certs \ {c} : v.nano.assoc[b] = w.nano.assoc[b]

----------------------------------------------------------------------------
(* The actions.                                                             *)
LockInv == mishaps \in Nat /\ (mishaps = 0 => LInv(World, mac, inbox))

----------------------------------------------------------------------------
(* The flag of the escrowed token. It may only be ahead of NanoMDM's token  *)
(* while the Authenticate that cleared it is on its way, and the handler of *)
(* that one, or of a TokenUpdate before it, restores the token or takes the *)
(* flag down.                                                               *)
Flagged(w) == w.dev.escrowed /\ w.nano.token = None
OnlyItself(w) == \A c \in Certs : w.row[c].kind # "stray"
Called(q, c) == \E i \in 1 .. Len(q) : /\ q[i].topic = "Authenticate"
                                       /\ \A j \in 1 .. i : q[j] \notin Answers(c)
Due(w) ==
    LET n == w.nano.id
    IN  /\ n \in Assoc(w) /\ Stands(w, n) /\ w.alarm.redo # n
        /\ \/ w.row[n].kind = "renewal" /\ Open(w, n)
           \/ w.row[n].kind \in {"manual", "ade", "rts"} /\ Fresh(w, n)
Redone(w) ==
    LET c == w.alarm.redo
    IN  /\ "redo" \in DOMAIN w.alarm
        /\ c # None => /\ c \in Certs /\ w.row[c].kind # "free"
                       /\ w.row[c].kind = "renewal" => RolledBack(w, c)
Tokened(w) ==
    /\ w.nano.stamped => w.nano.token # None
    /\ w.dev.escrowed /\ w.dev.sealed = None => \A c \in Certs : ~Open(w, c)
    /\ w.dev.escrowed => Enrolled(w)
FInv(w, q) == /\ Tokened(w) /\ Redone(w)
              /\ Flagged(w) => Due(w) /\ Called(q, w.nano.id)

(* What the handlers do to tokens and tasks.                                *)
Based(w) == Rowed(w) /\ Nanoed(w)
Tok(w, v) ==
    /\ Based(v)
    /\ v.alarm = w.alarm /\ v.dev.state = w.dev.state
    /\ v.nano.stamped /\ v.nano.token = None => w.nano.stamped /\ w.nano.token = None
    /\ v.dev.escrowed /\ v.dev.sealed = None => w.dev.escrowed /\ w.dev.sealed = None
    /\ v.dev.escrowed => w.dev.escrowed \/ Enrolled(w)
    /\ Flagged(v) => Flagged(w)
    /\ \A c \in Certs : /\ v.row[c].kind = w.row[c].kind
                        /\ Open(v, c) => Open(w, c)
                        /\ RolledBack(w, c) => RolledBack(v, c)

FlagInv == LockInv /\ (mishaps = 0 /\ OnlyItself(World) => FInv(World, inbox))

----------------------------------------------------------------------------
(* The sealed copy of the token. Tokens come from the Mac, from another     *)
(* machine, or from one another: what is sealed is what NanoMDM held, what  *)
(* is written back is what was sealed.                                      *)
IsFun(f) == f = [x \in DOMAIN f |-> f[x]]
Own(w, m) == w.dev.sealed # None /\ w.dev.sealed = m.token
Mixed(w, m) == Own(w, m) /\ w.nano.token = Alien
Copied(w, m) ==
    /\ m.tokens \in 0 .. MaxTokens /\ m.token \in 0 .. m.tokens
    /\ w.nano.token \in 0 .. m.tokens \cup {Alien}
    /\ w.dev.sealed \in 0 .. m.tokens \cup {Alien}
    /\ ~Enrolled(w) => w.dev.sealed = None
    /\ Own(w, m) => w.nano.token \in {None, Alien, m.token}
    /\ IsFun(w.nano) /\ IsFun(w.nano.assoc)
(* A handler does not mix the Mac's sealed token with another machine's.    *)
Copies(w, v, m) ==
    /\ Based(v)
    /\ Copied(w, m) => Copied(v, m) /\ (Mixed(v, m) => Mixed(w, m))

(* An enrollment that the device row does not know yet.                     *)
Newcomer(w) == w.row[w.nano.id].kind \in {"manual", "ade", "rts"} /\ w.row[w.nano.id].bound = 0
Strays(w) == {s \in Assoc(w) : w.row[s].kind = "stray"}
StraysUnbound(w) == \A c \in Certs : w.row[c].kind = "stray" => w.row[c].bound = 0
SameWord(w, v, b) ==
    /\ v.row[b].kind = w.row[b].kind /\ v.row[b].bound = w.row[b].bound
    /\ v.row[b].holds = w.row[b].holds /\ v.row[b].live = w.row[b].live
    /\ v.row[b].task = w.row[b].task

(* An acceptance with no failing write: it prunes what is not allowed, and  *)
(* seals what NanoMDM holds only for a renewal's Authenticate.              *)
Captured(w, v, c, topic) ==
    /\ w.row[c].kind = "renewal" /\ topic = "Authenticate" /\ ~w.alarm.recent
    /\ v.dev.sealed = w.nano.token /\ w.nano.token # None
(* Nothing more is associated, and the rows are bound as they were.         *)
Calmer(w, v) ==
    /\ Assoc(v) \subseteq Assoc(w)
    /\ \A c \in Certs : v.row[c].kind = w.row[c].kind /\ v.row[c].bound = w.row[c].bound
----------------------------------------------------------------------------
(* When another machine's token may sit beside the Mac's sealed one: while  *)
(* its association is still there, or from its going until a renewal's      *)
(* Authenticate, or for good, once nothing more is to come of either.       *)
Authenticate == Msg("Authenticate", 0)
Pends(q, c, n) ==
    \E i \in n .. Len(q) : q[i] = Authenticate /\ \A j \in 1 .. i : q[j] \notin Answers(c)
Underway(w, c) == c \in Certs /\ w.row[c].kind = "renewal" /\ Open(w, c)
Late(w, q) == Underway(w, w.nano.id) /\ Pends(q, w.nano.id, 2)
Announced(w, q) ==
    Strays(w) # {} => /\ Len(q) > 0 /\ q[1] = Authenticate
                      /\ w.nano.id \in Strays(w) \/ Late(w, q)
Returning(w, q) ==
    LET c == w.nano.id
    IN  /\ Underway(w, c) /\ w.row[c].bound > 0 /\ w.dev.id = c
        /\ Assoc(w) \subseteq Allowed(w) /\ Pends(q, c, 1)
Over(w, q) ==
    /\ Strays(w) = {}
    /\ \A i \in 1 .. Len(q) : q[i] # Authenticate /\ q[i] # Msg("SetToken", Alien)
Explained(w, m, q) ==
    Mixed(w, m) /\ ~w.alarm.recent => Strays(w) # {} \/ Returning(w, q) \/ Over(w, q)
CInv(w, m, q) ==
    /\ Copied(w, m) /\ (m.using = None => m.token = None)
    /\ {"recent", "redo"} \subseteq DOMAIN w.alarm /\ w.alarm.redo = None
    /\ StraysUnbound(w) /\ (Newcomer(w) => ~Own(w, m))
    /\ Announced(w, q) /\ Explained(w, m, q)

(* Another machine's token beside ours is sealed only while that is excused *)
Spared(w) == w.nano.token = Alien /\ (w.alarm.recent \/ \E c \in Certs : Open(w, c))
COInv == /\ LockInv /\ faults \in Nat
         /\ faults = 0 /\ mishaps = 0 => CInv(World, mac, inbox)
KeepsCopy ==
    Own(World, mac) /\ mac'.token = mac.token /\ ~Spared(World) => dev'.sealed = dev.sealed
=============================================================================
