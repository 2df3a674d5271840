------------------------------- MODULE Poller -------------------------------
(* The adaptive poller, services/poller.py, for the enrolled devices of one *)
(* tenant: a tick spends one budget of commands on info polls, then on      *)
(* inventory, then on installs waiting to be confirmed. A device NanoMDM    *)
(* takes no commands for is left alone for a while.                         *)
(*                                                                          *)
(* Time is counted in ticks, by counters that stop where nothing compares   *)
(* them any further. Within a tick each command is a step of its own.       *)
EXTENDS Integers, Sequences, FiniteSets, SequencesExt

CONSTANTS
    Devices,    \* device ids, a set of numbers: sorted() compares them
    Cap,        \* POLL_MAX_PER_TICK
    Base,       \* POLL_BASE_MINUTES, in ticks
    Longest,    \* POLL_MAX_MINUTES, in ticks
    Window,     \* INVENTORY_REFRESH_HOURS, in ticks
    MaxHold,    \* RETRY_MAX_MINUTES, in ticks
    Far,        \* more than any of these
    MaxEvents   \* refusals, enrollments, installs, restarts

ASSUME PollerAssumption ==
    /\ Devices \subseteq Nat /\ {Cap, Base, Longest, Window, MaxHold} \subseteq Nat \ {0}
    /\ Far > Longest /\ Far > Window /\ MaxEvents \in Nat

VARIABLES
    poll,       \* per device: last_polled_at (as an age), poll_interval_minutes, answered since
    backoff,    \* per device: attributes.enqueue_backoff, and whether it was heard from since
    inventory,  \* per device: age of the last inventory query NanoMDM took
    confirm,    \* per device: an app row is accepted, an app_list task is open, was it made this tick
    tick,       \* the tick under way
    events

vars == <<poll, backoff, inventory, confirm, tick, events>>

NoBackoff == [failures |-> 0, hold |-> 0, heard |-> FALSE]
Idle == [pc |-> "idle", polls |-> <<>>, inventories |-> <<>>, confirms |-> <<>>,
         budget |-> 0, skip |-> {}]
Smaller(a, b) == IF a < b THEN a ELSE b
Event == events < MaxEvents /\ events' = events + 1

-----------------------------------------------------------------------------
(* Backoff of one device, as a function of its stored state.                *)

\* _retry_delay_minutes: doubling with each failure in a row.
RetryDelay(failures) == Smaller(2 ^ failures, MaxHold)

\* _record_enqueue_failure.
Refused(b) == LET n == Smaller(b.failures + 1, MaxHold)
              IN  [failures |-> n, hold |-> RetryDelay(n - 1), heard |-> FALSE]

\* (mutant) ... until the device is heard from, whatever the clock says.
HoldsUnheard(b) == b.failures > 0 /\ ~b.heard

\* _enqueue_backoff_holds.
Holds(b) == b.failures > 0 /\ ~b.heard /\ b.hold > 0

\* The answer of NanoMDM to a command for d.
Taken(d)  == backoff' = [backoff EXCEPT ![d] = NoBackoff] /\ UNCHANGED events
Refuse(d) == backoff' = [backoff EXCEPT ![d] = Refused(@)] /\ Event

-----------------------------------------------------------------------------
(* poll_tenant.                                                             *)
Older(n) == Smaller(n + 1, Far)

\* The devices of S, those with the largest age first, in any order of equals.
Sorted(S, age) == {s \in SetToSeqs(S) : \A i, j \in DOMAIN s : i < j => age[s[i]] >= age[s[j]]}

First(s, n) == SubSeq(s, 1, Smaller(n, Len(s)))

\* A device heard from since NanoMDM refused it is asked again at once.
Recovered(b) == IF b.heard THEN NoBackoff ELSE [b EXCEPT !.hold = IF @ = 0 THEN 0 ELSE @ - 1]

StartTick ==
    LET age  == [d \in Devices |-> Older(poll[d].age)]
        held == {d \in Devices : Holds(Recovered(backoff[d]))}
        due  == {d \in Devices \ held : age[d] >= poll[d].interval}
        bare == {d \in Devices \ held : Older(inventory[d]) > Window}
    IN  /\ tick.pc = "idle"
        /\ poll' = [d \in Devices |-> [poll[d] EXCEPT !.age = age[d]]]
        /\ backoff' = [d \in Devices |-> Recovered(backoff[d])]
        /\ inventory' = [d \in Devices |-> Older(inventory[d])]
        /\ confirm' = [d \in Devices |-> [confirm[d] EXCEPT !.now = FALSE]]
        /\ \E s \in Sorted(due, age), i \in Sorted(bare, age) :
              LET take == First(s, Cap)
                  ask  == First(i, Cap - Len(take))
              IN  tick' = [Idle EXCEPT !.pc = "polls", !.polls = take, !.inventories = ask,
                                       !.budget = Cap - Len(take) - Len(ask), !.skip = held]
        /\ UNCHANGED events

\* _next_interval.
NextInterval(p) ==
    IF p.age = Far \/ p.answered THEN Base ELSE Smaller(2 * p.interval, Longest)

\* The row first, then refresh_info and security_info.
PollNext ==
    LET d == Head(tick.polls)
    IN  /\ tick.pc = "polls" /\ tick.polls # <<>>
        /\ poll' = [poll EXCEPT ![d] = [age |-> 0, interval |-> NextInterval(@), answered |-> FALSE]]
        /\ \/ Taken(d) /\ tick' = [tick EXCEPT !.polls = Tail(@)]
           \/ Refuse(d) /\ tick' = [tick EXCEPT !.polls = Tail(@), !.skip = @ \cup {d}]
        /\ UNCHANGED <<inventory, confirm>>

\* profile_list and app_list.
InventoryNext ==
    LET d == Head(tick.inventories)
    IN  /\ tick.pc = "polls" /\ tick.polls = <<>> /\ tick.inventories # <<>>
        /\ \/ /\ d \notin tick.skip /\ Taken(d)
              /\ tick' = [tick EXCEPT !.inventories = Tail(@)]
              /\ inventory' = [inventory EXCEPT ![d] = 0]
              /\ confirm' = [confirm EXCEPT ![d].open = TRUE, ![d].now = TRUE]
           \/ /\ d \notin tick.skip /\ Refuse(d)
              /\ tick' = [tick EXCEPT !.inventories = Tail(@), !.skip = @ \cup {d}]
              /\ UNCHANGED <<inventory, confirm>>
           \/ /\ d \in tick.skip
              /\ tick' = [tick EXCEPT !.inventories = Tail(@)]
              /\ UNCHANGED <<backoff, inventory, confirm, events>>
        /\ UNCHANGED poll

\* _awaiting_app_confirmation: not while a query is open, or has just been made.
Awaiting == {d \in Devices : confirm[d].accepted /\ ~confirm[d].open /\ ~confirm[d].now}

StartConfirms ==
    /\ tick.pc = "polls" /\ tick.polls = <<>> /\ tick.inventories = <<>>
    /\ tick' = [tick EXCEPT !.pc = "confirms",
                            !.confirms = First(SetToSortSeq(Awaiting, <), tick.budget)]
    /\ UNCHANGED <<poll, backoff, inventory, confirm, events>>

\* A device that is held, or failed this tick, has taken its place in the budget.
ConfirmNext ==
    LET d == Head(tick.confirms)
        skipped == d \in tick.skip
    IN  /\ tick.pc = "confirms" /\ tick.confirms # <<>>
        /\ tick' = [tick EXCEPT !.confirms = Tail(@)]
        /\ \/ /\ ~skipped
              /\ confirm' = [confirm EXCEPT ![d].open = TRUE, ![d].now = TRUE]
              /\ UNCHANGED <<backoff, events>>
           \/ ~skipped /\ Refuse(d) /\ UNCHANGED confirm
           \/ skipped /\ UNCHANGED <<backoff, confirm, events>>
        /\ UNCHANGED <<poll, inventory>>

EndTick ==
    /\ tick.pc = "confirms" /\ tick.confirms = <<>>
    /\ tick' = Idle
    /\ UNCHANGED <<poll, backoff, inventory, confirm, events>>

-----------------------------------------------------------------------------
(* What happens beside the ticks.                                           *)

\* The device answers or checks in: last_seen, and the answers to open queries.
Hear(d) ==
    /\ poll' = [poll EXCEPT ![d].answered = TRUE]
    /\ backoff' = [backoff EXCEPT ![d].heard = backoff[d].failures > 0]
    /\ \E a \in {confirm[d].accepted, confirm[d].accepted /\ ~confirm[d].open} :
          confirm' = [confirm EXCEPT ![d].open = FALSE, ![d].accepted = a]
    /\ UNCHANGED <<inventory, tick, events>>

\* A query nobody answered times out with its task.
QueryOver(d) ==
    /\ confirm[d].open
    /\ confirm' = [confirm EXCEPT ![d].open = FALSE]
    /\ UNCHANGED <<poll, backoff, inventory, tick, events>>

\* The device acknowledges an app install.
Accept(d) ==
    /\ Event
    /\ confirm' = [confirm EXCEPT ![d].accepted = TRUE]
    /\ UNCHANGED <<poll, backoff, inventory, tick>>

\* on_device_enrolled polls at once, whatever the budget, and records no refusal.
Enroll(d) ==
    /\ Event
    /\ poll' = [poll EXCEPT ![d] = [age |-> 0, interval |-> Base, answered |-> FALSE]]
    /\ \/ /\ inventory' = [inventory EXCEPT ![d] = 0]
          /\ confirm' = [confirm EXCEPT ![d].open = TRUE, ![d].now = TRUE]
       \/ UNCHANGED <<inventory, confirm>>
    /\ UNCHANGED <<backoff, tick>>

Restart ==
    /\ Event /\ tick # Idle
    /\ tick' = Idle
    /\ UNCHANGED <<poll, backoff, inventory, confirm>>

-----------------------------------------------------------------------------
Init ==
    /\ poll = [d \in Devices |-> [age |-> Far, interval |-> Base, answered |-> FALSE]]
    /\ backoff = [d \in Devices |-> NoBackoff]
    /\ inventory = [d \in Devices |-> Far]
    /\ confirm = [d \in Devices |-> [accepted |-> FALSE, open |-> FALSE, now |-> FALSE]]
    /\ tick = Idle
    /\ events = 0

Tick == StartTick \/ PollNext \/ InventoryNext \/ StartConfirms \/ ConfirmNext \/ EndTick
Beside(d) == Hear(d) \/ QueryOver(d) \/ Accept(d) \/ Enroll(d)

Next == Tick \/ Restart \/ \E d \in Devices : Beside(d)

\* The scheduler starts a tick every few minutes, and a tick runs to its end.
Fairness == WF_vars(Tick) /\ \A d \in Devices : WF_vars(QueryOver(d))

Spec == Init /\ [][Next]_vars /\ Fairness

-----------------------------------------------------------------------------
\* No device is forgotten, silent or not, whatever NanoMDM refused before: it is
\* polled again and again, asked for its inventory again and again, and asked
\* whether it holds the app while an install waits to be confirmed (the three
\* passes of poll_tenant share one budget, with room for all three).
EveryDeviceAsked ==
    \A d \in Devices :
        /\ []<>(poll[d].age = 0)
        /\ []<>(inventory[d] = 0)
        /\ []<>(confirm[d].accepted => confirm[d].now)
=============================================================================
