---------------------------- MODULE TradesManager ----------------------------
(***************************************************************************)
(* What the program shows against what the exchange holds: the data        *)
(* messages of the account and positions channels, parsed item by item by  *)
(* Command::parseReceivedData on the run thread of the private channel and *)
(* kept by TradesManager (trades_manager.cpp).  Connections come and go as *)
(* in module Channel, which also shows that a session parses the messages  *)
(* of its own connection, in order, and that inq_ is cleared in between.   *)
(***************************************************************************)
EXTENDS Integers, Sequences, FiniteSets, SequencesExt

CONSTANTS
    Positions,   \* pos_id's
    Currencies,  \* ccy's; tickers and instruments, which are never erased
                 \* either, behave like them
    Sizes,       \* sizes and balances; 0 is a closed position
    Absent,      \* no entry
    MaxChanges,  \* bound: changes of what the exchange holds
    MaxFaults    \* bound: connections lost and messages that cannot be parsed

Keys == Positions \cup Currencies

ASSUME KeysApart == Positions \cap Currencies = {}
ASSUME KeysFinite == IsFiniteSet(Keys)
ASSUME SizesAreNat == Sizes \subseteq Nat /\ 0 \in Sizes /\ Absent \notin Sizes
ASSUME BoundsNat == MaxChanges \in Nat /\ MaxFaults \in Nat

VARIABLES
    held,        \* what the exchange holds
    subscribed,  \* has the exchange taken the subscriptions of this session?
    session,     \* "down", or "up": connected, onConnected has run
    requested,   \* subscriptions sent in this session and not taken yet
    pushed,      \* data messages not parsed yet, each a sequence of items
    todo,        \* the items left of the message being parsed
    shown,       \* balance_ and position_
    spoilt,      \* keys of items that an exception skipped in this session
    unseen,      \* positions whose closing was told to nobody or got lost
    changes, faults

vars == <<held, subscribed, session, requested, pushed, todo, shown, spoilt, unseen, changes, faults>>

Item(k) == [key |-> k, size |-> held[k]]
Items == [key : Keys, size : Sizes]
KeysOf(items) == {items[i].key : i \in DOMAIN items}

\* Is an item of key k on its way?
Pending(k) == k \in KeysOf(todo) \cup UNION {KeysOf(m) : m \in Range(pushed)}

Fault == faults < MaxFaults /\ faults' = faults + 1

Init == /\ held = [k \in Keys |-> 0]
        /\ subscribed = FALSE /\ session = "down" /\ requested = FALSE
        /\ pushed = << >> /\ todo = << >>
        /\ shown = [k \in Keys |-> Absent]
        /\ spoilt = {} /\ unseen = {}
        /\ changes = 0 /\ faults = 0

-----------------------------------------------------------------------------
(* The exchange *)

\* A size changes; who is subscribed is told.
Change(k, size) ==
    /\ changes < MaxChanges
    /\ size # held[k]
    /\ held' = [held EXCEPT ![k] = size]
    /\ pushed' = IF subscribed THEN Append(pushed, <<[key |-> k, size |-> size]>>) ELSE pushed
    /\ unseen' = IF size = 0 /\ k \in Positions /\ ~subscribed THEN unseen \cup {k} ELSE unseen
    /\ changes' = changes + 1
    /\ UNCHANGED <<subscribed, session, requested, todo, shown, spoilt, faults>>

\* A subscription is answered with everything there is: all balances and the
\* open positions.
Snapshot ==
    /\ requested
    /\ requested' = FALSE
    /\ subscribed' = TRUE
    /\ LET there == Currencies \cup {p \in Positions : held[p] # 0}
           keys == SetToSeq(there)
       IN pushed' = Append(pushed, [i \in DOMAIN keys |-> Item(keys[i])])
    /\ UNCHANGED <<held, session, todo, shown, spoilt, unseen, changes, faults>>

-----------------------------------------------------------------------------
(* The connection *)

\* Fault: only the first connection subscribes.
OnConnectedOnce ==
    /\ session = "down"
    /\ session' = "up"
    /\ requested' = (faults = 0)
    /\ spoilt' = {}
    /\ UNCHANGED <<held, subscribed, pushed, todo, shown, unseen, changes, faults>>

\* Every connection subscribes again; nothing that is shown is cleared, and
\* markDataDirty is empty.
OnConnected ==
    /\ session = "down"
    /\ session' = "up"
    /\ requested' = TRUE
    /\ spoilt' = {}
    /\ UNCHANGED <<held, subscribed, pushed, todo, shown, unseen, changes, faults>>

\* The session ends, between two messages; what was not parsed is dropped.
SessionLost ==
    /\ session = "up"
    /\ todo = << >>
    /\ Fault
    /\ session' = "down"
    /\ subscribed' = FALSE /\ requested' = FALSE
    /\ pushed' = << >>
    /\ unseen' = unseen \cup {p \in Positions : Pending(p) /\ held[p] = 0}
    /\ UNCHANGED <<held, todo, shown, spoilt, changes>>

-----------------------------------------------------------------------------
(* parseReceivedData and the updates *)

NextMessage ==
    /\ session = "up"
    /\ todo = << >> /\ pushed # << >>
    /\ todo' = Head(pushed)
    /\ pushed' = Tail(pushed)
    /\ UNCHANGED <<held, subscribed, session, requested, shown, spoilt, unseen, changes, faults>>

\* Fault: a position of size 0 is kept.
UpdateKeepsZero(item) == shown' = [shown EXCEPT ![item.key] = item.size]

\* Fault: an entry that exists is not overwritten.
UpdateInserts(item) ==
    shown' = [shown EXCEPT ![item.key] =
                 IF item.key \in Positions /\ item.size = 0 THEN Absent
                 ELSE IF @ = Absent THEN item.size ELSE @]

\* updateBalance and updatePosition: size 0 erases a position.
Update(item) ==
    shown' = [shown EXCEPT ![item.key] = IF item.key \in Positions /\ item.size = 0 THEN Absent
                                         ELSE item.size]

\* One item, under the mutex of TradesManager.
ApplyItem ==
    /\ todo # << >>
    /\ Update(Head(todo))
    /\ todo' = Tail(todo)
    /\ spoilt' = spoilt \ {Head(todo).key}
    /\ unseen' = unseen \ {Head(todo).key}
    /\ UNCHANGED <<held, subscribed, session, requested, pushed, changes, faults>>

\* A member is missing or has another type: the exception leaves the items before
\* this one applied and skips the rest.
ParseThrows ==
    /\ todo # << >>
    /\ Fault
    /\ spoilt' = spoilt \cup KeysOf(todo)
    /\ unseen' = unseen \cup {p \in Positions : p \in KeysOf(todo) /\ held[p] = 0}
    /\ todo' = << >>
    /\ UNCHANGED <<held, subscribed, session, requested, pushed, shown, changes>>

-----------------------------------------------------------------------------

Next ==
    \/ \E k \in Keys, size \in Sizes : Change(k, size)
    \/ Snapshot
    \/ OnConnected \/ SessionLost
    \/ NextMessage \/ ApplyItem \/ ParseThrows

\* The channel reconnects, the exchange answers subscriptions, messages are parsed.
Fairness == /\ WF_vars(OnConnected) /\ WF_vars(Snapshot)
            /\ WF_vars(NextMessage) /\ WF_vars(ApplyItem)

Spec == Init /\ [][Next]_vars /\ Fairness

-----------------------------------------------------------------------------
(* Properties *)

Closed(k) == k \in Positions /\ held[k] = 0
Current(k) == shown[k] = IF Closed(k) THEN Absent ELSE held[k]

\* Nothing more will be said of key k in this session, as it stands.
Settled(k) == subscribed /\ ~Pending(k) /\ k \notin spoilt

\* Whatever was missed while the channel was down, a session whose messages have
\* been parsed shows every balance and every open position as the exchange holds
\* it: the snapshot of the re-subscription makes up for the lost messages.
OpenIsCurrent == \A k \in Keys : Settled(k) /\ ~Closed(k) => Current(k)

\* A closed position is still shown only if the exchange closed it while nobody
\* was told: then nothing removes it, because a snapshot does not mention it.
StaleOnlyIfUnseen == \A k \in Keys : Settled(k) /\ ~Current(k) => k \in unseen

\* When connections and changes calm down, what is shown settles on what is held,
\* but for positions that closed unseen and items that could not be parsed.
Converges == \A k \in Keys : <>[](Current(k) \/ k \in unseen \/ k \in spoilt)
==============================================================================
