-------------------------- MODULE PreferenceRules --------------------------
(***************************************************************************)
(* The two-layer channel preferences of backend/internal/repo/             *)
(* preferences.go as pure operators: how a send resolves the channels of   *)
(* one user and one category, and what the preference page shows.          *)
(*                                                                         *)
(* A stored channel list is represented by how often it names each         *)
(* channel: its order never matters, its repetitions do (nothing on the    *)
(* way from the request to the table removes them, and the send creates    *)
(* one record per entry).                                                  *)
(***************************************************************************)
EXTENDS NotificationRecords

CONSTANT MaxCopies \* how often one list may name one channel

ASSUME MaxCopiesAssumption == MaxCopies \in Nat \ {0}

ChannelList == [Channel -> 0 .. MaxCopies]

NoChannels == [c \in Channel |-> 0]

Names(list) == {c \in Channel : list[c] > 0}

IsEmpty(list) == Names(list) = {}

\* defaultGlobalChannels: IM only, the one channel that has an adapter.
DefaultGlobalChannels == [c \in Channel |-> IF c = "IM" THEN 1 ELSE 0]

\* One row of notification_preferences as loadPreferenceRowTx returns it:
\* "set" is hasRow.
Layer == [set : BOOLEAN, channels : ChannelList]

Unset == [set |-> FALSE, channels |-> NoChannels]

Preferences == [global : Layer, category : Layer]

Intersect(list, ceiling) ==
    [c \in Channel |-> IF ceiling[c] > 0 THEN list[c] ELSE 0]

Ceiling(global) == IF global.set THEN global.channels ELSE DefaultGlobalChannels

\* Seeded faults: a category is not held under the global list; the critical
\* category gets no fallback.
ResolveWithoutCeiling(global, category, critical) ==
    LET resolved == IF category.set THEN category.channels ELSE Ceiling(global)
    IN  IF critical /\ IsEmpty(resolved)
        THEN DefaultGlobalChannels
        ELSE resolved

ResolveWithoutFallback(global, category, critical) ==
    IF category.set
    THEN Intersect(category.channels, Ceiling(global))
    ELSE Ceiling(global)

\* ResolvePreferredChannelsTx on the two rows it reads.
Resolve(global, category, critical) ==
    LET resolved == IF category.set
                    THEN Intersect(category.channels, Ceiling(global))
                    ELSE Ceiling(global)
    IN  IF critical /\ IsEmpty(resolved)
        THEN DefaultGlobalChannels
        ELSE resolved
============================================================================
