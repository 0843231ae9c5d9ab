------------------------- MODULE SubscriptionStore -------------------------
(***************************************************************************)
(* The memory of the subscription manager (subscription/manager.rs): the   *)
(* items and the refreshes in flight.                                      *)
(*                                                                         *)
(* Names, URLs and intervals are left out; an item is due when it was      *)
(* never fetched, and may be due otherwise.                                *)
(***************************************************************************)
EXTENDS NodeStore

VARIABLES
  items,       \* SubscriptionManager.items
  refreshing,  \* SubscriptionManager.in_flight
  issued       \* ids handed out so far: a uuid is not used twice

itemVars == <<items, refreshing, issued>>

Item == [enabled : BOOLEAN, listed : SUBSET Nodes, fetched : BOOLEAN]
ItemTable == [Subs -> Item \cup {None}]

ItemsLoaded(table) == items = table /\ refreshing = {}

Live == {s \in Subs : items[s] # None}

AddItem(s, enabled) ==
  /\ s \notin issued
  /\ issued' = issued \cup {s}
  /\ items' = [items EXCEPT ![s] = [enabled |-> enabled, listed |-> {}, fetched |-> FALSE]]
  /\ UNCHANGED refreshing

SetEnabled(s, enabled) ==
  items' = [items EXCEPT ![s].enabled = enabled] /\ UNCHANGED <<refreshing, issued>>

RemoveItem(s) == items' = [items EXCEPT ![s] = None] /\ UNCHANGED <<refreshing, issued>>

\* The lists of due items refresh_due may collect, depending on the clock
DueLists ==
  LET on == {s \in Live : items[s].enabled}
  IN {due \in SUBSET on : \A s \in on \ due : items[s].fetched}

RefreshesAnyway(s) == TRUE

\* refresh rejects a subscription that is being refreshed
CanRefresh(s) == s \notin refreshing

TakeSlot(s) == refreshing' = refreshing \cup {s} /\ UNCHANGED <<items, issued>>
FreeSlot(s) == refreshing' = refreshing \ {s} /\ UNCHANGED <<items, issued>>

\* Metadata of a finished refresh, if the item is still there
Record(s, ids) ==
  /\ items' = IF s \in Live
              THEN [items EXCEPT ![s] = [@ EXCEPT !.listed = ids, !.fetched = TRUE]]
              ELSE items
  /\ UNCHANGED <<refreshing, issued>>
=============================================================================
