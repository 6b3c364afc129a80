------------------------------ MODULE MCWebLists ----------------------------
(* The lists (ListPages) and the pages of one channel item (ListingPages)    *)
(* for TLC: a behaviour is one of the two modules'; the other stays as it    *)
(* starts.                                                                   *)
EXTENDS Naturals, TLC

CONSTANTS N, ListCall, NoRow, MaxListCalls, MaxChanges, ItemCall, MaxItemCalls

ASSUME ListsAssumption ==
    /\ N \in Nat \ {0} /\ NoRow \notin 1 .. N
    /\ MaxListCalls \in Nat /\ MaxChanges \in Nat /\ MaxItemCalls \in Nat

VARIABLES
    piece,          \* the module that moves
    \* ListPages
    table, row, changes, asking, asked, filter, drawn, rowSelection, opened,
    target, entered, queue, ticked, moved, strayed,
    \* ListingPages
    match, decisions, sync, alive, images, requests, sentSoFar, place, offered,
    inFlight, shownSync, modal, hasty, selected, channelId, unseen, again

L == INSTANCE ListPages WITH Call <- ListCall, NoValue <- NoRow, MaxCalls <- MaxListCalls,
         MaxForeign <- MaxChanges, foreign <- changes, requests <- asking,
         sentSoFar <- asked, shown <- drawn, dialog <- opened
R == INSTANCE ListingPages WITH Call <- ItemCall, MaxCalls <- MaxItemCalls, page <- place,
         behind <- unseen

listVars == <<table, row, changes, asking, asked, filter, drawn, rowSelection,
              opened, target, entered, queue, ticked, moved, strayed>>
itemVars == <<match, decisions, sync, alive, images, requests, sentSoFar, place,
              offered, inFlight, shownSync, modal, hasty, selected, channelId,
              unseen, again>>
listsVars == <<piece, listVars, itemVars>>

ListsInit ==
    /\ piece \in {"lists", "item"}
    /\ L!Init /\ R!Init
    /\ piece # "lists" => table = "products" /\ row[N] = "gone"
    /\ piece # "item" => match = "none" /\ sync = "SYNCED"

ListsNext ==
    /\ UNCHANGED piece
    /\ \/ piece = "lists" /\ L!Next /\ UNCHANGED itemVars
       \/ piece = "item" /\ R!Next /\ UNCHANGED listVars

ListsSpec == ListsInit /\ [][ListsNext]_listsVars

\* The calls are interchangeable, and no liveness is checked.
ListsSymmetry == Permutations(ItemCall)

\* The match of an item is decided again only over an old list (ListingPages).
DecidedOnce == R!DecidedOnce

\* A bulk action is sent for rows ticked since the last one (ListPages).
SentWereTicked == L!SentWereTicked

=============================================================================
