-------------------------- MODULE MCSettingsCache --------------------------
(* The settings on the servers (SettingsCache) and the page that edits them *)
(* (AdminPage) for TLC: a behaviour is one of the two modules'; the other   *)
(* stays as it starts.                                                      *)
EXTENDS SettingsCache

CONSTANTS K, PAGE_SIZE, MaxEntries

ASSUME PageAssumption ==
    K \in Nat /\ PAGE_SIZE \in Nat \ {0} /\ MaxEntries \in Nat /\ MaxEntries >= 2

VARIABLES
    part,           \* the module that moves
    isHydrated, isSuperuser, scope, cursor, prevCursors, entries, shownEntries,
    editTarget, historyTarget, confirmTarget, update, rollback, wrong

A == INSTANCE AdminPage

pageVars == <<isHydrated, isSuperuser, scope, cursor, prevCursors, entries, shownEntries,
              editTarget, historyTarget, confirmTarget, update, rollback, wrong>>
settingsVars == <<part, vars, pageVars>>

SettingsInit ==
    /\ part \in {"servers", "page"}
    /\ Init /\ A!Init
    /\ part = "servers" => isSuperuser

SettingsNext ==
    /\ UNCHANGED part
    /\ \/ part = "servers" /\ Next /\ UNCHANGED pageVars
       \/ part = "page" /\ A!Next /\ UNCHANGED vars

SettingsSpec == SettingsInit /\ [][SettingsNext]_settingsVars /\ Fairness

\* The pages of the list cover it: the page that is shown starts where the ones
\* before it end.
PagesCover == A!PagesCover

\* A rollback names an entry of the history it was chosen from.
RollbackIsOfShown == A!RollbackIsOfShown

=============================================================================
