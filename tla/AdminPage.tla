------------------------------ MODULE AdminPage ------------------------------
(***************************************************************************)
(* The settings page of an administrator: the list with its search, scope  *)
(* and pages (AdminSettingsContent), the edit dialog (SettingEditDialog)   *)
(* and the drawer of past values with its rollback (SettingHistoryDrawer), *)
(* behind AdminOnlyGate.  What the handlers do to a value and to the       *)
(* servers' caches is in SettingsCache; here they add an entry to the      *)
(* history of a setting.                                                   *)
(*                                                                         *)
(* Settings are not created or deleted while the program runs: a page of   *)
(* the list follows from its filter and cursor.  Every setting was changed *)
(* twice before.  `wrong` is history.                                      *)
(***************************************************************************)
EXTENDS Naturals, Sequences, SequencesExt, FiniteSetsExt

CONSTANTS
    K,              \* the keys are 1 .. K, in their order
    PAGE_SIZE,      \* settings on a page
    MaxEntries      \* bound: changes of one setting

Key == 1 .. K
Undefined == 0      \* no cursor, no setting, no entry
Scope == {"", "global"}     \* "" is every scope

VARIABLES
    isHydrated,     \* the session is read from the storage
    isSuperuser,    \* and is an administrator's
    scope,          \* the filter; q works the same
    cursor,         \* the last key before the page that is shown
    prevCursors,    \* the cursors of the pages before it
    entries,        \* [Key -> changes of the setting]
    shownEntries,   \* [Key -> changes in the cached history]
    editTarget,     \* the setting in the edit dialog
    historyTarget,  \* the setting in the drawer
    confirmTarget,  \* <<setting, entry>> of the rollback to be confirmed
    update,         \* the PATCH in flight: its setting, and "ok" or "error" once served
    rollback,       \* the POST in flight
    wrong           \* history: a rollback named an entry of another setting

targets == <<editTarget, historyTarget, confirmTarget>>
list == <<scope, cursor, prevCursors>>
vars == <<isHydrated, isSuperuser, list, entries, shownEntries, targets, update,
          rollback, wrong>>

NoCall == [phase |-> "idle", id |-> Undefined, entry |-> <<Undefined, Undefined>>]
Calls == [phase : {"idle", "sent", "ok", "error"}, id : Key \cup {Undefined},
          entry : (Key \cup {Undefined}) \X (0 .. MaxEntries)]

TypeOK ==
    /\ isHydrated \in BOOLEAN /\ isSuperuser \in BOOLEAN
    /\ scope \in Scope /\ cursor \in 0 .. K
    /\ prevCursors \in Seq(0 .. K)
    /\ entries \in [Key -> 0 .. MaxEntries] /\ shownEntries \in [Key -> 0 .. MaxEntries]
    /\ editTarget \in 0 .. K /\ historyTarget \in 0 .. K
    /\ confirmTarget \in (0 .. K) \X (0 .. MaxEntries)
    /\ update \in Calls /\ rollback \in Calls /\ wrong \in BOOLEAN

Init ==
    /\ isHydrated = FALSE /\ isSuperuser \in BOOLEAN
    /\ scope = "" /\ cursor = Undefined /\ prevCursors = <<>>
    /\ entries = [k \in Key |-> 2] /\ shownEntries = entries
    /\ editTarget = Undefined /\ historyTarget = Undefined
    /\ confirmTarget = <<Undefined, Undefined>>
    /\ update = NoCall /\ rollback = NoCall /\ wrong = FALSE

-----------------------------------------------------------------------------
(* The list                                                                *)

\* AdminOnlyGate; a dialog or the drawer covers the list.
Hydrate ==
    /\ ~isHydrated
    /\ isHydrated' = TRUE
    /\ UNCHANGED <<isSuperuser, list, entries, shownEntries, targets, update, rollback,
                   wrong>>

Listed == isHydrated /\ isSuperuser /\ editTarget = Undefined /\ historyTarget = Undefined

\* Keys of odd rank are global, the others belong to a channel.
InScope(s) == {k \in Key : s = "global" => k % 2 = 1}

\* list_settings: the keys after the cursor, and whether there are more.
Rest(s, after) == {k \in InScope(s) : k > after}
Page(s, after) == {k \in Rest(s, after) :
                      Cardinality({j \in Rest(s, after) : j <= k}) <= PAGE_SIZE}
NextCursor == IF Cardinality(Rest(scope, cursor)) > PAGE_SIZE
              THEN Max(Page(scope, cursor)) ELSE Undefined

Fault_KeepsCursor == prevCursors' = <<>> /\ cursor' = cursor

ResetPages == prevCursors' = <<>> /\ cursor' = Undefined

SetScope(s) ==
    /\ Listed
    /\ scope' = s
    /\ ResetPages
    /\ UNCHANGED <<isHydrated, isSuperuser, entries, shownEntries, targets, update,
                   rollback, wrong>>

HandleNext ==
    /\ Listed
    /\ NextCursor # Undefined
    /\ prevCursors' = Append(prevCursors, cursor)
    /\ cursor' = NextCursor
    /\ UNCHANGED <<isHydrated, isSuperuser, scope, entries, shownEntries, targets,
                   update, rollback, wrong>>

HandlePrev ==
    /\ Listed
    /\ prevCursors # <<>>
    /\ cursor' = Last(prevCursors)
    /\ prevCursors' = Front(prevCursors)
    /\ UNCHANGED <<isHydrated, isSuperuser, scope, entries, shownEntries, targets,
                   update, rollback, wrong>>

-----------------------------------------------------------------------------
(* Editing                                                                 *)

OpenEdit(k) ==
    /\ Listed
    /\ k \in Page(scope, cursor)
    /\ editTarget' = k
    /\ UNCHANGED <<isHydrated, isSuperuser, list, entries, shownEntries, historyTarget,
                   confirmTarget, update, rollback, wrong>>

\* Escape also while the update is pending.
CloseEdit ==
    /\ editTarget # Undefined
    /\ editTarget' = Undefined
    /\ UNCHANGED <<isHydrated, isSuperuser, list, entries, shownEntries, historyTarget,
                   confirmTarget, update, rollback, wrong>>

\* The text parses as JSON.
OnSubmit ==
    /\ editTarget # Undefined /\ update = NoCall
    /\ update' = [NoCall EXCEPT !.phase = "sent", !.id = editTarget]
    /\ UNCHANGED <<isHydrated, isSuperuser, list, entries, shownEntries, targets,
                   rollback, wrong>>

\* onClose closes the dialog, whichever setting it shows by now; the history of
\* the setting is not invalidated.
Updated ==
    /\ update.phase \in {"ok", "error"}
    /\ update' = NoCall
    /\ editTarget' = IF update.phase = "ok" THEN Undefined ELSE editTarget
    /\ UNCHANGED <<isHydrated, isSuperuser, list, entries, shownEntries, historyTarget,
                   confirmTarget, rollback, wrong>>

-----------------------------------------------------------------------------
(* History and rollback                                                    *)

\* The query asks if its answer is older than staleTime.
OpenHistory(k) ==
    /\ Listed
    /\ k \in Page(scope, cursor)
    /\ historyTarget' = k
    /\ \E n \in {entries[k], shownEntries[k]} :
           shownEntries' = [shownEntries EXCEPT ![k] = n]
    /\ UNCHANGED <<isHydrated, isSuperuser, list, entries, editTarget, confirmTarget,
                   update, rollback, wrong>>

\* The cross, or a click beside the drawer; the confirmation covers both.
CloseHistory ==
    /\ historyTarget # Undefined /\ confirmTarget[1] = Undefined
    /\ historyTarget' = Undefined
    /\ UNCHANGED <<isHydrated, isSuperuser, list, entries, shownEntries, editTarget,
                   confirmTarget, update, rollback, wrong>>

IsRollingBack == rollback # NoCall

\* Entries but the newest can be rolled back to.
ChooseEntry(e) ==
    /\ historyTarget # Undefined /\ confirmTarget[1] = Undefined
    /\ ~IsRollingBack
    /\ e < shownEntries[historyTarget]
    /\ confirmTarget' = <<historyTarget, e>>
    /\ UNCHANGED <<isHydrated, isSuperuser, list, entries, shownEntries, editTarget,
                   historyTarget, update, rollback, wrong>>

\* Escape also while the rollback is pending.
CancelRollback ==
    /\ confirmTarget[1] # Undefined
    /\ confirmTarget' = <<Undefined, Undefined>>
    /\ UNCHANGED <<isHydrated, isSuperuser, list, entries, shownEntries, editTarget,
                   historyTarget, update, rollback, wrong>>

\* The confirmation is drawn with the drawer.
HandleRollback ==
    /\ historyTarget # Undefined /\ confirmTarget[1] # Undefined
    /\ ~IsRollingBack
    /\ rollback' = [phase |-> "sent", id |-> historyTarget, entry |-> confirmTarget]
    /\ wrong' = (wrong \/ confirmTarget[1] # historyTarget)
    /\ UNCHANGED <<isHydrated, isSuperuser, list, entries, shownEntries, targets, update>>

Fault_KeepsConfirm(success) == UNCHANGED confirmTarget

ClearConfirm(success) ==
    confirmTarget' = IF success THEN <<Undefined, Undefined>> ELSE confirmTarget

\* The history is invalidated, the confirmation and the drawer are closed.
RolledBack ==
    LET success == rollback.phase = "ok"
    IN  /\ rollback.phase \in {"ok", "error"}
        /\ rollback' = NoCall
        /\ ClearConfirm(success)
        /\ historyTarget' = IF success THEN Undefined ELSE historyTarget
        /\ shownEntries' = IF success
                           THEN [shownEntries EXCEPT ![rollback.id] = entries[rollback.id]]
                           ELSE shownEntries
        /\ UNCHANGED <<isHydrated, isSuperuser, list, entries, editTarget, update, wrong>>

-----------------------------------------------------------------------------
(* The server                                                              *)

\* update_setting and rollback_setting, which refuses an entry of another
\* setting; or an error.
UpdateServed ==
    /\ update.phase = "sent"
    /\ \/ /\ entries[update.id] < MaxEntries
          /\ entries' = [entries EXCEPT ![update.id] = @ + 1]
          /\ update' = [update EXCEPT !.phase = "ok"]
       \/ update' = [update EXCEPT !.phase = "error"] /\ UNCHANGED entries
    /\ UNCHANGED <<isHydrated, isSuperuser, list, shownEntries, targets, rollback, wrong>>

RollbackServed ==
    /\ rollback.phase = "sent"
    /\ \/ /\ rollback.entry[1] = rollback.id /\ entries[rollback.id] < MaxEntries
          /\ entries' = [entries EXCEPT ![rollback.id] = @ + 1]
          /\ rollback' = [rollback EXCEPT !.phase = "ok"]
       \/ rollback' = [rollback EXCEPT !.phase = "error"] /\ UNCHANGED entries
    /\ UNCHANGED <<isHydrated, isSuperuser, list, shownEntries, targets, update, wrong>>

Next ==
    \/ Hydrate \/ HandleNext \/ HandlePrev
    \/ \E s \in Scope : SetScope(s)
    \/ \E k \in Key : OpenEdit(k) \/ OpenHistory(k)
    \/ CloseEdit \/ OnSubmit \/ Updated
    \/ CloseHistory \/ CancelRollback \/ HandleRollback \/ RolledBack
    \/ \E e \in 1 .. MaxEntries : ChooseEntry(e)
    \/ UpdateServed \/ RollbackServed

Spec == Init /\ [][Next]_vars

-----------------------------------------------------------------------------
(* Properties                                                              *)

\* Every setting the filter lets through can be reached: "previous" leads back
\* to the first page, and the pages passed on the way leave no setting out.
PagesCover ==
    LET starts == Append(prevCursors, cursor)
        passed == UNION {Page(scope, starts[i]) : i \in 1 .. Len(starts)}
    IN  {k \in InScope(scope) : k <= cursor} \subseteq passed

\* The rollback that is confirmed is of the setting whose history is shown: a
\* late answer, the two dialogs closing each other or a drawer opened again
\* never pair an entry with another setting.
RollbackIsOfShown == ~wrong

=============================================================================
