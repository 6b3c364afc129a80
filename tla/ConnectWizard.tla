---------------------------- MODULE ConnectWizard ----------------------------
(***************************************************************************)
(* The channels page: the cards (ChannelList), the wizard that connects a  *)
(* channel (ConnectWizard) with the popup in which Cafe24 asks for consent *)
(* and the polling beside it, disconnection, and the handlers they call    *)
(* (api/v1/channels.py).                                                   *)
(*                                                                         *)
(* A shop is a Cafe24 mall or the key pair of another channel: one row of  *)
(* the channels table, unique by (user, type, shop_name).  "off" is an     *)
(* is_active of false, set when the tokens die; "deleted" is a deleted_at. *)
(* The wizard is a component that is unmounted when it is closed: its      *)
(* continuations run all the same (`mine` is false then).  The popup has a *)
(* name, so there is one.                                                  *)
(*                                                                         *)
(* `tried` is a history variable: no guard reads it.                       *)
(***************************************************************************)
EXTENDS Naturals

CONSTANTS
    Mall,           \* Cafe24 shops
    Key,            \* key pairs of the channels without consent
    Call,           \* requests that may be in flight together
    NoShop,         \* no shop, nothing typed, no dialog
    MaxCalls,       \* bound: requests sent
    MaxExpiries     \* bound: connections that die

Shop == Mall \cup Key

VARIABLES
    shop,           \* [Shop -> "none", "on", "off" or "deleted"]
    expiries,       \* connections that died so far
    listed,         \* the shops the cache holds for ["channels"]
    popup,          \* "closed", "app" after the redirect, or the mall it asks for
    wizard,         \* the wizard, or Closed
    poll,           \* the poll in flight
    asking,         \* [Call -> a request and its answer]
    asked,          \* requests sent so far
    disconnecting,  \* the shop of the disconnect dialog, or NoShop
    tried           \* history: this wizard sent a request

vars == <<shop, expiries, listed, popup, wizard, poll, asking, asked,
          disconnecting, tried>>

\* code: "cafe24" or another channel; ref: popupRef holds the window.
Wizards == [code : {"cafe24", "keys"}, step : {"credentials", "verify", "done"},
            mode : {"oauth", "manual"}, typed : Shop \cup {NoShop},
            polling : BOOLEAN, ref : BOOLEAN]
Closed == [code |-> "cafe24", step |-> "closed"]
Calls == [kind : {"none", "url", "manual", "connect", "disconnect"},
          shop : Shop \cup {NoShop}, mine : BOOLEAN,
          phase : {"idle", "sent", "ok", "error"}]
Idle == [kind |-> "none", shop |-> NoShop, mine |-> FALSE, phase |-> "idle"]
NoPoll == [phase |-> "none", mine |-> FALSE, ref |-> FALSE]

TypeOK ==
    /\ shop \in [Shop -> {"none", "on", "off", "deleted"}]
    /\ expiries \in 0 .. MaxExpiries
    /\ listed \subseteq Shop
    /\ popup \in {"closed", "app"} \/ popup \in Mall
    /\ wizard = Closed \/ wizard \in Wizards
    /\ poll \in [phase : {"none", "sent"}, mine : BOOLEAN, ref : BOOLEAN]
    /\ asking \in [Call -> Calls]
    /\ asked \in 0 .. MaxCalls
    /\ disconnecting \in Shop \cup {NoShop}
    /\ tried \in BOOLEAN

Init ==
    /\ shop \in [Shop -> {"none", "on", "off"}] /\ expiries = 0
    /\ listed = {} /\ popup = "closed"
    /\ wizard = Closed /\ poll = NoPoll
    /\ asking = [c \in Call |-> Idle] /\ asked = 0
    /\ disconnecting = NoShop
    /\ tried = FALSE

-----------------------------------------------------------------------------
(* The page                                                                *)

\* GET /channels: every row without deleted_at, also one that is off.
Rows == {s \in Shop : shop[s] \in {"on", "off"}}

\* The query asks again when it is invalidated, mounted or old.
Refetch ==
    /\ listed # Rows
    /\ listed' = Rows
    /\ UNCHANGED <<shop, expiries, popup, wizard, poll, asking, asked,
                   disconnecting, tried>>

\* A card's connect or manage button: both open the wizard.
OpenWizard(code) ==
    /\ wizard = Closed /\ disconnecting = NoShop
    /\ wizard' = [code |-> code, step |-> "credentials", mode |-> "oauth",
                  typed |-> NoShop, polling |-> FALSE, ref |-> FALSE]
    /\ tried' = FALSE
    /\ UNCHANGED <<shop, expiries, listed, popup, poll, asking, asked, disconnecting>>

OpenDisconnect ==
    /\ wizard = Closed /\ disconnecting = NoShop
    /\ \E s \in listed : disconnecting' = s
    /\ UNCHANGED <<shop, expiries, listed, popup, wizard, poll, asking, asked,
                   tried>>

CloseDisconnect ==
    /\ disconnecting # NoShop
    /\ disconnecting' = NoShop
    /\ UNCHANGED <<shop, expiries, listed, popup, wizard, poll, asking, asked,
                   tried>>

Active(c) == asking[c].phase # "idle"
\* isPending of a mutation of this wizard or of the page.
Pending(kind) == \E c \in Call : Active(c) /\ asking[c].mine /\ asking[c].kind = kind

Ask(c, kind, s) ==
    /\ ~Active(c) /\ ~Pending(kind)
    /\ asked < MaxCalls
    /\ asked' = asked + 1
    /\ asking' = [asking EXCEPT ![c] = [kind |-> kind, shop |-> s, mine |-> TRUE,
                                        phase |-> "sent"]]

ConfirmDisconnect(c) ==
    /\ disconnecting # NoShop
    /\ Ask(c, "disconnect", disconnecting)
    /\ UNCHANGED <<shop, expiries, listed, popup, wizard, poll, disconnecting,
                   tried>>

-----------------------------------------------------------------------------
(* The wizard                                                              *)

Open == wizard # Closed

SetMode ==
    /\ Open /\ wizard.code = "cafe24" /\ wizard.step = "credentials"
    /\ wizard' = [wizard EXCEPT !.mode = IF @ = "oauth" THEN "manual" ELSE "oauth"]
    /\ UNCHANGED <<shop, expiries, listed, popup, poll, asking, asked,
                   disconnecting, tried>>

\* handleFieldChange, once the fields are complete.
FillIn ==
    /\ Open /\ wizard.step = "credentials"
    /\ \E s \in IF wizard.code = "cafe24" THEN Mall ELSE Key :
           wizard' = [wizard EXCEPT !.typed = s]
    /\ UNCHANGED <<shop, expiries, listed, popup, poll, asking, asked,
                   disconnecting, tried>>

Submit(c, kind) ==
    /\ Ask(c, kind, wizard.typed)
    /\ tried' = TRUE
    /\ UNCHANGED <<shop, expiries, listed, popup, wizard, poll, disconnecting>>

\* handleCafe24OAuth and handleCafe24ManualConnect, up to their await.
SubmitCafe24(c) ==
    /\ Open /\ wizard.code = "cafe24" /\ wizard.step = "credentials"
    /\ wizard.typed # NoShop
    /\ Submit(c, IF wizard.mode = "oauth" THEN "url" ELSE "manual")

\* The other channels' second step and the way back.
ToVerify ==
    /\ Open /\ wizard.code = "keys" /\ wizard.step = "credentials"
    /\ wizard.typed # NoShop
    /\ wizard' = [wizard EXCEPT !.step = "verify"]
    /\ UNCHANGED <<shop, expiries, listed, popup, poll, asking, asked,
                   disconnecting, tried>>

Back ==
    /\ Open /\ wizard.code = "keys" /\ wizard.step = "verify"
    /\ ~Pending("connect")
    /\ wizard' = [wizard EXCEPT !.step = "credentials"]
    /\ UNCHANGED <<shop, expiries, listed, popup, poll, asking, asked,
                   disconnecting, tried>>

\* handleVerify, up to its await.
SubmitKeys(c) ==
    /\ Open /\ wizard.code = "keys" /\ wizard.step = "verify"
    /\ Submit(c, "connect")

\* The wizard is unmounted; what it awaits goes on.
Unmounted ==
    /\ wizard' = Closed
    /\ poll' = [poll EXCEPT !.mine = FALSE]
    /\ asking' = [c \in Call |->
           IF asking[c].kind = "disconnect" THEN asking[c] ELSE [asking[c] EXCEPT !.mine = FALSE]]
    /\ tried' = FALSE
    /\ UNCHANGED <<shop, expiries, listed, asked, disconnecting>>

\* handleClose: the Cancel and Done buttons.
Cancel ==
    /\ Open /\ ~(wizard.code = "keys" /\ wizard.step = "verify")
    /\ popup' = IF wizard.ref THEN "closed" ELSE popup
    /\ Unmounted

\* Escape, the cross, a click beside it: not handleClose.
Dismiss == Open /\ UNCHANGED popup /\ Unmounted

-----------------------------------------------------------------------------
(* Answers                                                                 *)

\* step3DoneDesc: the channel is connected.
Done == wizard' = [wizard EXCEPT !.step = "done", !.polling = FALSE]

\* The URL opens the popup, also for a wizard closed meanwhile; the browser may
\* block it, and window.open returns null.
UrlArrived(c) ==
    /\ asking[c].kind = "url" /\ asking[c].phase = "ok"
    /\ \E opened \in BOOLEAN :
        /\ popup' = IF opened THEN asking[c].shop ELSE popup
        /\ wizard' = IF asking[c].mine
                     THEN [wizard EXCEPT !.step = "verify", !.polling = TRUE, !.ref = opened]
                     ELSE wizard
    /\ asking' = [asking EXCEPT ![c] = Idle]
    /\ UNCHANGED <<shop, expiries, listed, poll, asked, disconnecting, tried>>

ConnectionMade(c) ==
    /\ asking[c].kind \in {"manual", "connect"} /\ asking[c].phase = "ok"
    /\ asking' = [asking EXCEPT ![c] = Idle]
    /\ IF asking[c].mine THEN Done ELSE UNCHANGED wizard
    /\ UNCHANGED <<shop, expiries, listed, popup, poll, asked, disconnecting, tried>>

Disconnected(c) ==
    /\ asking[c].kind = "disconnect" /\ asking[c].phase = "ok"
    /\ asking' = [asking EXCEPT ![c] = Idle]
    /\ disconnecting' = NoShop
    /\ UNCHANGED <<shop, expiries, listed, popup, wizard, poll, asked, tried>>

\* A toast says so; nobody catches a failed disconnection.
Failed(c) ==
    /\ asking[c].phase = "error"
    /\ asking' = [asking EXCEPT ![c] = Idle]
    /\ UNCHANGED <<shop, expiries, listed, popup, wizard, poll, asked,
                   disconnecting, tried>>

-----------------------------------------------------------------------------
(* Polling                                                                 *)

Fault_PopupBack == wizard.ref /\ popup \notin Mall

PopupGone == wizard.ref /\ popup = "closed"

\* Every two seconds; a tick that finds the popup closed stops the polling.
Tick ==
    /\ Open /\ wizard.polling /\ poll = NoPoll
    /\ ~PopupGone
    /\ poll' = [phase |-> "sent", mine |-> TRUE, ref |-> wizard.ref]
    /\ UNCHANGED <<shop, expiries, listed, popup, wizard, asking, asked,
                   disconnecting, tried>>

StopPolling ==
    /\ Open /\ wizard.polling
    /\ PopupGone
    /\ wizard' = [wizard EXCEPT !.polling = FALSE]
    /\ UNCHANGED <<shop, expiries, listed, popup, poll, asking, asked,
                   disconnecting, tried>>

Fault_AnyWizard == Open

StillMine == poll.mine

\* Any Cafe24 row in the list will do.
PollAnswered ==
    /\ poll # NoPoll
    /\ poll' = NoPoll
    /\ listed' = Rows
    /\ IF Rows \cap Mall # {}
       THEN /\ popup' = IF poll.ref THEN "closed" ELSE popup
            /\ IF StillMine THEN Done ELSE UNCHANGED wizard
       ELSE UNCHANGED <<popup, wizard>>
    /\ UNCHANGED <<shop, expiries, asking, asked, disconnecting, tried>>

-----------------------------------------------------------------------------
(* The popup and the server                                                *)

\* The seller agrees and the callback stores the tokens; the popup then shows
\* /channels?cafe24=connected.
Authorise ==
    /\ popup \in Mall
    /\ shop' = [shop EXCEPT ![popup] = "on"]
    /\ popup' = "app"
    /\ UNCHANGED <<expiries, listed, wizard, poll, asking, asked, disconnecting,
                   tried>>

\* The seller refuses or the exchange fails: /channels?cafe24=error.
Decline ==
    /\ popup \in Mall
    /\ popup' = "app"
    /\ UNCHANGED <<shop, expiries, listed, wizard, poll, asking, asked,
                   disconnecting, tried>>

ClosePopup ==
    /\ popup # "closed"
    /\ popup' = "closed"
    /\ UNCHANGED <<shop, expiries, listed, wizard, poll, asking, asked,
                   disconnecting, tried>>

Answers(c, row, phase) ==
    /\ shop' = [shop EXCEPT ![asking[c].shop] = row]
    /\ asking' = [asking EXCEPT ![c].phase = phase]
    /\ UNCHANGED <<expiries, listed, popup, wizard, poll, asked, disconnecting,
                   tried>>

\* POST /channels inserts: the constraint refuses a second row, also beside one
\* that is off or deleted.
Insertable(s) == shop[s] = "none"

\* The insert of POST /channels, the upsert of connect-manual, the deletion of a
\* live row; the answer may be lost on the way back.
Serve(c) ==
    /\ asking[c].phase = "sent"
    /\ LET s == asking[c].shop IN
       \E phase \in {"ok", "error"} :
        CASE asking[c].kind = "url"        -> Answers(c, shop[s], phase)
          [] asking[c].kind = "manual"     -> Answers(c, "on", phase)
          [] asking[c].kind = "connect"    ->
                IF Insertable(s) THEN Answers(c, "on", phase) ELSE Answers(c, shop[s], "error")
          [] asking[c].kind = "disconnect" ->
                IF s \in Rows THEN Answers(c, "deleted", phase) ELSE Answers(c, shop[s], "error")

\* The request itself is lost.
Lose(c) ==
    /\ asking[c].phase = "sent"
    /\ Answers(c, shop[asking[c].shop], "error")

\* A refresh token dies and the connection is marked.
Expire(s) ==
    /\ shop[s] = "on"
    /\ expiries < MaxExpiries
    /\ expiries' = expiries + 1
    /\ shop' = [shop EXCEPT ![s] = "off"]
    /\ UNCHANGED <<listed, popup, wizard, poll, asking, asked, disconnecting,
                   tried>>

Polls == Tick \/ StopPolling \/ PollAnswered

Next ==
    \/ Refetch \/ OpenDisconnect \/ CloseDisconnect \/ SetMode \/ FillIn
    \/ ToVerify \/ Back \/ Cancel \/ Dismiss
    \/ Tick \/ StopPolling \/ PollAnswered
    \/ Authorise \/ Decline \/ ClosePopup
    \/ OpenWizard("cafe24") \/ OpenWizard("keys")
    \/ \E s \in Shop : Expire(s)
    \/ \E c \in Call :
           \/ ConfirmDisconnect(c) \/ SubmitCafe24(c) \/ SubmitKeys(c)
           \/ UrlArrived(c) \/ ConnectionMade(c) \/ Disconnected(c) \/ Failed(c)
           \/ Serve(c) \/ Lose(c)

Spec == Init /\ [][Next]_vars

\* The interval runs and its requests are answered.
FairSpec == Spec /\ WF_vars(Polls)

-----------------------------------------------------------------------------
(* Properties                                                              *)

\* A wizard reaches its later steps by its own request, never by an answer to
\* one that was closed before it.
DoneIsOwn == Open /\ wizard.step = "done" => tried

\* The connection the seller agreed to in the popup is told, unless the popup
\* or the wizard is closed first, or the shop disconnected.
AgreedIsTold ==
    (Open /\ wizard.polling /\ popup = "app" /\ wizard.typed \in Rows)
        ~> (~Open \/ wizard.step = "done" \/ popup = "closed" \/ wizard.typed \notin Rows)

=============================================================================
