----------------------------- MODULE MCWebSession -----------------------------
(* The session of one tab (WebSession) and its channels page               *)
(* (ConnectWizard) for TLC: a behaviour is one of the two modules'; the     *)
(* other stays as it starts.                                               *)
EXTENDS WebSession

CONSTANTS Mall, Key, Call, NoShop, MaxCalls, MaxExpiries

ASSUME ConnectAssumption == MaxCalls \in Nat /\ MaxExpiries \in Nat

VARIABLES
    part,           \* the module that moves
    shop, expiries, listed, popup, wizard, poll, asking, asked, disconnecting, tried

C == INSTANCE ConnectWizard

connectVars == <<shop, expiries, listed, popup, wizard, poll, asking, asked,
                 disconnecting, tried>>
tabVars == <<part, vars, connectVars>>

TabInit ==
    /\ part \in {"session", "channels"}
    /\ Init /\ C!Init
    /\ part = "session" => \A s \in Mall \cup Key : shop[s] = "none"

TabNext ==
    /\ UNCHANGED part
    /\ \/ part = "session" /\ Next /\ UNCHANGED connectVars
       \/ part = "channels" /\ C!Next /\ UNCHANGED vars

TabSpec ==
    /\ TabInit /\ [][TabNext]_tabVars
    /\ WF_tabVars(Settles /\ UNCHANGED <<part, connectVars>>)
    /\ \A r \in Request : WF_tabVars(Ends(r) /\ UNCHANGED <<part, connectVars>>)
    /\ WF_tabVars(C!Polls /\ UNCHANGED <<part, vars>>)

\* A wizard of the channels page reaches its later steps by its own request,
\* never by an answer to one that was closed before it.
DoneIsOwn == C!DoneIsOwn

\* The connection the seller agreed to in the popup is told by the wizard that
\* asked for it, unless the popup or the wizard is closed first, or the shop
\* is disconnected.
AgreedIsTold == C!AgreedIsTold

=============================================================================
