---------------------------- MODULE SettingsCache ----------------------------
(***************************************************************************)
(* The runtime settings: one row of app_settings with its history          *)
(* (api/v1/admin.py), and the copy every API instance keeps in memory      *)
(* (infra/cache/settings_cache.py), which a TTL and a Redis pub/sub        *)
(* message invalidate.                                                     *)
(*                                                                         *)
(* Every await of a handler is a point where others run: between the       *)
(* SELECT of a load and the assignment of its result, between the commit   *)
(* of an update, the local invalidation and the publish.  The lengths of   *)
(* the TTL are left out: an entry may expire at any moment, and does so    *)
(* eventually.                                                             *)
(*                                                                         *)
(* `overlapped` and `missed` are history variables: no guard reads them.   *)
(***************************************************************************)
EXTENDS Naturals, Sequences

CONSTANTS
    Instance,       \* API processes
    Nowhere,
    Reader,         \* concurrent GET /config requests
    Admin,          \* concurrent PATCH and rollback requests
    Value,          \* values of the setting
    Bad,            \* those AppConfig.model_validate refuses
    NoConfig,       \* an empty or expired cache
    Initial,        \* the seeded value
    MaxWrites       \* bound: updates and rollbacks

ASSUME InstanceAssumption == Nowhere \notin Instance
ASSUME ValueAssumption ==
    Bad \subseteq Value /\ Initial \in Value /\ NoConfig \notin Value
ASSUME WritesAssumption == MaxWrites \in Nat

VARIABLES
    value,          \* the committed row
    version,        \* its version column
    history,        \* app_settings_history, in the order of the commits
    cache,          \* [Instance -> Value or NoConfig], what get() returns
    listening,      \* instances whose listener is subscribed
    inbox,          \* [Instance -> Nat], invalidations not yet delivered
    load,           \* [Reader -> the load it is in]
    edit,           \* [Admin -> the request it serves]
    overlapped,     \* history: an edit was committed over another one
    missed          \* history: instances that may keep an outdated config

row == <<value, version, history>>
vars == <<row, cache, listening, inbox, load, edit, overlapped, missed>>

Load == [at : Instance \cup {Nowhere}, got : Value \cup {NoConfig}]
NoLoad == [at |-> Nowhere, got |-> NoConfig]

Phase == {"idle", "read", "committed", "invalidated"}
Edit == [phase : Phase, at : Instance \cup {Nowhere},
         old : Value, version : Nat, new : Value]
NoEdit == [phase |-> "idle", at |-> Nowhere,
           old |-> Initial, version |-> 0, new |-> Initial]

TypeOK ==
    /\ value \in Value
    /\ version \in Nat
    /\ history \in Seq([old : Value, new : Value])
    /\ cache \in [Instance -> Value \cup {NoConfig}]
    /\ listening \subseteq Instance
    /\ inbox \in [Instance -> Nat]
    /\ load \in [Reader -> Load]
    /\ edit \in [Admin -> Edit]
    /\ overlapped \in BOOLEAN
    /\ missed \subseteq Instance

Init ==
    /\ value = Initial
    /\ version = 1
    /\ history = << >>
    /\ cache = [i \in Instance |-> NoConfig]
    /\ listening = {}
    /\ inbox = [i \in Instance |-> 0]
    /\ load = [r \in Reader |-> NoLoad]
    /\ edit = [a \in Admin |-> NoEdit]
    /\ overlapped = FALSE
    /\ missed = {}

-----------------------------------------------------------------------------
(* get(): a hit returns at once and changes nothing; a miss loads. *)

Miss(r, i) ==
    /\ load[r].at = Nowhere
    /\ cache[i] = NoConfig
    /\ load' = [load EXCEPT ![r].at = i]
    /\ UNCHANGED <<row, cache, listening, inbox, edit, overlapped, missed>>

\* load_app_config: SELECT, then model_validate, which may raise.
Select(r) ==
    /\ load[r].at # Nowhere
    /\ load[r].got = NoConfig
    /\ load' = [load EXCEPT ![r] =
                    IF value \in Bad THEN NoLoad ELSE [@ EXCEPT !.got = value]]
    /\ UNCHANGED <<row, cache, listening, inbox, edit, overlapped, missed>>

\* Back from the load: the result is stored, whatever happened meanwhile.
Store(r) ==
    LET i == load[r].at IN
    /\ i # Nowhere
    /\ load[r].got # NoConfig
    /\ cache' = [cache EXCEPT ![i] = load[r].got]
    /\ missed' = IF load[r].got = value THEN missed \ {i} ELSE missed \cup {i}
    /\ load' = [load EXCEPT ![r] = NoLoad]
    /\ UNCHANGED <<row, listening, inbox, edit, overlapped>>

Fault_NeverExpires(i) == FALSE

Expires(i) == cache[i] # NoConfig

Fault_KeepsConfig(i) == cache

\* The cache after invalidate().
Invalidated(i) == [cache EXCEPT ![i] = NoConfig]

\* time.monotonic() reached _expires_at.
Expire(i) ==
    /\ Expires(i)
    /\ cache' = [cache EXCEPT ![i] = NoConfig]
    /\ missed' = missed \ {i}
    /\ UNCHANGED <<row, listening, inbox, load, edit, overlapped>>

-----------------------------------------------------------------------------
(* The listener: subscribe, invalidate at every message, reconnect. *)

Subscribe(i) ==
    /\ i \notin listening
    /\ listening' = listening \cup {i}
    /\ UNCHANGED <<row, cache, inbox, load, edit, overlapped, missed>>

Deliver(i) ==
    /\ inbox[i] > 0
    /\ inbox' = [inbox EXCEPT ![i] = @ - 1]
    /\ cache' = Invalidated(i)
    /\ missed' = missed \ {i}
    /\ UNCHANGED <<row, listening, load, edit, overlapped>>

\* The connection breaks: what was not delivered is gone.
Disconnect(i) ==
    /\ i \in listening
    /\ listening' = listening \ {i}
    /\ inbox' = [inbox EXCEPT ![i] = 0]
    /\ missed' = IF inbox[i] > 0 THEN missed \cup {i} ELSE missed
    /\ UNCHANGED <<row, cache, load, edit, overlapped>>

-----------------------------------------------------------------------------
(* update_setting and rollback_setting. *)

ReadSetting(a, i, new) ==
    /\ edit[a].phase = "idle"
    /\ Len(history) < MaxWrites
    /\ edit' = [edit EXCEPT ![a] = [phase |-> "read", at |-> i, old |-> value,
                                    version |-> version, new |-> new]]
    /\ UNCHANGED <<row, cache, listening, inbox, load, overlapped, missed>>

ReadUpdate(a, i) == \E new \in Value : ReadSetting(a, i, new)

\* What a rollback to a record restores.
Restored(record) == record.old

ReadRollback(a, i) ==
    \E k \in DOMAIN history : ReadSetting(a, i, Restored(history[k]))

Fault_RecordsAfterwards(e) == [old |-> e.new, new |-> e.new]

Record(e) == [old |-> e.old, new |-> e.new]

\* One transaction: the record, and an UPDATE of the columns that differ from
\* what was read (version always does).
CommitEdit(a) ==
    LET e == edit[a] IN
    /\ e.phase = "read"
    /\ Len(history) < MaxWrites
    /\ history' = Append(history, Record(e))
    /\ value' = IF e.new # e.old THEN e.new ELSE value
    /\ version' = e.version + 1
    /\ edit' = [edit EXCEPT ![a] = [NoEdit EXCEPT !.phase = "committed", !.at = e.at]]
    /\ overlapped' = (overlapped \/ e.version # version)
    /\ UNCHANGED <<cache, listening, inbox, load, missed>>

InvalidateOwn(a) ==
    /\ edit[a].phase = "committed"
    /\ cache' = Invalidated(edit[a].at)
    /\ missed' = missed \ {edit[a].at}
    /\ edit' = [edit EXCEPT ![a].phase = "invalidated"]
    /\ UNCHANGED <<row, listening, inbox, load, overlapped>>

\* publish_invalidation: reaches the subscribers of the moment; a Redis error
\* is logged and swallowed.
Publish(a, reached) ==
    /\ edit[a].phase = "invalidated"
    /\ reached \in {listening, {}}
    /\ inbox' = [i \in Instance |-> IF i \in reached THEN inbox[i] + 1 ELSE inbox[i]]
    /\ missed' = missed \cup (Instance \ reached)
    /\ edit' = [edit EXCEPT ![a] = NoEdit]
    /\ UNCHANGED <<row, cache, listening, load, overlapped>>

\* The request ends early: cancelled, or an error in the refresh.
AbortEdit(a) ==
    /\ edit[a].phase # "idle"
    /\ edit' = [edit EXCEPT ![a] = NoEdit]
    /\ missed' = IF edit[a].phase = "read" THEN missed ELSE Instance
    /\ UNCHANGED <<row, cache, listening, inbox, load, overlapped>>

\* An instance restarts: its memory and its requests are gone.
Restart(i) ==
    /\ cache' = [cache EXCEPT ![i] = NoConfig]
    /\ listening' = listening \ {i}
    /\ inbox' = [inbox EXCEPT ![i] = 0]
    /\ load' = [r \in Reader |-> IF load[r].at = i THEN NoLoad ELSE load[r]]
    /\ edit' = [a \in Admin |-> IF edit[a].at = i THEN NoEdit ELSE edit[a]]
    /\ missed' = (IF \E a \in Admin : /\ edit[a].at = i
                                      /\ edit[a].phase \in {"committed", "invalidated"}
                  THEN Instance ELSE missed) \ {i}
    /\ UNCHANGED <<row, overlapped>>

-----------------------------------------------------------------------------
Read(r) == Select(r) \/ Store(r)

Next ==
    \/ \E r \in Reader : Read(r) \/ \E i \in Instance : Miss(r, i)
    \/ \E a \in Admin :
          \/ CommitEdit(a) \/ InvalidateOwn(a) \/ AbortEdit(a)
          \/ \E reached \in SUBSET Instance : Publish(a, reached)
          \/ \E i \in Instance : ReadUpdate(a, i) \/ ReadRollback(a, i)
    \/ \E i \in Instance :
          Expire(i) \/ Subscribe(i) \/ Deliver(i) \/ Disconnect(i) \/ Restart(i)

Spec == Init /\ [][Next]_vars

(* Time passes, so that an entry that stays is expired at some point; a load
   that was started ends. *)
Fairness ==
    /\ \A i \in Instance : WF_vars(Expire(i))
    /\ \A r \in Reader : WF_vars(Read(r))

FairSpec == Spec /\ Fairness

-----------------------------------------------------------------------------
(* Properties *)

\* Unless two edits overlapped, the history tells the truth: version counts
\* its records, each record starts where the one before ended, and the last
\* one's new value is the setting's (update_setting and rollback_setting read,
\* then write absolute values, with no lock and no version check).
HistoryFaithful ==
    ~overlapped =>
        /\ version = Len(history) + 1
        /\ \A k \in 1..(Len(history) - 1) : history[k + 1].old = history[k].new
        /\ history # << >> => history[Len(history)].new = value

\* An instance serves an outdated config only for one of these reasons: an
\* edit is committed and its invalidation not yet sent, a message is on its
\* way, or the instance missed one (no subscription, a Redis error, a handler
\* cut short) or stored the result of a load that was outdated by then.
StaleHasReason ==
    \A i \in Instance : cache[i] \notin {NoConfig, value} =>
        \/ i \in missed
        \/ inbox[i] > 0
        \/ \E a \in Admin : edit[a].phase \in {"committed", "invalidated"}

\* Whatever was missed, no instance serves an outdated config for ever: the
\* TTL repairs what pub/sub lost.
StaleEnds ==
    \A i \in Instance : cache[i] \notin {NoConfig, value}
                          ~> cache[i] \in {NoConfig, value}
=============================================================================
