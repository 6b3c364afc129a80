------------------------- MODULE SettingsCacheProofs -------------------------
(* Theorems about SettingsCache, for any number of instances, readers,      *)
(* edits and values, and about the page of the settings (AdminPage), for    *)
(* any number of settings, page size and number of changes.                 *)
EXTENDS MCSettingsCache, TLAPS, SequenceTheorems, FiniteSetTheorems, WellFoundedInduction

USE InstanceAssumption, ValueAssumption, WritesAssumption

-----------------------------------------------------------------------------
(* Type correctness. *)

LEMMA TypeInit == Init => TypeOK
<1> SUFFICES ASSUME Init PROVE TypeOK
  OBVIOUS
<1>1. NoLoad \in Load /\ NoEdit \in Edit
  BY DEF NoLoad, Load, NoEdit, Edit, Phase
<1>2. history \in Seq([old : Value, new : Value])
  BY DEF Init
<1>3. load \in [Reader -> Load] /\ edit \in [Admin -> Edit]
  BY <1>1 DEF Init
<1> QED
  BY <1>2, <1>3 DEF Init, TypeOK

LEMMA TypeStep ==
    ASSUME TypeOK, [Next]_vars
    PROVE  TypeOK'
<1> USE DEF TypeOK, Load, NoLoad, Edit, NoEdit, Phase
<1>1. CASE UNCHANGED vars
  BY <1>1 DEF vars, row
<1>2. ASSUME NEW r \in Reader, NEW i \in Instance, Miss(r, i)
      PROVE  TypeOK'
  <2>1. [load[r] EXCEPT !.at = i] \in Load /\ load \in [Reader -> Load]
    OBVIOUS
  <2>2. load' = [load EXCEPT ![r] = [load[r] EXCEPT !.at = i]]
    BY <1>2 DEF Miss
  <2>3. load' \in [Reader -> Load]
    <3> HIDE DEF Load, TypeOK
    <3> QED
      BY <2>1, <2>2
  <2> QED
    BY <1>2, <2>3 DEF Miss, row
<1>3. ASSUME NEW r \in Reader, Select(r)
      PROVE  TypeOK'
  <2>1. [load[r] EXCEPT !.got = value] \in Load
    OBVIOUS
  <2>2. load' = [load EXCEPT ![r] = NoLoad]
        \/ load' = [load EXCEPT ![r] = [load[r] EXCEPT !.got = value]]
    BY <1>3 DEF Select
  <2>3. load' \in [Reader -> Load]
    <3>1. NoLoad \in Load /\ load \in [Reader -> Load]
      OBVIOUS
    <3> HIDE DEF Load, NoLoad, TypeOK
    <3> QED
      BY <2>1, <2>2, <3>1
  <2>4. UNCHANGED <<row, cache, listening, inbox, edit, overlapped, missed>>
    BY <1>3 DEF Select
  <2> QED
    BY <2>3, <2>4 DEF row
<1>4. ASSUME NEW r \in Reader, Store(r)
      PROVE  TypeOK'
  <2>1. load[r] \in Load
    OBVIOUS
  <2>2. missed' \subseteq Instance /\ load' \in [Reader -> Load]
    BY <1>4 DEF Store
  <2>3. cache' \in [Instance -> Value \cup {NoConfig}]
    BY <1>4, <2>1 DEF Store
  <2> QED
    BY <1>4, <2>2, <2>3 DEF Store, row
<1>5. ASSUME NEW i \in Instance, Expire(i)
      PROVE  TypeOK'
  BY <1>5 DEF Expire, row
<1>6. ASSUME NEW i \in Instance, Subscribe(i) \/ Disconnect(i)
      PROVE  TypeOK'
  <2>1. CASE Subscribe(i)
    BY <2>1 DEF Subscribe, row
  <2>2. CASE Disconnect(i)
    <3>1. inbox' \in [Instance -> Nat] /\ missed' \subseteq Instance
      BY <2>2 DEF Disconnect
    <3> QED
      BY <2>2, <3>1 DEF Disconnect, row
  <2> QED
    BY <1>6, <2>1, <2>2
<1>7. ASSUME NEW i \in Instance, Deliver(i)
      PROVE  TypeOK'
  BY <1>7 DEF Deliver, Invalidated, row
<1>8. ASSUME NEW a \in Admin, NEW i \in Instance, NEW new \in Value,
             ReadSetting(a, i, new)
      PROVE  TypeOK'
  BY <1>8 DEF ReadSetting, row
<1>9. ASSUME NEW a \in Admin, NEW i \in Instance, ReadRollback(a, i)
      PROVE  TypeOK'
  <2>1. PICK k \in DOMAIN history : ReadSetting(a, i, Restored(history[k]))
    BY <1>9 DEF ReadRollback
  <2>2. history[k] \in [old : Value, new : Value]
    <3>1. history \in Seq([old : Value, new : Value]) /\ k \in 1..Len(history)
      OBVIOUS
    <3> HIDE DEF TypeOK
    <3> QED
      BY <3>1, ElementOfSeq
  <2>3. Restored(history[k]) \in Value
    BY <2>2 DEF Restored
  <2> QED
    BY <1>8, <2>1, <2>3
<1>10. ASSUME NEW a \in Admin, CommitEdit(a)
       PROVE  TypeOK'
  <2>1. edit[a] \in Edit
    OBVIOUS
  <2>2. value' \in Value /\ version' \in Nat /\ overlapped' \in BOOLEAN
    BY <1>10, <2>1 DEF CommitEdit
  <2>3. history' \in Seq([old : Value, new : Value])
    BY <1>10, <2>1 DEF CommitEdit, Record
  <2>4. edit' \in [Admin -> Edit]
    BY <1>10, <2>1 DEF CommitEdit
  <2> QED
    BY <1>10, <2>2, <2>3, <2>4 DEF CommitEdit
<1>11. ASSUME NEW a \in Admin, InvalidateOwn(a)
       PROVE  TypeOK'
  BY <1>11 DEF InvalidateOwn, Invalidated, row
<1>12. ASSUME NEW a \in Admin, NEW reached \in SUBSET Instance, Publish(a, reached)
       PROVE  TypeOK'
  BY <1>12 DEF Publish, row
<1>13. ASSUME NEW a \in Admin, AbortEdit(a)
       PROVE  TypeOK'
  BY <1>13 DEF AbortEdit, row
<1>14. ASSUME NEW i \in Instance, Restart(i)
       PROVE  TypeOK'
  BY <1>14 DEF Restart, row
<1> QED
  BY <1>1, <1>2, <1>3, <1>4, <1>5, <1>6, <1>7, <1>8, <1>9, <1>10, <1>11,
     <1>12, <1>13, <1>14 DEF Next, Read, ReadUpdate

\* TypeOK: every reachable state has the types of the declarations.
THEOREM TypeCorrect == Spec => []TypeOK
<1> QED
  BY TypeInit, TypeStep, PTL DEF Spec

-----------------------------------------------------------------------------
(* The history.  Only CommitEdit writes the row; what it read and the row    *)
(* agree, or it overlapped another edit.  A version is never reused while     *)
(* nothing overlapped, so an edit that read the current version read the      *)
(* current value.                                                            *)

ReadIsCurrent ==
    ~overlapped => \A a \in Admin : edit[a].phase = "read" =>
        /\ edit[a].version <= version
        /\ edit[a].version = version => edit[a].old = value

HistoryInv == HistoryFaithful /\ ReadIsCurrent

LEMMA HistoryInit == Init => HistoryInv
BY DEF Init, HistoryInv, HistoryFaithful, ReadIsCurrent, NoEdit

\* A step that leaves the row alone and starts no edit.
LEMMA RowKept ==
    ASSUME HistoryInv, UNCHANGED <<row, overlapped>>,
           \A a \in Admin : edit'[a].phase = "read" => edit'[a] = edit[a]
    PROVE  HistoryInv'
BY DEF HistoryInv, HistoryFaithful, ReadIsCurrent, row

LEMMA CommitKeepsHistory ==
    ASSUME TypeOK, HistoryInv, NEW a \in Admin, CommitEdit(a)
    PROVE  HistoryInv'
<1> DEFINE e == edit[a]
           n == Len(history)
<1>1. SUFFICES ASSUME ~overlapped'
               PROVE  HistoryInv'
  BY DEF HistoryInv, HistoryFaithful, ReadIsCurrent
<1>2. ~overlapped /\ e.version = version /\ e.old = value /\ e.phase = "read"
  BY <1>1 DEF CommitEdit, HistoryInv, ReadIsCurrent
<1>3. /\ n \in Nat /\ version = n + 1 /\ version \in Nat
      /\ history \in Seq([old : Value, new : Value])
      /\ edit[a] \in Edit
  BY <1>2 DEF TypeOK, HistoryInv, HistoryFaithful
<1>4. Record(e) = [old |-> e.old, new |-> e.new] /\ Record(e) \in [old : Value, new : Value]
  BY <1>3 DEF Record, Edit
<1>5. /\ history' = Append(history, Record(e))
      /\ Len(history') = n + 1
      /\ \A k \in 1..n : history'[k] = history[k]
      /\ history'[n + 1] = Record(e)
  BY <1>3, <1>4 DEF CommitEdit
<1>6. value' = e.new /\ version' = n + 2
  BY <1>2, <1>3 DEF CommitEdit
<1>7. ASSUME NEW k \in 1..(Len(history') - 1)
      PROVE  history'[k + 1].old = history'[k].new
  <2>1. CASE k < n
    <3>1. k \in 1..(n - 1) /\ k \in 1..n /\ k + 1 \in 1..n
      BY <1>3, <1>5, <2>1
    <3>2. history[k + 1].old = history[k].new
      BY <1>2, <3>1 DEF HistoryInv, HistoryFaithful
    <3> QED
      BY <1>5, <3>1, <3>2
  <2>2. CASE k = n
    <3>1. history # << >> /\ n \in 1..n
      BY <1>3, <1>5, <2>2
    <3>2. history[n].new = value
      BY <1>2, <3>1 DEF HistoryInv, HistoryFaithful
    <3> QED
      BY <1>2, <1>4, <1>5, <2>2, <3>1, <3>2
  <2> QED
    BY <1>3, <1>5, <2>1, <2>2
<1>8. history'[Len(history')].new = value'
  BY <1>4, <1>5, <1>6
<1>9. HistoryFaithful'
  BY <1>3, <1>5, <1>6, <1>7, <1>8 DEF HistoryFaithful
<1>10. ASSUME NEW b \in Admin, edit'[b].phase = "read"
       PROVE  /\ edit'[b].version <= version'
              /\ edit'[b].version = version' => edit'[b].old = value'
  <2>1. b # a /\ edit'[b] = edit[b]
    BY <1>3, <1>10 DEF CommitEdit, TypeOK
  <2>2. edit[b].version <= version /\ edit[b].version \in Nat
    BY <1>2, <1>10, <2>1 DEF HistoryInv, ReadIsCurrent, TypeOK, Edit
  <2> QED
    BY <1>3, <1>6, <2>1, <2>2
<1>11. ReadIsCurrent'
  BY <1>10 DEF ReadIsCurrent
<1> QED
  BY <1>9, <1>11 DEF HistoryInv

LEMMA HistoryStep ==
    ASSUME TypeOK, HistoryInv, [Next]_vars
    PROVE  HistoryInv'
<1>1. CASE UNCHANGED vars
  BY <1>1, RowKept DEF vars
<1>2. ASSUME NEW r \in Reader, Read(r) \/ \E i \in Instance : Miss(r, i)
      PROVE  HistoryInv'
  BY <1>2, RowKept DEF Read, Select, Store, Miss
<1>3. ASSUME NEW i \in Instance,
             Expire(i) \/ Subscribe(i) \/ Deliver(i) \/ Disconnect(i)
      PROVE  HistoryInv'
  BY <1>3, RowKept DEF Expire, Subscribe, Deliver, Disconnect
<1>4. ASSUME NEW i \in Instance, Restart(i)
      PROVE  HistoryInv'
  BY <1>4, RowKept DEF Restart, NoEdit
<1>5. ASSUME NEW a \in Admin, NEW i \in Instance, NEW new, ReadSetting(a, i, new)
      PROVE  HistoryInv'
  <2>1. \A b \in Admin : edit'[b] = IF b = a
                            THEN [phase |-> "read", at |-> i, old |-> value,
                                  version |-> version, new |-> new]
                            ELSE edit[b]
    BY <1>5 DEF ReadSetting, TypeOK
  <2>2. version \in Nat /\ UNCHANGED <<row, overlapped>>
    BY <1>5 DEF ReadSetting, TypeOK
  <2> QED
    BY <2>1, <2>2 DEF HistoryInv, HistoryFaithful, ReadIsCurrent, row
<1>6. ASSUME NEW a \in Admin, CommitEdit(a)
      PROVE  HistoryInv'
  BY <1>6, CommitKeepsHistory
<1>7. ASSUME NEW a \in Admin,
             InvalidateOwn(a) \/ AbortEdit(a) \/ \E reached \in SUBSET Instance : Publish(a, reached)
      PROVE  HistoryInv'
  <2>1. UNCHANGED <<row, overlapped>>
    BY <1>7 DEF InvalidateOwn, AbortEdit, Publish
  <2>2. \A b \in Admin : edit'[b].phase = "read" => edit'[b] = edit[b]
    BY <1>7 DEF InvalidateOwn, AbortEdit, Publish, NoEdit, TypeOK, Edit
  <2> QED
    BY <2>1, <2>2, RowKept
<1> QED
  BY <1>1, <1>2, <1>3, <1>4, <1>5, <1>6, <1>7
  DEF Next, ReadUpdate, ReadRollback

\* HistoryFaithful: unless edits overlapped, version, history and value agree
\* after any sequence of updates and rollbacks.
THEOREM HistoryTrusted == Spec => []HistoryFaithful
<1>1. Init => HistoryInv
  BY HistoryInit
<1>2. TypeOK /\ HistoryInv /\ [Next]_vars => HistoryInv'
  BY HistoryStep
<1>3. HistoryInv => HistoryFaithful
  BY DEF HistoryInv
<1> QED
  BY <1>1, <1>2, <1>3, TypeCorrect, PTL DEF Spec

-----------------------------------------------------------------------------
(* Outdated configs.  StaleHasReason is inductive with the types alone.      *)

Sending(a) == edit[a].phase \in {"committed", "invalidated"}

LEMMA StaleStep ==
    ASSUME TypeOK, StaleHasReason, [Next]_vars
    PROVE  StaleHasReason'
<1> USE DEF StaleHasReason
<1>0. NoConfig \notin Value /\ value \in Value
  BY DEF TypeOK
<1>1. CASE UNCHANGED vars
  BY <1>1 DEF vars, row
<1>2. ASSUME NEW r \in Reader, NEW i \in Instance, Miss(r, i)
      PROVE  StaleHasReason'
  BY <1>2 DEF Miss, row
<1>3. ASSUME NEW r \in Reader, Select(r)
      PROVE  StaleHasReason'
  BY <1>3 DEF Select, row
<1>4. ASSUME NEW r \in Reader, Store(r)
      PROVE  StaleHasReason'
  BY <1>4 DEF Store, row, TypeOK
<1>5. ASSUME NEW i \in Instance, Expire(i)
      PROVE  StaleHasReason'
  BY <1>5 DEF Expire, row, TypeOK
<1>6. ASSUME NEW i \in Instance, Subscribe(i)
      PROVE  StaleHasReason'
  BY <1>6 DEF Subscribe, row
<1>7. ASSUME NEW i \in Instance, Disconnect(i)
      PROVE  StaleHasReason'
  BY <1>7 DEF Disconnect, row, TypeOK
<1>8. ASSUME NEW i \in Instance, Deliver(i)
      PROVE  StaleHasReason'
  BY <1>8 DEF Deliver, Invalidated, row, TypeOK
<1>9. ASSUME NEW a \in Admin, NEW i \in Instance, NEW new, ReadSetting(a, i, new)
      PROVE  StaleHasReason'
  <2>1. \A b \in Admin : Sending(b) => Sending(b)'
    BY <1>9 DEF ReadSetting, TypeOK, Sending
  <2> QED
    BY <1>9, <2>1 DEF ReadSetting, row, Sending
<1>10. ASSUME NEW a \in Admin, CommitEdit(a)
       PROVE  StaleHasReason'
  <2>1. Sending(a)'
    BY <1>10 DEF CommitEdit, TypeOK, Sending, NoEdit
  <2> QED
    BY <2>1 DEF Sending
<1>11. ASSUME NEW a \in Admin, InvalidateOwn(a)
       PROVE  StaleHasReason'
  <2>1. Sending(a)'
    BY <1>11 DEF InvalidateOwn, TypeOK, Sending, Edit
  <2> QED
    BY <2>1 DEF Sending
<1>12. ASSUME NEW a \in Admin, NEW reached \in SUBSET Instance, Publish(a, reached)
       PROVE  StaleHasReason'
  <2>1. ASSUME NEW i \in Instance
        PROVE  i \in missed' \/ inbox'[i] > 0
    BY <1>12 DEF Publish, TypeOK
  <2> QED
    BY <2>1
<1>13. ASSUME NEW a \in Admin, AbortEdit(a)
       PROVE  StaleHasReason'
  <2>1. CASE edit[a].phase = "read"
    <3>1. \A b \in Admin : Sending(b) => Sending(b)'
      BY <1>13, <2>1 DEF AbortEdit, TypeOK, Sending
    <3> QED
      BY <1>13, <2>1, <3>1 DEF AbortEdit, row, Sending
  <2>2. CASE edit[a].phase # "read"
    BY <1>13, <2>2 DEF AbortEdit
  <2> QED
    BY <2>1, <2>2
<1>14. ASSUME NEW i \in Instance, Restart(i)
       PROVE  StaleHasReason'
  <2>1. cache'[i] = NoConfig /\ \A j \in Instance \ {i} : /\ cache'[j] = cache[j]
                                                        /\ inbox'[j] = inbox[j]
    BY <1>14 DEF Restart, TypeOK
  <2>2. CASE \E a \in Admin : edit[a].at = i /\ Sending(a)
    BY <1>14, <2>1, <2>2 DEF Restart, Sending
  <2>3. CASE ~ \E a \in Admin : edit[a].at = i /\ Sending(a)
    <3>1. \A b \in Admin : Sending(b) => Sending(b)'
      BY <1>14, <2>3 DEF Restart, Sending
    <3>2. missed' = missed \ {i} /\ value' = value
      BY <1>14, <2>3 DEF Restart, Sending, row
    <3> QED
      BY <2>1, <3>1, <3>2 DEF Sending
  <2> QED
    BY <2>2, <2>3
<1> QED
  BY <1>1, <1>2, <1>3, <1>4, <1>5, <1>6, <1>7, <1>8, <1>9, <1>10, <1>11,
     <1>12, <1>13, <1>14 DEF Next, Read, ReadUpdate, ReadRollback

\* StaleHasReason: an instance that serves an outdated config lost a message,
\* waits for one, stored an outdated load, or an edit is still being published.
THEOREM StaleExplained == Spec => []StaleHasReason
<1>1. Init => StaleHasReason
  BY DEF Init, StaleHasReason
<1>2. TypeOK /\ StaleHasReason /\ [Next]_vars => StaleHasReason'
  BY StaleStep
<1> QED
  BY <1>1, <1>2, TypeCorrect, PTL DEF Spec

-----------------------------------------------------------------------------
(* The page of the settings: what the pages it has gone through cover, and   *)
(* whose rollback its drawer confirms.                                       *)

\* Where the pages up to the shown one start.
Starts == Append(prevCursors, cursor)

\* Up to the start of any page the ones before it leave no setting out.
PrefixesCover ==
    \A n \in 1 .. Len(Starts) : \A k \in A!InScope(scope) :
        k <= Starts[n] => \E i \in 1 .. n : k \in A!Page(scope, Starts[i])

\* An entry is confirmed for the setting whose drawer is open.
ConfirmIsOfShown == confirmTarget[1] # A!Undefined => confirmTarget[1] = historyTarget

PageInv == A!TypeOK /\ PrefixesCover /\ ConfirmIsOfShown /\ ~wrong

-----------------------------------------------------------------------------
(* The greatest of a set of keys                                           *)

\* A set of numbers up to n that is not empty has a greatest one.
LEMMA GreatestExists ==
    ASSUME NEW n \in Nat, NEW S \in SUBSET (1 .. n), S # {}
    PROVE  \E x \in S : \A y \in S : x >= y
<1> DEFINE T == {n - x : x \in S}
<1>1. T \subseteq Nat /\ T # {}
  <2>1. \A x \in S : n - x \in Nat
    OBVIOUS
  <2>2. PICK x \in S : TRUE
    OBVIOUS
  <2>3. n - x \in T
    OBVIOUS
  <2> QED
    BY <2>1, <2>3
<1>2. PICK t \in T : \A u \in T : ~(<<u, t>> \in OpToRel(<, Nat))
  <2> HIDE DEF T
  <2> QED
    BY <1>1, NatLessThanWellFounded, WFMin
<1>3. \A u \in T : ~(u < t)
  BY <1>1, <1>2 DEF OpToRel
<1>4. PICK x \in S : t = n - x
  OBVIOUS
<1>5. ASSUME NEW y \in S PROVE x >= y
  <2>1. n - y \in T
    OBVIOUS
  <2>2. ~(n - y < n - x)
    BY <1>3, <1>4, <2>1
  <2> QED
    BY <2>2
<1> QED
  BY <1>5

\* Max of the module of finite sets is the greatest number of such a set.
LEMMA MaxIsGreatest ==
    ASSUME NEW n \in Nat, NEW S \in SUBSET (1 .. n), S # {}
    PROVE  A!Max(S) \in S /\ \A y \in S : A!Max(S) >= y
BY GreatestExists DEF A!Max

\* The least one, which the first page of anything has.
LEMMA LeastExists ==
    ASSUME NEW n \in Nat, NEW S \in SUBSET (1 .. n), S # {}
    PROVE  \E x \in S : \A y \in S : x <= y
<1>1. S \subseteq Nat
  OBVIOUS
<1>2. PICK x \in S : \A y \in S : ~(<<y, x>> \in OpToRel(<, Nat))
  BY <1>1, NatLessThanWellFounded, WFMin
<1>3. \A y \in S : ~(y < x)
  BY <1>1, <1>2 DEF OpToRel
<1> QED
  BY <1>1, <1>3

-----------------------------------------------------------------------------
(* A page of the list                                                      *)

USE PageAssumption

\* The page counts as the theorems on finite sets do.
LEMMA SameCardinality == ASSUME NEW S PROVE A!Cardinality(S) = Cardinality(S)
BY DEF A!Cardinality, Cardinality, A!IsFiniteSet, IsFiniteSet

\* The keys after a cursor are finitely many.
LEMMA RestIsFinite ==
    ASSUME NEW s, NEW after
    PROVE  /\ A!Rest(s, after) \subseteq 1 .. K
           /\ IsFiniteSet(A!Rest(s, after))
           /\ Cardinality(A!Rest(s, after)) \in Nat
<1>1. A!Rest(s, after) \subseteq 1 .. K
  BY DEF A!Rest, A!InScope, A!Key
<1>2. IsFiniteSet(1 .. K)
  BY FS_Interval
<1> QED
  BY <1>1, <1>2, FS_Subset, FS_CardinalityType

\* A key is on a page if few enough keys of the rest come before it.
LEMMA OnPage ==
    ASSUME NEW s, NEW after, NEW k
    PROVE  k \in A!Page(s, after)
              <=> /\ k \in A!Rest(s, after)
                  /\ Cardinality({j \in A!Rest(s, after) : j <= k}) <= PAGE_SIZE
BY SameCardinality, Zenon DEF A!Page

\* A page after which there is more has a last setting.
LEMMA PageNotEmpty ==
    ASSUME NEW s, NEW after, Cardinality(A!Rest(s, after)) > PAGE_SIZE
    PROVE  A!Page(s, after) # {}
<1> DEFINE R == A!Rest(s, after)
<1>1. R \subseteq 1 .. K /\ IsFiniteSet(R) /\ Cardinality(R) \in Nat
  BY RestIsFinite
<1>2. R # {}
  BY <1>1, FS_EmptySet
<1>3. PICK x \in R : \A y \in R : x <= y
  BY <1>1, <1>2, LeastExists
<1>4. {j \in R : j <= x} = {x}
  BY <1>1, <1>3
<1>5. Cardinality({j \in R : j <= x}) = 1
  BY <1>4, FS_Singleton
<1>6. x \in A!Page(s, after)
  BY <1>5, OnPage
<1> QED
  BY <1>6

\* What lies between a page's start and its last setting is on the page.
LEMMA PageIsInterval ==
    ASSUME NEW s, NEW after \in Nat, NEW m \in A!Page(s, after),
           NEW k \in A!InScope(s), after < k, k <= m
    PROVE  k \in A!Page(s, after)
<1> DEFINE R == A!Rest(s, after)
           Upto(x) == {j \in R : j <= x}
<1>1. R \subseteq 1 .. K /\ IsFiniteSet(R)
  BY RestIsFinite
<1>2. k \in R /\ m \in R /\ Cardinality(Upto(m)) <= PAGE_SIZE
  BY OnPage DEF A!Rest
<1>3. Upto(k) \subseteq Upto(m)
  BY <1>1, <1>2
<1>4. IsFiniteSet(Upto(m))
  BY <1>1, FS_Subset
<1>5. Cardinality(Upto(k)) <= Cardinality(Upto(m)) /\ IsFiniteSet(Upto(k))
  BY <1>3, <1>4, FS_Subset
<1>6. Cardinality(Upto(k)) \in Nat /\ Cardinality(Upto(m)) \in Nat
  BY <1>4, <1>5, FS_CardinalityType
<1>7. Cardinality(Upto(k)) <= PAGE_SIZE
  BY <1>2, <1>5, <1>6
<1> QED
  BY <1>2, <1>7, OnPage

\* The next cursor is the last setting of the page.
LEMMA NextCursorIsLast ==
    ASSUME A!NextCursor # A!Undefined
    PROVE  A!NextCursor \in A!Page(scope, cursor) /\ A!NextCursor \in 1 .. K
<1>1. Cardinality(A!Rest(scope, cursor)) > PAGE_SIZE
      /\ A!NextCursor = A!Max(A!Page(scope, cursor))
  BY SameCardinality, Zenon DEF A!NextCursor
<1>2. A!Page(scope, cursor) # {}
  BY <1>1, PageNotEmpty
<1>3. A!Page(scope, cursor) \subseteq 1 .. K
  BY RestIsFinite, OnPage
<1> QED
  BY <1>1, <1>2, <1>3, MaxIsGreatest

-----------------------------------------------------------------------------
(* Types of the page                                                       *)

LEMMA PageTypeInit == A!Init => A!TypeOK
<1> SUFFICES ASSUME A!Init PROVE A!TypeOK
  OBVIOUS
<1>1. A!NoCall \in A!Calls
  BY DEF A!NoCall, A!Calls, A!Undefined
<1>2. [k \in A!Key |-> 2] \in [A!Key -> 0 .. MaxEntries]
  <2>1. 2 \in 0 .. MaxEntries
    OBVIOUS
  <2> QED
    BY <2>1
<1>3. entries = [k \in A!Key |-> 2] /\ shownEntries = entries /\ prevCursors = <<>>
      /\ confirmTarget = <<0, 0>> /\ update = A!NoCall /\ rollback = A!NoCall
  BY DEF A!Init, A!Undefined
<1>4. prevCursors \in Seq(0 .. K) /\ confirmTarget \in (0 .. K) \X (0 .. MaxEntries)
  BY <1>3
<1>5. wrong \in BOOLEAN /\ isHydrated \in BOOLEAN /\ isSuperuser \in BOOLEAN
  BY DEF A!Init
<1>6. scope \in A!Scope /\ cursor \in 0 .. K /\ editTarget \in 0 .. K
      /\ historyTarget \in 0 .. K
  <2>1. scope = "" /\ cursor = 0 /\ editTarget = 0 /\ historyTarget = 0
    BY Zenon DEF A!Init, A!Undefined
  <2>2. scope \in A!Scope
    BY <2>1, Zenon DEF A!Scope
  <2>3. 0 \in 0 .. K
    OBVIOUS
  <2> QED
    BY <2>1, <2>2, <2>3
<1> QED
  BY <1>1, <1>2, <1>3, <1>4, <1>5, <1>6 DEF A!TypeOK

\* A change of a setting is counted.
LEMMA CountedUp ==
    ASSUME NEW f \in [A!Key -> 0 .. MaxEntries], NEW k \in A!Key \cup {0},
           f[k] < MaxEntries
    PROVE  [f EXCEPT ![k] = f[k] + 1] \in [A!Key -> 0 .. MaxEntries]
<1>1. CASE k \in A!Key
  <2>1. f[k] + 1 \in 0 .. MaxEntries
    BY <1>1
  <2> QED
    BY <2>1
<1>2. CASE k \notin A!Key
  BY <1>2
<1> QED
  BY <1>1, <1>2

LEMMA PageTypeStep ==
    ASSUME A!TypeOK, [A!Next]_(A!vars)
    PROVE  A!TypeOK'
<1> USE DEF A!TypeOK, A!Undefined, A!list, A!targets
<1>1. CASE UNCHANGED A!vars
  BY <1>1 DEF A!vars
<1>2. CASE A!Hydrate
  BY <1>2 DEF A!Hydrate
<1>3. CASE A!HandleNext
  <2>1. cursor' \in 0 .. K /\ prevCursors' \in Seq(0 .. K)
    BY <1>3, NextCursorIsLast DEF A!HandleNext
  <2> QED
    BY <1>3, <2>1 DEF A!HandleNext
<1>4. CASE A!HandlePrev
  <2>1. Len(prevCursors) \in Nat \ {0}
    BY <1>4, EmptySeq, LenProperties DEF A!HandlePrev
  <2>2. cursor' \in 0 .. K
    BY <1>4, <2>1 DEF A!HandlePrev, A!Last
  <2>3. prevCursors' \in Seq(0 .. K)
    BY <1>4, <2>1 DEF A!HandlePrev, A!Front
  <2> QED
    BY <1>4, <2>2, <2>3 DEF A!HandlePrev
<1>5. ASSUME NEW s \in A!Scope, A!SetScope(s) PROVE A!TypeOK'
  BY <1>5 DEF A!SetScope, A!ResetPages
<1>6. ASSUME NEW k \in A!Key, A!OpenEdit(k) PROVE A!TypeOK'
  BY <1>6 DEF A!OpenEdit, A!Key
<1>7. ASSUME NEW k \in A!Key, A!OpenHistory(k) PROVE A!TypeOK'
  <2>1. shownEntries' \in [A!Key -> 0 .. MaxEntries]
    BY <1>7 DEF A!OpenHistory
  <2> QED
    BY <1>7, <2>1 DEF A!OpenHistory, A!Key
<1>8. CASE A!CloseEdit \/ A!CloseHistory \/ A!CancelRollback
  BY <1>8 DEF A!CloseEdit, A!CloseHistory, A!CancelRollback
<1>9. CASE A!OnSubmit
  <2>1. update' = [phase |-> "sent", id |-> editTarget, entry |-> <<0, 0>>]
    BY <1>9 DEF A!OnSubmit, A!NoCall
  <2>2. editTarget \in A!Key \cup {0} /\ <<0, 0>> \in (A!Key \cup {0}) \X (0 .. MaxEntries)
    BY DEF A!Key
  <2>3. update' \in A!Calls
    BY <2>1, <2>2 DEF A!Calls
  <2> QED
    BY <1>9, <2>3 DEF A!OnSubmit
<1>10. CASE A!Updated
  <2>1. A!NoCall \in A!Calls
    BY DEF A!NoCall, A!Calls
  <2> QED
    BY <1>10, <2>1 DEF A!Updated
<1>11. ASSUME NEW e \in 1 .. MaxEntries, A!ChooseEntry(e) PROVE A!TypeOK'
  BY <1>11 DEF A!ChooseEntry
<1>12. CASE A!HandleRollback
  <2>1. rollback' \in A!Calls /\ wrong' \in BOOLEAN
    BY <1>12 DEF A!HandleRollback, A!Calls, A!Key
  <2> QED
    BY <1>12, <2>1 DEF A!HandleRollback
<1>13. CASE A!RolledBack
  <2>1. A!NoCall \in A!Calls
    BY DEF A!NoCall, A!Calls
  <2>2. shownEntries' \in [A!Key -> 0 .. MaxEntries]
    BY <1>13 DEF A!RolledBack
  <2>3. confirmTarget' \in (0 .. K) \X (0 .. MaxEntries) /\ historyTarget' \in 0 .. K
    BY <1>13 DEF A!RolledBack, A!ClearConfirm
  <2> QED
    BY <1>13, <2>1, <2>2, <2>3 DEF A!RolledBack
<1>14. CASE A!UpdateServed
  <2>1. update.id \in A!Key \cup {0}
    BY DEF A!Calls
  <2>3. entries' = entries
        \/ (entries[update.id] < MaxEntries
            /\ entries' = [entries EXCEPT ![update.id] = entries[update.id] + 1])
    BY <1>14 DEF A!UpdateServed
  <2>4. entries' \in [A!Key -> 0 .. MaxEntries]
    <3>1. entries \in [A!Key -> 0 .. MaxEntries]
      OBVIOUS
    <3> HIDE DEF A!TypeOK
    <3> QED
      BY <2>1, <2>3, <3>1, CountedUp
  <2>2. update' \in A!Calls
    BY <1>14 DEF A!UpdateServed, A!Calls
  <2> QED
    BY <1>14, <2>2, <2>4 DEF A!UpdateServed
<1>15. CASE A!RollbackServed
  <2>1. rollback.id \in A!Key \cup {0}
    BY DEF A!Calls
  <2>3. entries' = entries
        \/ (entries[rollback.id] < MaxEntries
            /\ entries' = [entries EXCEPT ![rollback.id] = entries[rollback.id] + 1])
    BY <1>15 DEF A!RollbackServed
  <2>4. entries' \in [A!Key -> 0 .. MaxEntries]
    <3>1. entries \in [A!Key -> 0 .. MaxEntries]
      OBVIOUS
    <3> HIDE DEF A!TypeOK
    <3> QED
      BY <2>1, <2>3, <3>1, CountedUp
  <2>2. rollback' \in A!Calls
    BY <1>15 DEF A!RollbackServed, A!Calls
  <2> QED
    BY <1>15, <2>2, <2>4 DEF A!RollbackServed
<1> QED
  BY <1>1, <1>2, <1>3, <1>4, <1>5, <1>6, <1>7, <1>8, <1>9, <1>10, <1>11, <1>12,
     <1>13, <1>14, <1>15 DEF A!Next

-----------------------------------------------------------------------------
(* The invariant of the page                                               *)

LEMMA StartsTypes ==
    ASSUME A!TypeOK
    PROVE  /\ Len(prevCursors) \in Nat /\ Len(Starts) = Len(prevCursors) + 1
           /\ Starts \in Seq(0 .. K)
           /\ \A i \in 1 .. Len(prevCursors) : Starts[i] = prevCursors[i]
           /\ Starts[Len(prevCursors) + 1] = cursor
BY DEF A!TypeOK, Starts

LEMMA PageInit == A!Init => PageInv
<1> SUFFICES ASSUME A!Init PROVE PageInv
  OBVIOUS
<1>1. A!TypeOK
  BY PageTypeInit
<1>2. prevCursors = <<>> /\ cursor = 0 /\ confirmTarget = <<0, 0>>
  BY DEF A!Init, A!Undefined
<1>3. PrefixesCover
  <2>1. Len(Starts) = 1 /\ Starts[1] = 0
    BY <1>2 DEF Starts
  <2>2. \A k \in A!InScope(scope) : ~(k <= 0)
    BY DEF A!InScope, A!Key
  <2> QED
    BY <2>1, <2>2 DEF PrefixesCover
<1>4. ConfirmIsOfShown
  BY <1>2 DEF ConfirmIsOfShown, A!Undefined
<1>5. ~wrong
  BY DEF A!Init
<1> QED
  BY <1>1, <1>3, <1>4, <1>5 DEF PageInv

\* "Next": the new start is the last setting of the page that is left.
LEMMA NextCovers ==
    ASSUME A!TypeOK, PrefixesCover, A!HandleNext
    PROVE  PrefixesCover'
<1> DEFINE m == Len(prevCursors)
<1>1. /\ m \in Nat /\ Len(Starts) = m + 1
      /\ \A i \in 1 .. m : Starts[i] = prevCursors[i]
      /\ Starts[m + 1] = cursor
  BY StartsTypes
<1>2. Starts' = Append(Starts, A!NextCursor) /\ scope' = scope
  BY DEF A!HandleNext, Starts
<1>3. A!NextCursor \in A!Page(scope, cursor) /\ A!NextCursor \in 1 .. K
  BY NextCursorIsLast DEF A!HandleNext
<1>4. /\ Len(Starts') = m + 2 /\ Starts'[m + 2] = A!NextCursor
      /\ \A i \in 1 .. (m + 1) : Starts'[i] = Starts[i]
  BY <1>1, <1>2, StartsTypes
<1> HIDE DEF m
<1>5. ASSUME NEW n \in 1 .. (m + 2), NEW k \in A!InScope(scope), k <= Starts'[n]
      PROVE  \E i \in 1 .. n : k \in A!Page(scope, Starts'[i])
  <2>1. CASE n <= m + 1
    <3>1. n \in 1 .. Len(Starts) /\ k <= Starts[n]
      BY <1>1, <1>4, <1>5, <2>1
    <3>2. PICK i \in 1 .. n : k \in A!Page(scope, Starts[i])
      BY <3>1 DEF PrefixesCover
    <3>3. Starts'[i] = Starts[i]
      BY <1>1, <1>4, <2>1
    <3> QED
      BY <3>2, <3>3
  <2>2. CASE n = m + 2 /\ k <= cursor
    <3>1. m + 1 \in 1 .. Len(Starts) /\ k <= Starts[m + 1]
      BY <1>1, <2>2
    <3>2. PICK i \in 1 .. (m + 1) : k \in A!Page(scope, Starts[i])
      BY <3>1 DEF PrefixesCover
    <3>3. Starts'[i] = Starts[i] /\ i \in 1 .. n
      BY <1>1, <1>4, <2>2
    <3> QED
      BY <3>2, <3>3
  <2>3. CASE n = m + 2 /\ ~(k <= cursor)
    <3>1. k \in 1 .. K /\ cursor \in Nat
      BY DEF A!InScope, A!Key, A!TypeOK
    <3>2. cursor < k /\ k <= A!NextCursor
      BY <1>4, <1>5, <2>3, <3>1
    <3>3. k \in A!Page(scope, cursor)
      BY <1>3, <3>1, <3>2, PageIsInterval
    <3>4. Starts'[m + 1] = cursor /\ m + 1 \in 1 .. n
      BY <1>1, <1>4, <2>3
    <3> QED
      BY <3>3, <3>4
  <2> QED
    BY <1>1, <2>1, <2>2, <2>3
<1> QED
  BY <1>2, <1>4, <1>5 DEF PrefixesCover

\* "Previous" and a new filter go back to a start that was passed.
LEMMA PrevCovers ==
    ASSUME A!TypeOK, PrefixesCover, A!HandlePrev
    PROVE  PrefixesCover'
<1> DEFINE m == Len(prevCursors)
<1>1. /\ m \in Nat /\ Len(Starts) = m + 1
      /\ \A i \in 1 .. m : Starts[i] = prevCursors[i]
  BY StartsTypes
<1>2. m > 0
  BY EmptySeq, LenProperties DEF A!HandlePrev, A!TypeOK
<1>3. prevCursors' = SubSeq(prevCursors, 1, m - 1) /\ cursor' = prevCursors[m]
      /\ scope' = scope
  BY DEF A!HandlePrev, A!Front, A!Last
<1>4. /\ Len(prevCursors') = m - 1 /\ prevCursors' \in Seq(0 .. K)
      /\ \A i \in 1 .. (m - 1) : prevCursors'[i] = prevCursors[i]
  <2>1. m - 1 \in Int /\ \A i \in 1 .. (m - 1) : prevCursors[i] \in 0 .. K
    BY <1>1, <1>2 DEF A!TypeOK
  <2> HIDE DEF m
  <2>2. /\ SubSeq(prevCursors, 1, m - 1) \in Seq(0 .. K)
        /\ Len(SubSeq(prevCursors, 1, m - 1)) = m - 1
        /\ \A i \in 1 .. (m - 1) : SubSeq(prevCursors, 1, m - 1)[i] = prevCursors[i]
    <3>1. /\ SubSeq(prevCursors, 1, m - 1) \in Seq(0 .. K)
          /\ Len(SubSeq(prevCursors, 1, m - 1)) = IF 1 <= m - 1 THEN (m - 1) - 1 + 1 ELSE 0
          /\ \A i \in 1 .. (m - 1) - 1 + 1 :
                 SubSeq(prevCursors, 1, m - 1)[i] = prevCursors[1 + i - 1]
      BY <2>1, SubSeqProperties
    <3> QED
      BY <1>1, <1>2, <3>1
  <2> QED
    BY <1>3, <2>2
<1>5. Len(Starts') = m /\ \A i \in 1 .. m : Starts'[i] = Starts[i]
  <2>1. Starts' = Append(prevCursors', cursor')
    BY DEF Starts
  <2>2. cursor' \in 0 .. K
    BY <1>1, <1>2, <1>3 DEF A!TypeOK
  <2>3. Len(Starts') = m
    BY <1>1, <1>2, <1>4, <2>1, <2>2
  <2>4. ASSUME NEW i \in 1 .. m PROVE Starts'[i] = Starts[i]
    <3>1. CASE i = m
      BY <1>1, <1>2, <1>3, <1>4, <2>1, <2>2, <3>1
    <3>2. CASE i # m
      BY <1>1, <1>2, <1>4, <2>1, <2>2, <3>2
    <3> QED
      BY <3>1, <3>2
  <2> QED
    BY <2>3, <2>4
<1> HIDE DEF m
<1>6. ASSUME NEW n \in 1 .. m, NEW k \in A!InScope(scope), k <= Starts'[n]
      PROVE  \E i \in 1 .. n : k \in A!Page(scope, Starts'[i])
  <2>1. n \in 1 .. Len(Starts) /\ k <= Starts[n]
    BY <1>1, <1>5, <1>6
  <2>2. PICK i \in 1 .. n : k \in A!Page(scope, Starts[i])
    BY <2>1 DEF PrefixesCover
  <2>3. Starts'[i] = Starts[i]
    BY <1>1, <1>5
  <2> QED
    BY <2>2, <2>3
<1> QED
  BY <1>3, <1>5, <1>6 DEF PrefixesCover

LEMMA ScopeCovers ==
    ASSUME NEW s \in A!Scope, A!SetScope(s)
    PROVE  PrefixesCover'
<1>1. Len(Starts') = 1 /\ Starts'[1] = 0
  BY DEF A!SetScope, A!ResetPages, Starts, A!Undefined
<1>2. \A k \in A!InScope(scope') : ~(k <= 0)
  BY DEF A!InScope, A!Key
<1> QED
  BY <1>1, <1>2 DEF PrefixesCover

LEMMA PageStep == PageInv /\ [A!Next]_(A!vars) => PageInv'
<1> SUFFICES ASSUME PageInv, [A!Next]_(A!vars) PROVE PageInv'
  OBVIOUS
<1>1. A!TypeOK /\ A!TypeOK'
  BY PageTypeStep DEF PageInv
<1>2. PrefixesCover'
  <2>1. CASE UNCHANGED A!list
    BY <2>1 DEF PageInv, PrefixesCover, Starts, A!list
  <2>2. CASE ~ UNCHANGED A!list
    <3>1. A!HandleNext \/ A!HandlePrev \/ \E s \in A!Scope : A!SetScope(s)
      BY <2>2 DEF A!Next, A!vars, A!Hydrate, A!OpenEdit, A!OpenHistory, A!CloseEdit,
             A!OnSubmit, A!Updated, A!CloseHistory, A!CancelRollback, A!HandleRollback,
             A!RolledBack, A!ChooseEntry, A!UpdateServed, A!RollbackServed
    <3> QED
      BY <1>1, <3>1, NextCovers, PrevCovers, ScopeCovers DEF PageInv
  <2> QED
    BY <2>1, <2>2
<1>3. ConfirmIsOfShown' /\ (~wrong)'
  <2> USE DEF PageInv, ConfirmIsOfShown, A!Undefined, A!targets
  <2>1. CASE A!HandleRollback
    BY <2>1 DEF A!HandleRollback
  <2>2. CASE A!RolledBack
    BY <2>2 DEF A!RolledBack, A!ClearConfirm
  <2>3. CASE \E e \in 1 .. MaxEntries : A!ChooseEntry(e)
    BY <2>3 DEF A!ChooseEntry
  <2>4. CASE A!CloseHistory \/ A!CancelRollback
    BY <2>4 DEF A!CloseHistory, A!CancelRollback
  <2>5. CASE \E k \in A!Key : A!OpenHistory(k)
    BY <2>5 DEF A!OpenHistory, A!Listed
  <2>6. CASE UNCHANGED <<historyTarget, confirmTarget, wrong>>
    BY <2>6
  <2> QED
    BY <2>1, <2>2, <2>3, <2>4, <2>5, <2>6
       DEF A!Next, A!vars, A!Hydrate, A!HandleNext, A!HandlePrev, A!SetScope, A!OpenEdit,
           A!CloseEdit, A!OnSubmit, A!Updated, A!UpdateServed, A!RollbackServed
<1> QED
  BY <1>1, <1>2, <1>3 DEF PageInv

-----------------------------------------------------------------------------
(* The theorems                                                            *)

\* A behaviour of the servers and the page is one of the page.
LEMMA PageStepOrRest == [SettingsNext]_settingsVars => [A!Next]_(A!vars)
BY DEF SettingsNext, settingsVars, pageVars, A!vars, A!list, A!targets

\* Whatever the order of clicks, answers and fetches: the page keeps its types, the
\* pages up to the one that is shown leave no setting out, and the entry to be
\* confirmed belongs to the setting whose drawer is open.
THEOREM PageInvariant == SettingsSpec => []PageInv
<1>1. SettingsInit => PageInv
  BY PageInit DEF SettingsInit
<1>2. PageInv /\ [SettingsNext]_settingsVars => PageInv'
  BY PageStep, PageStepOrRest
<1> QED
  BY <1>1, <1>2, PTL DEF SettingsSpec

\* PagesCover: an administrator who goes through the pages of a scope has seen every
\* setting up to the page that is shown, for any number of settings and page size.
THEOREM PagesCovered == SettingsSpec => []PagesCover
<1>1. PageInv => PagesCover
  <2> SUFFICES ASSUME PageInv, NEW k \in A!InScope(scope), k <= cursor
               PROVE  \E i \in 1 .. Len(Starts) : k \in A!Page(scope, Starts[i])
    BY DEF PagesCover, A!PagesCover, Starts
  <2>1. Len(Starts) \in 1 .. Len(Starts) /\ k <= Starts[Len(Starts)]
    BY StartsTypes DEF PageInv
  <2> QED
    BY <2>1 DEF PageInv, PrefixesCover
<1> QED
  BY <1>1, PageInvariant, PTL

\* RollbackIsOfShown: a rollback is sent for an entry of the setting whose history
\* was shown, and of no other.
THEOREM RollbacksPaired == SettingsSpec => []RollbackIsOfShown
<1>1. PageInv => RollbackIsOfShown
  BY DEF PageInv, RollbackIsOfShown, A!RollbackIsOfShown
<1> QED
  BY <1>1, PageInvariant, PTL

=============================================================================
