------------------------ MODULE AgentServicesProofs ------------------------
(***************************************************************************)
(* Theorems about AgentServices: the push subscriptions, for any phones,   *)
(* any number of subscriptions and of notifications being sent, then the   *)
(* CLI registry, for any entries and detections.                           *)
(***************************************************************************)
EXTENDS AgentServices, InsertionMapProofs

\* The endpoints made so far: no other one is anywhere.
Made == 1 .. made

Sending == [left : SUBSET Endpoint, dead : SUBSET Endpoint]

\* What a send under way holds: endpoints that were made, and for dead only
\* those the push service will never accept again.
SendIsSound(s) == s.left \subseteq Made /\ s.dead \subseteq Made \ live

\* The inductive invariant.  What was saved for a phone is in the file too,
\* or a restart would lose it.
PushInv ==
  /\ PushTypeOK
  /\ live \cup kept \cup subs \cup file \subseteq Made
  /\ \A p \in Phones : browser[p] \in Made \cup {NoEndpoint}
  /\ \A i \in DOMAIN sends : SendIsSound(sends[i])
  /\ kept \cap live \subseteq subs \cap file

\* Nothing is made, saved or sent at first.
LEMMA InitPushInv == Init => PushInv
<1> SUFFICES ASSUME Init PROVE PushInv
  OBVIOUS
<1>1. sends = <<>> /\ sends \in Seq(Sending) /\ DOMAIN sends = {}
  BY DEF Init, InitPush, Sending
<1>2. PushTypeOK
  BY <1>1, PushAssumption
  DEF Init, InitPush, PushTypeOK, Endpoint, NoEndpoint, Steps, Sending
<1> QED
  BY <1>1, <1>2 DEF Init, InitPush, PushInv, Made, NoEndpoint

\* A step that leaves the push service alone.
LEMMA RegistryPushInv == ASSUME PushInv, UNCHANGED push PROVE PushInv'
  BY DEF PushInv, PushTypeOK, SendIsSound, Made, push

\* A send starts with the subscriptions there are and no dead one.
LEMMA SendPushInv == ASSUME PushInv, SendPush PROVE PushInv'
<1> DEFINE s == [left |-> subs, dead |-> {}]
<1>1. s \in Sending /\ SendIsSound(s)
  BY DEF PushInv, PushTypeOK, Sending, SendIsSound
<1>2. /\ sends \in Seq(Sending)
      /\ sends' = Append(sends, s)
  BY DEF PushInv, PushTypeOK, Sending, SendPush
<1> HIDE DEF s
<1>3. sends' \in Seq(Sending) /\ \A i \in DOMAIN sends' : SendIsSound(sends'[i])
  BY <1>1, <1>2, AppendProperties DEF PushInv
<1> QED
  BY <1>3 DEF PushInv, PushTypeOK, SendPush, Sending, SendIsSound, Made

\* The push service answers for one endpoint of a send: what is pruned at its
\* end is dead.
LEMMA PushAnswerInv ==
  ASSUME PushInv, NEW i \in DOMAIN sends, NEW e \in sends[i].left,
         NEW written \in BOOLEAN, NEW failed \in BOOLEAN,
         PushAnswer(i, e, written, failed)
  PROVE  PushInv'
<1> DEFINE s == Answered(sends[i], e, failed)
<1>1. sends \in Seq(Sending) /\ sends[i] \in Sending /\ SendIsSound(sends[i])
  <2>1. sends \in Seq(Sending)
    BY DEF PushInv, PushTypeOK, Sending
  <2>2. sends[i] \in Sending
    BY <2>1
  <2> QED
    BY <2>1, <2>2 DEF PushInv
<1>2. s \in Sending /\ SendIsSound(s)
  BY <1>1 DEF Answered, Sending, SendIsSound
<1>3. CASE s.left = {}
  <2>1. sends' = RemoveAt(sends, i) /\ Prune(s.dead, written)
    BY <1>3 DEF PushAnswer
  <2> HIDE DEF s
  <2>2. /\ sends' \in Seq(Sending)
        /\ Len(sends') = Len(sends) - 1
        /\ \A j \in 1 .. Len(sends) - 1 :
             sends'[j] = IF j < i THEN sends[j] ELSE sends[j + 1]
    BY <1>1, <2>1, RemoveAtIsShift
  <2>3. \A j \in DOMAIN sends' : SendIsSound(sends'[j])
    <3> TAKE j \in DOMAIN sends'
    <3>1. j \in 1 .. Len(sends) - 1 /\ j \in DOMAIN sends /\ j + 1 \in DOMAIN sends
      BY <1>1, <2>2
    <3> QED
      BY <2>2, <3>1 DEF PushInv
  <2>4. /\ subs' \in SUBSET subs
        /\ file' \in {file, subs'}
        /\ kept \cap live \subseteq subs'
    BY <1>2, <2>1 DEF Prune, Save, SendIsSound, PushInv
  <2> QED
    BY <2>2, <2>3, <2>4 DEF PushInv, PushTypeOK, PushAnswer, Sending, SendIsSound, Made
<1>4. CASE s.left # {}
  <2>1. sends' = [sends EXCEPT ![i] = s] /\ UNCHANGED <<subs, file>>
    BY <1>4 DEF PushAnswer
  <2> HIDE DEF s
  <2>2. sends' \in Seq(Sending) /\ \A j \in DOMAIN sends' : SendIsSound(sends'[j])
    BY <1>1, <1>2, <2>1 DEF PushInv
  <2> QED
    BY <2>1, <2>2 DEF PushInv, PushTypeOK, PushAnswer, Sending, SendIsSound, Made
<1> QED
  BY <1>3, <1>4

\* The endpoint of a new subscription is in no list, so no send under way can
\* prune it (push.ts:72).
LEMMA PushKeyInv ==
  ASSUME PushInv, NEW p \in Phones, PushKey(p)
  PROVE  PushInv'
<1>1. /\ made \in Nat /\ sends' = sends
      /\ UNCHANGED <<shown, subs, file, kept>>
      /\ step' \in [Phones -> Steps]
  BY DEF PushInv, PushTypeOK, PushKey, GoTo, Steps
<1>2. CASE UNCHANGED <<made, live, browser>>
  BY <1>1, <1>2 DEF PushInv, PushTypeOK, SendIsSound, Made
<1>3. CASE /\ made < MaxEndpoints /\ made' = made + 1
           /\ live' = live \cup {made + 1}
           /\ browser' = [browser EXCEPT ![p] = made + 1]
  <2>1. made + 1 \in Endpoint /\ made' \in 0 .. MaxEndpoints /\ made + 1 \notin Made
    BY <1>1, <1>3, PushAssumption DEF Endpoint, Made
  <2>2. Made \subseteq Made' /\ made + 1 \in Made'
    BY <1>1, <1>3 DEF Made
  <2>3. PushTypeOK'
    BY <1>1, <1>3, <2>1 DEF PushInv, PushTypeOK
  <2>4. (\A j \in DOMAIN sends : SendIsSound(sends[j]))'
    BY <1>1, <1>3, <2>1, <2>2 DEF PushInv, SendIsSound
  <2>5. \A q \in Phones : browser'[q] \in Made' \cup {NoEndpoint}
    BY <1>3, <2>2 DEF PushInv, PushTypeOK
  <2> QED
    BY <1>1, <1>3, <2>1, <2>2, <2>3, <2>4, <2>5 DEF PushInv
<1> QED
  BY <1>2, <1>3 DEF PushKey

\* The agent adds or drops the subscription of a phone, and saves its list.
LEMMA PostedInv ==
  ASSUME PushInv, NEW p \in Phones, NEW written \in BOOLEAN,
         PushPosted(p, written) \/ PushLeft(p, written)
  PROVE  PushInv'
<1>1. browser[p] \in Made /\ browser[p] \in Endpoint
  BY DEF PushInv, PushTypeOK, PushPosted, PushLeft
<1>2. UNCHANGED <<made, live, browser, shown, sends>> /\ step' \in [Phones -> Steps]
  BY DEF PushInv, PushTypeOK, PushPosted, PushLeft, GoTo, Steps
<1>3. CASE PushPosted(p, written)
  BY <1>1, <1>2, <1>3
  DEF PushInv, PushTypeOK, PushPosted, Subscribe, Save, SendIsSound, Made
<1>4. CASE PushLeft(p, written)
  BY <1>1, <1>2, <1>4
  DEF PushInv, PushTypeOK, PushLeft, Unsubscribe, Save, SendIsSound, Made
<1> QED
  BY <1>3, <1>4

\* A subscription ends: what is dead stays dead.
LEMMA ForgetInv ==
  ASSUME PushInv, NEW p \in Phones, PushUnsubscribed(p) \/ PushExpires(p)
  PROVE  PushInv'
<1>1. /\ Forget(p)
      /\ UNCHANGED <<made, subs, file, sends, kept>>
      /\ step' \in [Phones -> Steps] /\ shown' \in [Phones -> BOOLEAN]
  BY DEF PushInv, PushTypeOK, PushUnsubscribed, PushExpires, GoTo, Show, Steps
<1>2. live' \subseteq live /\ browser' \in [Phones -> Endpoint \cup {NoEndpoint}]
  BY <1>1 DEF Forget, PushInv, PushTypeOK
<1>3. \A q \in Phones : browser'[q] \in Made \cup {NoEndpoint}
  BY <1>1 DEF Forget, PushInv, PushTypeOK
<1> QED
  BY <1>1, <1>2, <1>3 DEF PushInv, PushTypeOK, SendIsSound, Made

\* A step of a phone that changes nothing but what it shows and where it is.
LEMMA PhoneInv ==
  ASSUME PushInv,
         UNCHANGED <<made, live, browser, subs, file, sends, kept>>,
         step' \in [Phones -> Steps], shown' \in [Phones -> BOOLEAN]
  PROVE  PushInv'
  BY DEF PushInv, PushTypeOK, SendIsSound, Made

\* The steps of such a kind.
LEMMA PhoneSteps ==
  ASSUME PushInv, NEW p \in Phones,
         \/ TogglePush(p) \/ PushSubscribed(p) \/ PushFailed(p)
         \/ PushNothing(p) \/ PushLeftUnheard(p) \/ PushReload(p)
  PROVE  PushInv'
<1>1. UNCHANGED <<made, live, browser, subs, file, sends, kept>>
  BY DEF TogglePush, PushSubscribed, PushFailed, PushNothing, PushLeftUnheard, PushReload
<1>2. step' \in [Phones -> Steps] /\ shown' \in [Phones -> BOOLEAN]
  BY DEF TogglePush, PushSubscribed, PushFailed, PushNothing, PushLeftUnheard,
         PushReload, GoTo, Show, Steps, PushInv, PushTypeOK
<1> QED
  BY <1>1, <1>2, PhoneInv

\* The agent starts again, from the file it wrote or without one.
LEMMA RestartInv ==
  ASSUME PushInv, NEW cliFile, NEW pushFile \in {file, {}}, Restart(cliFile, pushFile)
  PROVE  PushInv'
<1>1. sends' = <<>> /\ sends' \in Seq(Sending) /\ DOMAIN sends' = {}
  BY DEF Restart, PushRestart, Sending
<1>2. PushTypeOK'
  BY <1>1 DEF PushInv, PushTypeOK, Restart, PushRestart, Sending
<1> QED
  BY <1>1, <1>2 DEF PushInv, Restart, PushRestart, Made

\* A step of the push service or of a phone.
LEMMA PushStepInv ==
  ASSUME PushInv, NEW written \in BOOLEAN, Push(written)
  PROVE  PushInv'
<1>1. CASE SendPush
  BY <1>1, SendPushInv
<1>2. CASE \E i \in DOMAIN sends : \E e \in sends[i].left : \E failed \in BOOLEAN :
             PushAnswer(i, e, written, failed)
  BY <1>2, PushAnswerInv
<1>3. ASSUME NEW p \in Phones,
             \/ TogglePush(p) \/ PushKey(p) \/ PushPosted(p, written)
             \/ PushSubscribed(p) \/ PushFailed(p) \/ PushNothing(p)
             \/ PushLeft(p, written) \/ PushLeftUnheard(p) \/ PushUnsubscribed(p)
             \/ PushReload(p) \/ PushExpires(p)
      PROVE  PushInv'
  BY <1>3, PushKeyInv, PostedInv, ForgetInv, PhoneSteps
<1> QED
  BY <1>1, <1>2, <1>3 DEF Push, StartPush, GoOnPush

\* Every step keeps the invariant.
LEMMA NextPushInv == PushInv /\ [Next]_vars => PushInv'
<1> SUFFICES ASSUME PushInv, [Next]_vars PROVE PushInv'
  OBVIOUS
<1>1. CASE \E written \in BOOLEAN : Push(written)
  BY <1>1, PushStepInv
<1>2. CASE Restart(config, file) \/ Restart(None, file) \/ Restart(config, {})
  BY <1>2, RestartInv
<1>3. CASE UNCHANGED vars
  BY <1>3, RegistryPushInv DEF vars
<1>4. CASE OpenPage \/ DetectClis \/ ChooseCli \/ AddCli \/ RemoveCli
  BY <1>4, RegistryPushInv DEF OpenPage, DetectClis, ChooseCli, AddCli, RemoveCli, Ask
<1>5. CASE HandleList \/ HandleDetect \/ Detected \/ CliReport \/ HandleAnswer \/ HandleUpdate
  BY <1>5, RegistryPushInv
  DEF HandleList, HandleDetect, Detected, CliReport, HandleAnswer, HandleUpdate
<1>6. CASE \E written \in BOOLEAN :
             HandleDefault(written) \/ HandleAdd(written) \/ HandleRemove(written)
  BY <1>6, RegistryPushInv DEF HandleDefault, HandleAdd, HandleRemove
<1> QED
  BY <1>1, <1>2, <1>3, <1>4, <1>5, <1>6 DEF Next

LEMMA PushInvHolds == Spec => []PushInv
<1> QED
  BY InitPushInv, NextPushInv, PTL DEF Spec

-----------------------------------------------------------------------------
\* A subscription the agent saved stays in its list while the push service
\* accepts it and the phone has not taken it back, whatever a send prunes and
\* whenever the agent restarts (push.ts:72).
THEOREM LiveAlwaysSubscribed == Spec => []LiveStaysSubscribed
<1>1. PushInv => LiveStaysSubscribed
  BY DEF PushInv, LiveStaysSubscribed
<1> QED
  BY <1>1, PushInvHolds, PTL

\* No endpoint the push service accepts is among those a send is about to
\* drop: an answer of 404 or 410 stays true after the awaits of the fan-out
\* (push.ts:60-74).
THEOREM OnlyDeadArePruned ==
  Spec => [](\A i \in DOMAIN sends : sends[i].dead \cap live = {})
<1>1. PushInv => \A i \in DOMAIN sends : sends[i].dead \cap live = {}
  BY DEF PushInv, SendIsSound
<1> QED
  BY <1>1, PushInvHolds, PTL

-----------------------------------------------------------------------------
(* The CLI registry.                                                       *)

\* A list has one entry per id, and those the user added are marked so.
ListSound(m) ==
  /\ m \in Seq(Cli)
  /\ UniqueKeys(m)
  /\ \A i \in DOMAIN m : m[i].isCustom <=> m[i].id \in Customs

\* The entry w, and no other, is marked as the default.
Marks(m, w) == \A i \in DOMAIN m : m[i].isDefault <=> m[i].id = w

\* A file keeps a sound list of the entries the user added.
FileSound(f) ==
  /\ f \in Files
  /\ ListSound(f.customClis)
  /\ Keys(f.customClis) \subseteq Customs

\* A file has the choice w: in the field load() reads first for a built-in
\* entry, in the entry itself for one the user added.
FileHas(f, w) ==
  /\ f.defaultCliId = w
  /\ Marks(f.customClis, w)
  /\ w \in Customs => w \in Keys(f.customClis)

\* The inductive invariant of the registry.
RegistryInv ==
  /\ ListSound(clis)
  /\ config # None => FileSound(config)
  /\ scans \in Seq(SUBSET CliIds)
  /\ choice \in CliIds \cup {None}
  /\ choice # None => /\ choice \in Keys(clis) /\ Marks(clis, choice)
                      /\ config # None /\ FileHas(config, choice)

\* What an entry of a list is.
LEMMA EntryType ==
  ASSUME NEW m \in Seq(Cli)
  PROVE  /\ Len(m) \in Nat /\ DOMAIN m = 1 .. Len(m)
         /\ \A i \in DOMAIN m :
              /\ m[i] \in Cli /\ m[i].id \in CliIds
              /\ m[i].isDefault \in BOOLEAN /\ m[i].isCustom \in BOOLEAN
<1>1. \A i \in DOMAIN m : m[i] \in Cli
  OBVIOUS
<1> QED
  BY <1>1 DEF Cli

\* A change of flags leaves a list sound, when it leaves the ids and who added
\* the entries.
LEMMA FlagsSound ==
  ASSUME NEW m, ListSound(m), NEW g, DOMAIN g = DOMAIN m,
         g = [i \in DOMAIN m |-> g[i]],
         \A i \in DOMAIN m :
           g[i] \in Cli /\ g[i].id = m[i].id /\ g[i].isCustom = m[i].isCustom
  PROVE  ListSound(g) /\ Keys(g) = Keys(m)
<1>1. m \in Seq(Cli) /\ Len(m) \in Nat /\ DOMAIN m = 1 .. Len(m)
  BY EntryType DEF ListSound
<1>2. g \in Seq(Cli)
  BY <1>1
<1>3. UniqueKeys(g)
  BY DEF ListSound, UniqueKeys
<1>4. \A i \in DOMAIN g : g[i].isCustom <=> g[i].id \in Customs
  BY DEF ListSound
<1>5. Keys(g) = Keys(m)
  BY DEF Keys
<1> QED
  BY <1>2, <1>3, <1>4, <1>5 DEF ListSound

\* One entry is made the default.
LEMMA MakeDefaultMarks ==
  ASSUME NEW m, ListSound(m), NEW w
  PROVE  /\ ListSound(MakeDefault(m, w)) /\ Keys(MakeDefault(m, w)) = Keys(m)
         /\ Marks(MakeDefault(m, w), w)
<1> DEFINE g == MakeDefault(m, w)
<1>1. g = [i \in DOMAIN m |-> [m[i] EXCEPT !.isDefault = (m[i].id = w)]]
  BY DEF MakeDefault
<1>2. m \in Seq(Cli) /\ \A i \in DOMAIN m : m[i] \in Cli
  BY EntryType DEF ListSound
<1> HIDE DEF g
<1>3. DOMAIN g = DOMAIN m /\ g = [i \in DOMAIN m |-> g[i]]
  BY <1>1
<1>4. ASSUME NEW i \in DOMAIN m
      PROVE  /\ g[i] \in Cli /\ g[i].id = m[i].id /\ g[i].isCustom = m[i].isCustom
             /\ g[i].isDefault = (m[i].id = w)
  <2>1. g[i] = [m[i] EXCEPT !.isDefault = (m[i].id = w)] /\ m[i] \in Cli
    BY <1>1, <1>2
  <2> DEFINE b == m[i].id = w
  <2>2. g[i] = [m[i] EXCEPT !.isDefault = b] /\ b \in BOOLEAN
    BY <2>1
  <2> HIDE DEF b
  <2>3. /\ g[i] \in Cli /\ g[i].id = m[i].id /\ g[i].isCustom = m[i].isCustom
        /\ g[i].isDefault = b
    BY <2>1, <2>2 DEF Cli
  <2> QED
    BY <2>3 DEF b
<1>5. ListSound(g) /\ Keys(g) = Keys(m)
  BY <1>3, <1>4, FlagsSound
<1>6. Marks(g, w)
  BY <1>3, <1>4 DEF Marks
<1> QED
  BY <1>5, <1>6 DEF g

\* find() gives the id of an entry of those it is to look at.
LEMMA FindIdFinds ==
  ASSUME NEW m \in Seq(Cli), NEW I, I \subseteq DOMAIN m
  PROVE  IF I = {} THEN FindId(m, I) = None ELSE \E i \in I : FindId(m, I) = m[i].id
<1>1. CASE I = {}
  BY <1>1 DEF FindId
<1>2. CASE I # {}
  <2>1. I \subseteq Nat
    BY EntryType
  <2>2. \E i \in I : \A j \in I : i <= j
    BY <1>2, <2>1, LeastOf
  <2> QED
    BY <1>2, <2>2 DEF FindId
<1> QED
  BY <1>1, <1>2

\* The default is the entry that is marked.
LEMMA DefaultIsMarked ==
  ASSUME NEW m, ListSound(m)
  PROVE  /\ DefaultOf(m) \in CliIds \cup {None}
         /\ \A w \in Keys(m) : Marks(m, w) => DefaultOf(m) = w
<1> DEFINE I == {i \in DOMAIN m : m[i].isDefault}
<1>1. m \in Seq(Cli) /\ I \subseteq DOMAIN m
  BY DEF ListSound
<1>2. DefaultOf(m) = FindId(m, I)
  BY DEF DefaultOf
<1>3. IF I = {} THEN FindId(m, I) = None ELSE \E i \in I : FindId(m, I) = m[i].id
  <2> HIDE DEF I
  <2> QED
    BY <1>1, FindIdFinds
<1>4. DefaultOf(m) \in CliIds \cup {None}
  BY <1>1, <1>2, <1>3, EntryType
<1>5. ASSUME NEW w \in Keys(m), Marks(m, w) PROVE DefaultOf(m) = w
  <2>1. PICK i \in DOMAIN m : m[i].id = w
    BY DEF Keys
  <2>2. i \in I
    BY <1>5, <2>1 DEF Marks
  <2>3. \A j \in I : m[j].id = w
    BY <1>5 DEF Marks
  <2> QED
    BY <1>2, <1>3, <2>2, <2>3
<1> QED
  BY <1>4, <1>5

\* What persist() writes of a sound list is a sound file, and has its default.
LEMMA SnapshotHas ==
  ASSUME NEW m, ListSound(m)
  PROVE  /\ FileSound(Snapshot(m)) /\ Snapshot(m) # None
         /\ \A w \in Keys(m) : Marks(m, w) => FileHas(Snapshot(m), w)
<1> DEFINE I == {i \in DOMAIN m : m[i].isCustom}
           q == Entries(m, I)
<1>1. m \in Seq(Cli) /\ I \subseteq DOMAIN m
  BY DEF ListSound
<1>2. Snapshot(m) = [defaultCliId |-> DefaultOf(m), customClis |-> q]
  BY DEF Snapshot
<1>4. \A i \in I : i \in DOMAIN m /\ m[i] \in Cli /\ m[i].isCustom
  BY <1>1, EntryType
<1>5. \A i \in DOMAIN m : m[i].id \in Customs => i \in I
  BY DEF ListSound
<1> HIDE DEF I
<1>p. \E f \in [1 .. Cardinality(I) -> I] :
        /\ Cardinality(I) \in Nat
        /\ Entries(m, I) = [n \in 1 .. Cardinality(I) |-> m[f[n]]]
        /\ \A i \in I : \E n \in 1 .. Cardinality(I) : f[n] = i
        /\ \A n, k \in 1 .. Cardinality(I) : f[n] = f[k] => n = k
  BY <1>1, EntriesArePicked
<1>3. PICK f \in [1 .. Cardinality(I) -> I] :
        /\ Cardinality(I) \in Nat
        /\ q = [n \in 1 .. Cardinality(I) |-> m[f[n]]]
        /\ \A i \in I : \E n \in 1 .. Cardinality(I) : f[n] = i
        /\ \A n, k \in 1 .. Cardinality(I) : f[n] = f[k] => n = k
  BY <1>p
<1> DEFINE c == Cardinality(I)
<1> HIDE DEF q, c
<1>6. c \in Nat /\ f \in [1 .. c -> I] /\ q = [n \in 1 .. c |-> m[f[n]]]
  BY <1>3 DEF c
<1>7. q \in Seq(Cli) /\ DOMAIN q = 1 .. c /\ \A n \in 1 .. c : q[n] = m[f[n]] /\ f[n] \in I
  <2>1. \A n \in 1 .. c : f[n] \in I /\ m[f[n]] \in Cli
    BY <1>4, <1>6
  <2> QED
    BY <1>6, <2>1
<1>8. UniqueKeys(q)
  <2> SUFFICES ASSUME NEW n \in 1 .. c, NEW k \in 1 .. c, q[n].id = q[k].id
               PROVE  n = k
    BY <1>7 DEF UniqueKeys
  <2>1. f[n] = f[k]
    BY <1>4, <1>7 DEF ListSound, UniqueKeys
  <2> QED
    BY <1>3, <2>1 DEF c
<1>9. \A n \in DOMAIN q : q[n].isCustom /\ q[n].id \in Customs
  BY <1>4, <1>7 DEF ListSound
<1>10. ListSound(q) /\ Keys(q) \subseteq Customs
  BY <1>7, <1>8, <1>9 DEF ListSound, Keys
<1>11. FileSound(Snapshot(m)) /\ Snapshot(m) # None
  <2>1. DefaultOf(m) \in CliIds \cup {None}
    BY DefaultIsMarked
  <2>2. Snapshot(m) \in Files
    BY <1>2, <1>7, <2>1 DEF Files
  <2> QED
    BY <1>2, <1>10, <2>2, FileAssumption DEF FileSound
<1>12. ASSUME NEW w \in Keys(m), Marks(m, w) PROVE FileHas(Snapshot(m), w)
  <2>1. DefaultOf(m) = w
    BY <1>12, DefaultIsMarked
  <2>2. Marks(q, w)
    BY <1>4, <1>7, <1>12 DEF Marks
  <2>3. ASSUME w \in Customs PROVE w \in Keys(q)
    <3>1. PICK i \in DOMAIN m : m[i].id = w
      BY DEF Keys
    <3>2. PICK n \in 1 .. c : f[n] = i
      BY <1>3, <1>5, <2>3, <3>1 DEF c
    <3> QED
      BY <1>7, <3>1, <3>2 DEF Keys
  <2> QED
    BY <1>2, <2>1, <2>2, <2>3 DEF FileHas
<1> QED
  BY <1>11, <1>12

\* The list of the constructor.
LEMMA BuiltinsSound ==
  /\ ListSound(BuiltinClis) /\ Keys(BuiltinClis) = {"codex", "claude-code"}
  /\ CliIds = {"codex", "claude-code"} \cup Customs
  /\ \A i \in DOMAIN BuiltinClis : ~BuiltinClis[i].isDefault
<1>1. Builtins = <<"codex", "claude-code">> /\ DOMAIN Builtins = 1 .. 2
      /\ ToSet(Builtins) = {"codex", "claude-code"}
  BY DEF Builtins, ToSet
<1>2. CliIds = {"codex", "claude-code"} \cup Customs
  BY <1>1 DEF CliIds
<1>3. Builtins[1] = "codex" /\ Builtins[2] = "claude-code"
  BY DEF Builtins
<1>4. BuiltinClis = [i \in 1 .. 2 |-> Entry(Builtins[i], FALSE)]
  BY <1>1 DEF BuiltinClis
<1>5. ASSUME NEW i \in 1 .. 2
      PROVE  /\ BuiltinClis[i] \in Cli
             /\ ~BuiltinClis[i].isDefault /\ ~BuiltinClis[i].isCustom
             /\ BuiltinClis[i].id = Builtins[i]
  <2>1. Builtins[i] \in CliIds
    BY <1>2, <1>3
  <2>2. BuiltinClis[i] = Entry(Builtins[i], FALSE)
    BY <1>4
  <2> QED
    BY <2>1, <2>2 DEF Entry, Cli
<1>6. BuiltinClis \in Seq(Cli) /\ DOMAIN BuiltinClis = 1 .. 2
  <2> DEFINE g == BuiltinClis
  <2>1. g = [i \in 1 .. 2 |-> g[i]]
    BY <1>4
  <2>2. \A i \in 1 .. 2 : g[i] \in Cli
    BY <1>5
  <2> HIDE DEF g
  <2>3. g \in Seq(Cli) /\ DOMAIN g = 1 .. 2
    BY <2>1, <2>2
  <2> QED
    BY <2>3 DEF g
<1>7. Keys(BuiltinClis) = {"codex", "claude-code"}
  <2>1. Keys(BuiltinClis) = {Builtins[i] : i \in 1 .. 2}
    BY <1>5, <1>6 DEF Keys
  <2> QED
    BY <1>3, <2>1
<1>8. UniqueKeys(BuiltinClis)
  BY <1>3, <1>5, <1>6 DEF UniqueKeys
<1>9. \A i \in DOMAIN BuiltinClis :
        BuiltinClis[i].isCustom <=> BuiltinClis[i].id \in Customs
  BY <1>3, <1>5, <1>6, RegistryAssumption
<1> QED
  BY <1>2, <1>5, <1>6, <1>7, <1>8, <1>9 DEF ListSound

\* A list with the entries of a file behind it.
LEMMA ConcatSound ==
  ASSUME NEW b, ListSound(b), Keys(b) = {"codex", "claude-code"},
         NEW q, ListSound(q), Keys(q) \subseteq Customs
  PROVE  /\ ListSound(b \o q) /\ Keys(b \o q) = Keys(b) \cup Keys(q)
         /\ \A w : Marks(b, w) /\ Marks(q, w) => Marks(b \o q, w)
<1> DEFINE g == b \o q
<1>1. /\ Len(b) \in Nat /\ DOMAIN b = 1 .. Len(b) /\ b \in Seq(Cli)
      /\ Len(q) \in Nat /\ DOMAIN q = 1 .. Len(q) /\ q \in Seq(Cli)
  BY EntryType DEF ListSound
<1>2. /\ g \in Seq(Cli) /\ DOMAIN g = 1 .. Len(b) + Len(q)
      /\ \A i \in 1 .. Len(b) + Len(q) :
           g[i] = IF i <= Len(b) THEN b[i] ELSE q[i - Len(b)]
  BY <1>1, ConcatProperties
<1>3. \A k \in Keys(q) : k \notin Keys(b)
  BY RegistryAssumption
<1> HIDE DEF g
<1>4. ASSUME NEW i \in DOMAIN g
      PROVE  \/ i \in DOMAIN b /\ g[i] = b[i] /\ g[i].id \in Keys(b)
             \/ i - Len(b) \in DOMAIN q /\ g[i] = q[i - Len(b)]
                /\ g[i].id \in Keys(q) /\ g[i].id \notin Keys(b)
  <2>1. CASE i <= Len(b)
    BY <1>1, <1>2, <2>1 DEF Keys
  <2>2. CASE ~(i <= Len(b))
    <3>1. i - Len(b) \in DOMAIN q /\ g[i] = q[i - Len(b)]
      BY <1>1, <1>2, <2>2
    <3>2. g[i].id \in Keys(q)
      BY <3>1 DEF Keys
    <3> QED
      BY <1>3, <3>1, <3>2
  <2> QED
    BY <2>1, <2>2
<1>5. UniqueKeys(g)
  <2> SUFFICES ASSUME NEW i \in DOMAIN g, NEW j \in DOMAIN g, g[i].id = g[j].id
               PROVE  i = j
    BY DEF UniqueKeys
  <2>1. CASE g[i].id \in Keys(b)
    BY <1>3, <1>4, <2>1 DEF ListSound, UniqueKeys
  <2>2. CASE g[i].id \notin Keys(b)
    <3>1. /\ i - Len(b) \in DOMAIN q /\ g[i] = q[i - Len(b)]
          /\ j - Len(b) \in DOMAIN q /\ g[j] = q[j - Len(b)]
      BY <1>4, <2>2
    <3>2. i - Len(b) = j - Len(b)
      BY <3>1 DEF ListSound, UniqueKeys
    <3> QED
      BY <1>1, <1>2, <3>2
  <2> QED
    BY <2>1, <2>2
<1>6. \A i \in DOMAIN g : g[i].isCustom <=> g[i].id \in Customs
  BY <1>4 DEF ListSound
<1>7. ASSUME NEW i \in DOMAIN b PROVE i \in DOMAIN g /\ g[i] = b[i]
  BY <1>1, <1>2
<1>8. ASSUME NEW i \in DOMAIN q PROVE i + Len(b) \in DOMAIN g /\ g[i + Len(b)] = q[i]
  BY <1>1, <1>2
<1>9. Keys(g) = Keys(b) \cup Keys(q)
  <2>1. \A k \in Keys(g) : k \in Keys(b) \cup Keys(q)
    BY <1>4 DEF Keys
  <2>2. \A k \in Keys(b) : k \in Keys(g)
    BY <1>7 DEF Keys
  <2>3. \A k \in Keys(q) : k \in Keys(g)
    BY <1>8 DEF Keys
  <2> QED
    BY <2>1, <2>2, <2>3
<1>10. \A w : Marks(b, w) /\ Marks(q, w) => Marks(g, w)
  BY <1>4 DEF Marks
<1> QED
  BY <1>2, <1>5, <1>6, <1>9, <1>10 DEF g, ListSound

\* resolveId() finds a built-in entry under its own id, and nothing under one
\* the user added.
LEMMA ResolveBuiltin ==
  ASSUME NEW m, Keys(m) = {"codex", "claude-code"}, NEW w \in CliIds
  PROVE  ResolveId(m, w) = IF w \in Customs THEN None ELSE w
<1>1. DOMAIN Aliases = {"claude"}
  BY DEF Aliases
<1>2. w \in {"codex", "claude-code"} \cup Customs
  BY BuiltinsSound
<1> QED
  BY <1>1, <1>2, RegistryAssumption DEF ResolveId

\* load() of a sound file gives a sound list, and one with the choice when
\* the file has it.
LEMMA LoadHas ==
  ASSUME NEW f, f = None \/ FileSound(f)
  PROVE  /\ ListSound(Load(f))
         /\ f # None => \A w \in CliIds : FileHas(f, w) =>
                          w \in Keys(Load(f)) /\ Marks(Load(f), w)
<1>1. CASE f = None
  BY <1>1, BuiltinsSound DEF Load
<1>2. CASE f # None
  <2> DEFINE id == ResolveId(BuiltinClis, f.defaultCliId)
             b == IF id = None THEN BuiltinClis ELSE MakeDefault(BuiltinClis, id)
             q == f.customClis
  <2>1. Load(f) = b \o q
    BY <1>2 DEF Load
  <2>2. FileSound(f) /\ ListSound(q) /\ Keys(q) \subseteq Customs
    BY <1>2 DEF FileSound
  <2>3. ListSound(b) /\ Keys(b) = {"codex", "claude-code"}
    BY BuiltinsSound, MakeDefaultMarks
  <2>4. ASSUME NEW w \in CliIds, FileHas(f, w)
        PROVE  Marks(b, w) /\ Marks(q, w) /\ w \in Keys(b) \cup Keys(q)
    <3>1. f.defaultCliId = w /\ Marks(q, w) /\ (w \in Customs => w \in Keys(q))
      BY <2>4 DEF FileHas
    <3>2. id = IF w \in Customs THEN None ELSE w
      BY <3>1, BuiltinsSound, ResolveBuiltin
    <3>3. CASE w \in Customs
      <4>1. b = BuiltinClis
        BY <3>2, <3>3
      <4>2. Marks(b, w)
        BY <3>3, <4>1, BuiltinsSound, RegistryAssumption DEF Marks, Keys
      <4> QED
        BY <3>1, <3>3, <4>2
    <3>4. CASE w \notin Customs
      <4>1. w \in {"codex", "claude-code"}
        BY <3>4, BuiltinsSound
      <4>2. id = w /\ id # None
        BY <3>2, <3>4, <4>1, RegistryAssumption
      <4>3. b = MakeDefault(BuiltinClis, w)
        BY <4>2
      <4>4. Marks(b, w)
        BY <4>3, BuiltinsSound, MakeDefaultMarks
      <4> QED
        BY <2>3, <3>1, <4>1, <4>4
    <3> QED
      BY <3>3, <3>4
  <2> HIDE DEF b, q, id
  <2>5. /\ ListSound(b \o q) /\ Keys(b \o q) = Keys(b) \cup Keys(q)
        /\ \A w : Marks(b, w) /\ Marks(q, w) => Marks(b \o q, w)
    BY <2>2, <2>3, ConcatSound
  <2> QED
    BY <2>1, <2>4, <2>5
<1> QED
  BY <1>1, <1>2

\* An entry a user adds has a new id.
LEMMA AppendSound ==
  ASSUME NEW m, ListSound(m), NEW id \in Customs, id \notin Keys(m)
  PROVE  /\ ListSound(Append(m, Entry(id, TRUE)))
         /\ Keys(m) \subseteq Keys(Append(m, Entry(id, TRUE)))
         /\ \A w \in Keys(m) : Marks(m, w) => Marks(Append(m, Entry(id, TRUE)), w)
<1> DEFINE e == Entry(id, TRUE)
           g == Append(m, e)
<1>1. e \in Cli /\ e.id = id /\ e.isCustom /\ ~e.isDefault
  BY BuiltinsSound DEF Entry, Cli
<1>2. m \in Seq(Cli) /\ Len(m) \in Nat /\ DOMAIN m = 1 .. Len(m)
  BY EntryType DEF ListSound
<1> HIDE DEF e
<1>3. /\ g \in Seq(Cli) /\ DOMAIN g = 1 .. Len(m) + 1
      /\ \A i \in 1 .. Len(m) : g[i] = m[i]
      /\ g[Len(m) + 1] = e
  BY <1>1, <1>2, AppendProperties
<1> HIDE DEF g
<1>4. ASSUME NEW i \in DOMAIN g
      PROVE  \/ i \in DOMAIN m /\ g[i] = m[i] /\ g[i].id \in Keys(m)
             \/ i = Len(m) + 1 /\ g[i] = e /\ g[i].id \notin Keys(m)
  BY <1>1, <1>2, <1>3 DEF Keys
<1>5. UniqueKeys(g)
  <2> SUFFICES ASSUME NEW i \in DOMAIN g, NEW j \in DOMAIN g, g[i].id = g[j].id
               PROVE  i = j
    BY DEF UniqueKeys
  <2> QED
    BY <1>4 DEF ListSound, UniqueKeys
<1>6. \A i \in DOMAIN g : g[i].isCustom <=> g[i].id \in Customs
  BY <1>1, <1>4 DEF ListSound
<1>7. Keys(m) \subseteq Keys(g)
  BY <1>2, <1>3 DEF Keys
<1>8. \A w \in Keys(m) : Marks(m, w) => Marks(g, w)
  BY <1>1, <1>4 DEF Marks
<1> QED
  BY <1>3, <1>5, <1>6, <1>7, <1>8 DEF g, e, ListSound

\* An entry is removed.
LEMMA DeleteSound ==
  ASSUME NEW m, ListSound(m), NEW id
  PROVE  /\ ListSound(MapDelete(m, id))
         /\ \A w \in Keys(m) : w # id => w \in Keys(MapDelete(m, id))
         /\ \A w : Marks(m, w) => Marks(MapDelete(m, id), w)
<1> DEFINE g == MapDelete(m, id)
<1>1. m \in Seq(Cli) /\ UniqueKeys(m)
  BY DEF ListSound
<1>2. /\ g \in Seq(Cli)
      /\ UniqueKeys(g)
      /\ \A j \in DOMAIN g : g[j].id # id /\ \E i \in DOMAIN m : g[j] = m[i]
      /\ \A i \in DOMAIN m : m[i].id # id => \E j \in DOMAIN g : g[j] = m[i]
  BY <1>1, MapDeleteProperties
<1> HIDE DEF g
<1>3. ListSound(g)
  BY <1>2 DEF ListSound
<1>4. \A w \in Keys(m) : w # id => w \in Keys(g)
  BY <1>2 DEF Keys
<1>5. \A w : Marks(m, w) => Marks(g, w)
  BY <1>2 DEF Marks
<1> QED
  BY <1>3, <1>4, <1>5 DEF g

\* persist() after a change of the list, which wrote the file or did not.
LEMMA PersistInv ==
  ASSUME RegistryInv, NEW written \in BOOLEAN, ListSound(clis'),
         Persist(clis', written), choice' \in CliIds \cup {None}, scans' = scans,
         choice' # None => choice' \in Keys(clis') /\ Marks(clis', choice'),
         ~written => choice' \in {choice, None}
  PROVE  RegistryInv'
<1>1. CASE written
  <2>1. config' = Snapshot(clis')
    BY <1>1 DEF Persist
  <2>2. /\ FileSound(config') /\ config' # None
        /\ \A w \in Keys(clis') : Marks(clis', w) => FileHas(config', w)
    BY <2>1, SnapshotHas
  <2> QED
    BY <2>2 DEF RegistryInv
<1>2. CASE ~written
  <2>1. config' = config
    BY <1>2 DEF Persist
  <2> QED
    BY <1>2, <2>1 DEF RegistryInv
<1> QED
  BY <1>1, <1>2

\* A step that leaves the registry alone.
LEMMA RegistryIdle == ASSUME RegistryInv, UNCHANGED registry PROVE RegistryInv'
  BY DEF RegistryInv, registry

\* The user chooses a default.
LEMMA SetDefaultInv ==
  ASSUME RegistryInv, NEW name \in CliNames, NEW written \in BOOLEAN,
         SetDefault(name, written)
  PROVE  RegistryInv'
<1> DEFINE id == ResolveId(clis, name)
<1>1. id = None \/ id \in Keys(clis)
  BY DEF ResolveId
<1>2. Keys(clis) \subseteq CliIds
  BY EntryType DEF RegistryInv, ListSound, Keys
<1> HIDE DEF id
<1>3. CASE id = None
  BY <1>3, RegistryIdle DEF SetDefault, id
<1>4. CASE id # None
  <2>1. /\ clis' = MakeDefault(clis, id) /\ Persist(clis', written)
        /\ choice' = (IF written THEN id ELSE None) /\ scans' = scans
    BY <1>4 DEF SetDefault, id
  <2>2. /\ ListSound(clis') /\ Keys(clis') = Keys(clis) /\ Marks(clis', id)
    BY <2>1, MakeDefaultMarks DEF RegistryInv
  <2>3. choice' \in CliIds \cup {None} /\ (choice' # None => choice' = id)
    BY <1>1, <1>2, <1>4, <2>1
  <2>4. /\ choice' # None => choice' \in Keys(clis') /\ Marks(clis', choice')
        /\ ~written => choice' \in {choice, None}
    BY <1>1, <1>4, <2>1, <2>2, <2>3
  <2> QED
    BY <2>1, <2>2, <2>3, <2>4, PersistInv
<1> QED
  BY <1>3, <1>4

\* The user adds an entry, or removes one.
LEMMA AddCustomInv ==
  ASSUME RegistryInv, NEW id \in Customs, NEW written \in BOOLEAN, AddCustom(id, written)
  PROVE  RegistryInv'
<1>1. /\ id \notin Keys(clis) /\ clis' = Append(clis, Entry(id, TRUE))
      /\ Persist(clis', written) /\ UNCHANGED <<scans, choice>>
  BY DEF AddCustom
<1>2. /\ ListSound(clis') /\ Keys(clis) \subseteq Keys(clis')
      /\ \A w \in Keys(clis) : Marks(clis, w) => Marks(clis', w)
  BY <1>1, AppendSound DEF RegistryInv
<1> QED
  BY <1>1, <1>2, PersistInv DEF RegistryInv

LEMMA RemoveCustomInv ==
  ASSUME RegistryInv, NEW id \in Customs, NEW written \in BOOLEAN, RemoveCustom(id, written)
  PROVE  RegistryInv'
<1>1. CASE id \notin Keys(clis) \cap Customs
  BY <1>1, RegistryIdle DEF RemoveCustom
<1>2. CASE id \in Keys(clis) \cap Customs
  <2>1. /\ clis' = MapDelete(clis, id) /\ Persist(clis', written)
        /\ choice' = (IF choice = id THEN None ELSE choice) /\ scans' = scans
    BY <1>2 DEF RemoveCustom
  <2>2. /\ ListSound(clis')
        /\ \A w \in Keys(clis) : w # id => w \in Keys(clis')
        /\ \A w : Marks(clis, w) => Marks(clis', w)
    BY <2>1, DeleteSound DEF RegistryInv
  <2> QED
    BY <2>1, <2>2, PersistInv DEF RegistryInv
<1> QED
  BY <1>1, <1>2

\* The editor reports: a choice that is there stays the default.
LEMMA ReportInv ==
  ASSUME RegistryInv, NEW detected, ApplyExtensionReport(detected)
  PROVE  RegistryInv'
<1> DEFINE seen == [i \in DOMAIN clis |->
                      [clis[i] EXCEPT !.detected = (clis[i].id \in detected)]]
           found == FindId(seen, {i \in DOMAIN seen : seen[i].detected})
<1>1. /\ clis' = IF DefaultOf(seen) = None /\ found # None
                 THEN MakeDefault(seen, found) ELSE seen
      /\ UNCHANGED <<config, scans, choice>>
  BY DEF ApplyExtensionReport
<1> HIDE DEF found
<1>2. DOMAIN seen = DOMAIN clis /\ seen = [i \in DOMAIN clis |-> seen[i]]
  OBVIOUS
<1>3. ASSUME NEW i \in DOMAIN clis
      PROVE  /\ seen[i] \in Cli /\ seen[i].id = clis[i].id
             /\ seen[i].isCustom = clis[i].isCustom
             /\ seen[i].isDefault = clis[i].isDefault
  <2> DEFINE d == clis[i].id \in detected
  <2>1. seen[i] = [clis[i] EXCEPT !.detected = d] /\ d \in BOOLEAN
    OBVIOUS
  <2>2. clis[i] \in Cli
    BY EntryType DEF RegistryInv, ListSound
  <2> HIDE DEF d, seen
  <2> QED
    BY <2>1, <2>2 DEF Cli
<1> HIDE DEF seen
<1>4. ListSound(seen) /\ Keys(seen) = Keys(clis)
  BY <1>2, <1>3, FlagsSound DEF RegistryInv
<1>5. ListSound(clis') /\ Keys(clis') = Keys(clis)
  BY <1>1, <1>4, MakeDefaultMarks
<1>6. ASSUME choice # None PROVE Marks(clis', choice)
  <2>1. choice \in Keys(seen) /\ Marks(seen, choice)
    BY <1>2, <1>3, <1>4, <1>6 DEF RegistryInv, Marks
  <2>2. DefaultOf(seen) = choice
    BY <1>4, <2>1, DefaultIsMarked
  <2> QED
    BY <1>1, <1>6, <2>1, <2>2
<1> QED
  BY <1>1, <1>5, <1>6 DEF RegistryInv

\* A command of a detection ends.
LEMMA CheckedInv ==
  ASSUME RegistryInv, NEW i \in DOMAIN scans, NEW id \in scans[i], Checked(i, id)
  PROVE  RegistryInv'
<1>1. UNCHANGED <<config, choice>> /\ clis' = [j \in DOMAIN clis |-> clis'[j]]
      /\ DOMAIN clis' = DOMAIN clis
  BY DEF Checked
<1>2. ASSUME NEW j \in DOMAIN clis
      PROVE  /\ clis'[j] \in Cli /\ clis'[j].id = clis[j].id
             /\ clis'[j].isCustom = clis[j].isCustom
             /\ clis'[j].isDefault = clis[j].isDefault
  <2> DEFINE d == id \in Local
  <2>1. clis'[j] = IF clis[j].id = id THEN [clis[j] EXCEPT !.detected = d] ELSE clis[j]
    BY DEF Checked
  <2>2. clis[j] \in Cli /\ d \in BOOLEAN
    BY EntryType DEF RegistryInv, ListSound
  <2> HIDE DEF d
  <2>3. CASE clis[j].id = id
    <3>1. clis'[j] = [clis[j] EXCEPT !.detected = d]
      BY <2>1, <2>3
    <3> QED
      BY <2>2, <3>1 DEF Cli
  <2>4. CASE clis[j].id # id
    BY <2>1, <2>2, <2>4
  <2> QED
    BY <2>3, <2>4
<1>3. ListSound(clis') /\ Keys(clis') = Keys(clis)
  BY <1>1, <1>2, FlagsSound DEF RegistryInv
<1>4. ASSUME choice # None PROVE Marks(clis', choice)
  BY <1>1, <1>2, <1>4 DEF RegistryInv, Marks
<1>5. scans' \in Seq(SUBSET CliIds)
  <2>0. scans \in Seq(SUBSET CliIds)
    BY DEF RegistryInv
  <2>1. CASE scans[i] = {id}
    BY <2>0, <2>1, RemoveAtIsShift DEF Checked
  <2>2. CASE scans[i] # {id}
    <3> DEFINE left == scans[i] \ {id}
    <3>1. scans' = [scans EXCEPT ![i] = left] /\ left \in SUBSET CliIds
      BY <2>0, <2>2 DEF Checked
    <3> HIDE DEF left
    <3> QED
      BY <2>0, <3>1
  <2> QED
    BY <2>1, <2>2
<1> QED
  BY <1>1, <1>3, <1>4, <1>5 DEF RegistryInv

\* The ids of a sound list.
LEMMA KeysAreIds == ASSUME NEW m, ListSound(m) PROVE Keys(m) \in SUBSET CliIds
  BY EntryType DEF ListSound, Keys

LEMMA DetectAllInv == ASSUME RegistryInv, DetectAll PROVE RegistryInv'
<1>1. scans' = Append(scans, Keys(clis)) /\ UNCHANGED <<clis, config, choice>>
  BY DEF DetectAll
<1>2. scans \in Seq(SUBSET CliIds) /\ Keys(clis) \in SUBSET CliIds
  BY KeysAreIds DEF RegistryInv
<1>3. scans' \in Seq(SUBSET CliIds)
  BY <1>1, <1>2
<1> QED
  BY <1>1, <1>3 DEF RegistryInv

\* The agent starts again.
LEMMA RegistryRestartInv ==
  ASSUME RegistryInv, NEW f \in {config, None}, RegistryRestart(f)
  PROVE  RegistryInv'
<1>1. /\ config' = f /\ clis' = Load(f) /\ scans' = <<Keys(clis')>>
      /\ choice' = IF f = config THEN choice ELSE None
  BY DEF RegistryRestart
<1>2. f = None \/ FileSound(f)
  BY DEF RegistryInv
<1>3. /\ ListSound(clis')
      /\ f # None => \A w \in CliIds : FileHas(f, w) => w \in Keys(clis') /\ Marks(clis', w)
  BY <1>1, <1>2, LoadHas
<1>4. scans' \in Seq(SUBSET CliIds)
  BY <1>1, <1>3, KeysAreIds
<1>5. ASSUME choice' # None
      PROVE  /\ choice' = choice /\ f = config /\ config # None
             /\ choice \in CliIds /\ FileHas(f, choice)
  BY <1>1, <1>5 DEF RegistryInv
<1> QED
  BY <1>1, <1>2, <1>3, <1>4, <1>5 DEF RegistryInv

\* The registry as the agent first starts.
LEMMA InitRegistryInv == Init => RegistryInv
<1> SUFFICES ASSUME Init PROVE RegistryInv
  OBVIOUS
<1>1. clis = Load(None) /\ scans = <<Keys(clis)>> /\ config = None /\ choice = None
  BY DEF Init, InitRegistry
<1>2. ListSound(clis)
  BY <1>1, LoadHas
<1> QED
  BY <1>1, <1>2, KeysAreIds DEF RegistryInv

\* Every step keeps the invariant of the registry.
LEMMA NextRegistryInv == RegistryInv /\ [Next]_vars => RegistryInv'
<1> SUFFICES ASSUME RegistryInv, [Next]_vars PROVE RegistryInv'
  OBVIOUS
<1>1. CASE \E written \in BOOLEAN :
             HandleDefault(written) \/ HandleAdd(written) \/ HandleRemove(written)
  BY <1>1, SetDefaultInv, AddCustomInv, RemoveCustomInv
  DEF HandleDefault, HandleAdd, HandleRemove
<1>2. CASE Detected
  BY <1>2, CheckedInv DEF Detected
<1>3. CASE CliReport
  BY <1>3, ReportInv DEF CliReport
<1>4. CASE HandleDetect
  BY <1>4, DetectAllInv DEF HandleDetect
<1>5. CASE Restart(config, file) \/ Restart(None, file) \/ Restart(config, {})
  BY <1>5, RegistryRestartInv DEF Restart
<1>6. CASE \/ OpenPage \/ DetectClis \/ ChooseCli \/ AddCli \/ RemoveCli
           \/ HandleList \/ HandleAnswer \/ HandleUpdate
           \/ \E written \in BOOLEAN : Push(written)
  BY <1>6, RegistryIdle
  DEF OpenPage, DetectClis, ChooseCli, AddCli, RemoveCli, Ask, HandleList,
      HandleAnswer, HandleUpdate, Push
<1>7. CASE UNCHANGED vars
  BY <1>7, RegistryIdle DEF vars
<1> QED
  BY <1>1, <1>2, <1>3, <1>4, <1>5, <1>6, <1>7 DEF Next

LEMMA RegistryInvHolds == Spec => []RegistryInv
<1> QED
  BY InitRegistryInv, NextRegistryInv, PTL DEF Spec

\* The default a user chose, and no other entry, is marked as the default,
\* through reports, detections that overlap, entries that come and go, files
\* that are not written and restarts (cliRegistry.ts:65-73).
THEOREM ChoiceAlwaysKept == Spec => []ChoiceIsKept
<1>1. ASSUME RegistryInv, choice # None
      PROVE  {c \in ToSet(clis) : c.isDefault} = {At(clis, choice)}
  <2>1. /\ clis \in Seq(Cli) /\ UniqueKeys(clis)
        /\ choice \in Keys(clis) /\ Marks(clis, choice)
    BY <1>1 DEF RegistryInv, ListSound
  <2> DEFINE p == Position(clis, choice)
  <2>2. p \in DOMAIN clis /\ clis[p].id = choice
    BY <2>1, PositionOfKey
  <2>3. At(clis, choice) = clis[p]
    BY DEF At
  <2>4. ToSet(clis) = {clis[i] : i \in DOMAIN clis}
    BY DEF ToSet
  <2> HIDE DEF p
  <2>5. clis[p] \in ToSet(clis) /\ clis[p].isDefault
    BY <2>1, <2>2, <2>4 DEF Marks
  <2>6. ASSUME NEW c \in ToSet(clis), c.isDefault PROVE c = clis[p]
    <3>1. PICK i \in DOMAIN clis : c = clis[i]
      BY <2>4
    <3>2. i = p
      BY <2>1, <2>2, <2>6, <3>1 DEF Marks, UniqueKeys
    <3> QED
      BY <3>1, <3>2
  <2> QED
    BY <2>3, <2>5, <2>6
<1>2. RegistryInv => ChoiceIsKept
  BY <1>1 DEF ChoiceIsKept
<1> QED
  BY <1>2, RegistryInvHolds, PTL

-----------------------------------------------------------------------------
(* The types.                                                              *)

PageInv ==
  /\ requests \in 0 .. MaxRequests
  /\ cliList \in BOOLEAN
  /\ call \in Calls \cup {"detecting", None}
  /\ answer \in {None} \cup [to : Calls, fresh : BOOLEAN]
  /\ updates \in Seq(BOOLEAN)

\* News that ages is news, and so is news with some more behind it.
LEMMA AgedType ==
  ASSUME NEW news \in Seq(BOOLEAN), NEW n \in Nat
  PROVE  /\ Aged(news) \in Seq(BOOLEAN)
         /\ Aged(news) \o [i \in 1 .. n |-> TRUE] \in Seq(BOOLEAN)
<1>1. Aged(news) \in Seq(BOOLEAN)
  <2> DEFINE b(i) == news[i] /\ Same
  <2>1. Len(news) \in Nat /\ DOMAIN news = 1 .. Len(news)
    OBVIOUS
  <2>2. Aged(news) = [i \in 1 .. Len(news) |-> b(i)]
    BY <2>1 DEF Aged
  <2>3. \A i \in 1 .. Len(news) : b(i) \in BOOLEAN
    OBVIOUS
  <2> HIDE DEF b
  <2> QED
    BY <2>1, <2>2, <2>3
<1>2. [i \in 1 .. n |-> TRUE] \in Seq(BOOLEAN)
  OBVIOUS
<1> QED
  BY <1>1, <1>2, ConcatProperties

\* What can become of the answer on its way.
LEMMA AnswerType ==
  ASSUME PageInv
  PROVE  /\ \A to \in Calls, fresh \in BOOLEAN :
              Answer(to, fresh) => /\ call' \in Calls \cup {"detecting", None}
                                   /\ answer' \in {None} \cup [to : Calls, fresh : BOOLEAN]
         /\ Waiting => /\ call' \in Calls \cup {"detecting", None}
                       /\ answer' \in {None} \cup [to : Calls, fresh : BOOLEAN]
<1>1. ASSUME Waiting, answer # None
      PROVE  answer' \in [to : Calls, fresh : BOOLEAN]
  <2> DEFINE f == answer.fresh /\ Same
  <2>1. answer \in [to : Calls, fresh : BOOLEAN]
    BY <1>1 DEF PageInv
  <2>2. answer' = [answer EXCEPT !.fresh = f] /\ f \in BOOLEAN
    BY <1>1 DEF Waiting
  <2> HIDE DEF f
  <2> QED
    BY <2>1, <2>2
<1> QED
  BY <1>1 DEF PageInv, Answer, Waiting

\* Every step keeps the types of the page.
LEMMA NextPageInv == PageInv /\ [Next]_vars => PageInv'
<1> SUFFICES ASSUME PageInv, [Next]_vars PROVE PageInv'
  OBVIOUS
<1> DEFINE AnswerOK == /\ call' \in Calls \cup {"detecting", None}
                       /\ answer' \in {None} \cup [to : Calls, fresh : BOOLEAN]
<1>1. /\ MaxRequests \in Nat /\ requests \in Nat
      /\ updates \in Seq(BOOLEAN)
      /\ Quiet => updates' \in Seq(BOOLEAN)
      /\ \A n \in Nat : Broadcast(n) => updates' \in Seq(BOOLEAN)
  <2>1. MaxRequests \in Nat /\ requests \in Nat
    BY ServicesAssumption DEF PageInv
  <2>2. updates \in Seq(BOOLEAN)
    BY DEF PageInv
  <2>3. Aged(updates) \in Seq(BOOLEAN)
    BY <2>2, AgedType
  <2>4. ASSUME NEW n \in Nat, Broadcast(n) PROVE updates' \in Seq(BOOLEAN)
    <3>1. updates' = Aged(updates) \o [i \in 1 .. n |-> TRUE]
      BY <2>4 DEF Broadcast
    <3>2. Aged(updates) \o [i \in 1 .. n |-> TRUE] \in Seq(BOOLEAN)
      BY <2>2, AgedType
    <3> QED
      BY <3>1, <3>2
  <2> QED
    BY <2>1, <2>2, <2>3, <2>4 DEF Quiet
<1>2. ASSUME NEW c \in Calls, Ask(c) PROVE PageInv'
  BY <1>1, <1>2 DEF Ask, Counted, PageInv
<1>3. CASE OpenPage \/ DetectClis \/ ChooseCli \/ AddCli \/ RemoveCli
  BY <1>2, <1>3 DEF OpenPage, DetectClis, ChooseCli, AddCli, RemoveCli, Calls
<1>4. CASE HandleList
  BY <1>4, AnswerType DEF HandleList, PageInv, Calls
<1>5. CASE HandleDetect
  BY <1>5 DEF HandleDetect, PageInv
<1>6. ASSUME NEW written \in BOOLEAN,
             HandleDefault(written) \/ HandleAdd(written) \/ HandleRemove(written)
      PROVE  PageInv'
  <2>1. AnswerOK
    BY <1>6, AnswerType DEF HandleDefault, HandleAdd, HandleRemove, Calls, PageInv
  <2>2. cliList' \in BOOLEAN /\ requests' = requests /\ Quiet
    BY <1>6 DEF HandleDefault, HandleAdd, HandleRemove
  <2> QED
    BY <1>1, <2>1, <2>2 DEF PageInv
<1>7. CASE Detected
  <2>1. AnswerOK
    BY <1>7, AnswerType DEF Detected, Calls
  <2>2. cliList' \in BOOLEAN /\ requests' = requests /\ (Quiet \/ Broadcast(1))
    BY <1>7 DEF Detected
  <2> QED
    BY <1>1, <2>1, <2>2 DEF PageInv
<1>8. CASE CliReport
  <2>1. AnswerOK
    BY <1>8, AnswerType DEF CliReport
  <2>2. cliList' \in BOOLEAN /\ Counted /\ Broadcast(2)
    BY <1>8 DEF CliReport
  <2>3. requests' \in 0 .. MaxRequests
    BY <1>1, <2>2 DEF Counted, PageInv
  <2> QED
    BY <1>1, <2>1, <2>2, <2>3 DEF PageInv
<1>9. CASE HandleAnswer
  <2>1. answer.fresh \in BOOLEAN
    BY <1>9 DEF HandleAnswer, PageInv
  <2>2. cliList' \in BOOLEAN
    BY <1>9, <2>1 DEF HandleAnswer, PageInv
  <2> QED
    BY <1>9, <2>2 DEF HandleAnswer, PageInv
<1>10. CASE HandleUpdate
  <2>1. Head(updates) \in BOOLEAN /\ Tail(updates) \in Seq(BOOLEAN)
    BY <1>1, <1>10, HeadTailProperties DEF HandleUpdate
  <2> QED
    BY <1>10, <2>1 DEF HandleUpdate, PageInv
<1>11. CASE \E written \in BOOLEAN : Push(written)
  BY <1>1, <1>11 DEF Push, Counted, PageInv, page
<1>12. CASE \E cliFile, pushFile \in {config, None, file, {}} : Restart(cliFile, pushFile)
  <2>1. updates' = <<>> /\ updates' \in Seq(BOOLEAN)
    BY <1>12 DEF Restart
  <2> QED
    BY <1>12, <2>1 DEF Restart, PageInv
<1>13. CASE UNCHANGED vars
  BY <1>13 DEF vars, page, PageInv
<1> QED
  BY <1>3, <1>4, <1>5, <1>6, <1>7, <1>8, <1>9, <1>10, <1>11, <1>12, <1>13 DEF Next

\* The variables have their types: the list is one of entries and the file
\* one of a list, a scan waits for entries, no more requests, endpoints and
\* sends than the bounds allow.
THEOREM ServicesTypeCorrect == Spec => []TypeOK
<1>1. Init => PageInv
  <2> SUFFICES ASSUME Init PROVE PageInv
    OBVIOUS
  <2>1. updates = <<>> /\ updates \in Seq(BOOLEAN)
    BY DEF Init
  <2>2. requests \in 0 .. MaxRequests
    BY ServicesAssumption DEF Init
  <2>3. cliList \in BOOLEAN /\ call = None /\ answer = None
    BY DEF Init
  <2> QED
    BY <2>1, <2>2, <2>3 DEF PageInv
<1>2. RegistryInv /\ PushInv /\ PageInv => TypeOK
  BY DEF RegistryInv, ListSound, FileSound, RegistryTypeOK, PushInv, PageInv, TypeOK
<1> QED
  BY <1>1, <1>2, NextPageInv, RegistryInvHolds, PushInvHolds, PTL DEF Spec

=============================================================================
