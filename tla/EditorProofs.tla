---------------------------- MODULE EditorProofs ----------------------------
(***************************************************************************)
(* Theorems about EditorLink, for any windows, any number of connections   *)
(* of a window and any CLI adapters: the types, the adapter pool, the      *)
(* editor's adapter and its snapshot, and that no window is stranded; and  *)
(* about EditorTerminals, for any windows, sockets, messages and           *)
(* terminals: the order in which the messages of a socket are typed, that  *)
(* each is typed once, and so once in a window that has one socket.        *)
(***************************************************************************)
EXTENDS EditorLink, EditorTerminals, InsertionMapProofs

-----------------------------------------------------------------------------
(* The methods of AdapterManager.                                          *)

\* A pool whose Map has one adapter per id and whose active adapter is in it.
Sound(a) ==
  /\ a \in Pool
  /\ UniqueKeys(a.adapters)
  /\ IF a.adapters = <<>> THEN a.active = None ELSE Known(a, a.active)

\* The entries of the editor in a pool.
EditorEntries(a) == {i \in DOMAIN a.adapters : a.adapters[i].id = EditorId}

\* The first key of a Map is one of its keys, or null for an empty Map.
LEMMA FirstKeyIsKey ==
  ASSUME NEW m \in Seq(Adapter)
  PROVE  IF m = <<>> THEN FirstKey(m, None) = None
         ELSE FirstKey(m, None) \in Keys(m) /\ FirstKey(m, None) \in AdapterIds
<1>1. CASE m = <<>>
  BY <1>1 DEF FirstKey
<1>2. CASE m # <<>>
  <2>1. 1 \in DOMAIN m /\ m[1] \in Adapter
    BY <1>2
  <2> QED
    BY <1>2, <2>1 DEF FirstKey, Keys, Adapter
<1> QED
  BY <1>1, <1>2

\* tryRegister keeps a Map of CLI adapters with one entry per id.
LEMMA TryRegisterSound ==
  ASSUME NEW m \in Seq(Adapter), UniqueKeys(m), NEW id \in CliIds,
         \A i \in DOMAIN m : m[i].id # EditorId
  PROVE  /\ TryRegister(m, id) \in Seq(Adapter)
         /\ UniqueKeys(TryRegister(m, id))
         /\ \A i \in DOMAIN TryRegister(m, id) : TryRegister(m, id)[i].id # EditorId
<1> DEFINE e == [id |-> id, pipe |-> None]
<1>1. e \in Adapter /\ e.id # EditorId
  BY DEF Adapter, AdapterIds, CliIds, EditorId
<1>2. CASE id \in Installed
  <2>1. TryRegister(m, id) = MapSet(m, e)
    BY <1>2 DEF TryRegister
  <2> HIDE DEF e
  <2>2. /\ MapSet(m, e) \in Seq(Adapter)
        /\ UniqueKeys(MapSet(m, e))
        /\ \A j \in DOMAIN MapSet(m, e) :
             \/ MapSet(m, e)[j] = e
             \/ /\ MapSet(m, e)[j].id # e.id
                /\ \E i \in DOMAIN m : MapSet(m, e)[j] = m[i]
    BY <1>1, MapSetProperties
  <2> QED
    BY <1>1, <2>1, <2>2
<1>3. CASE id \notin Installed
  BY <1>3 DEF TryRegister
<1> QED
  BY <1>2, <1>3

\* The constructor leaves a sound pool without an editor.
LEMMA NewPoolSound == Sound(NewPool) /\ EditorEntries(NewPool) = {}
<1> DEFINE codex == TryRegister(<<>>, "codex-cli")
           found == TryRegister(codex, "claude-cli")
<1>1. /\ codex \in Seq(Adapter)
      /\ UniqueKeys(codex)
      /\ \A i \in DOMAIN codex : codex[i].id # EditorId
  <2>1. /\ <<>> \in Seq(Adapter) /\ DOMAIN <<>> = {}
        /\ "codex-cli" \in CliIds
    BY DEF CliIds
  <2>2. UniqueKeys(<<>>)
    BY <2>1 DEF UniqueKeys
  <2> QED
    BY <2>1, <2>2, TryRegisterSound
<1> HIDE DEF codex
<1>2. /\ found \in Seq(Adapter)
      /\ UniqueKeys(found)
      /\ \A i \in DOMAIN found : found[i].id # EditorId
  BY <1>1, TryRegisterSound DEF CliIds
<1>3. NewPool = [adapters |-> found, active |-> FirstKey(found, None)]
  BY DEF NewPool, codex
<1> HIDE DEF found
<1>4. NewPool \in Pool
  BY <1>2, <1>3, FirstKeyIsKey DEF Pool
<1>5. IF found = <<>> THEN NewPool.active = None ELSE Known(NewPool, NewPool.active)
  BY <1>2, <1>3, FirstKeyIsKey DEF Known
<1> QED
  BY <1>2, <1>3, <1>4, <1>5 DEF Sound, EditorEntries

\* registerIpcAdapter: the editor's adapter is the one of this pipe.
LEMMA RegisterSound ==
  ASSUME NEW a, Sound(a), NEW p \in Pipe
  PROVE  /\ Sound(RegisterIpcAdapter(a, p))
         /\ \A i \in EditorEntries(RegisterIpcAdapter(a, p)) :
              RegisterIpcAdapter(a, p).adapters[i].pipe = p
<1> DEFINE e == [id |-> EditorId, pipe |-> p]
           n == MapSet(a.adapters, e)
<1>1. e \in Adapter /\ e.id = EditorId
  BY DEF Adapter, AdapterIds
<1>2. a.adapters \in Seq(Adapter) /\ UniqueKeys(a.adapters)
  BY DEF Sound, Pool
<1>3. /\ n \in Seq(Adapter)
      /\ UniqueKeys(n)
      /\ n # <<>>
      /\ \A j \in DOMAIN n :
           \/ n[j] = e
           \/ n[j].id # e.id /\ \E i \in DOMAIN a.adapters : n[j] = a.adapters[i]
      /\ e.id \in Keys(n)
  BY <1>1, <1>2, MapSetProperties
<1>4. RegisterIpcAdapter(a, p) = [adapters |-> n, active |-> EditorId]
  BY DEF RegisterIpcAdapter
<1> HIDE DEF n
<1> QED
  BY <1>1, <1>3, <1>4 DEF Sound, Pool, Known, EditorEntries, AdapterIds

\* unregister keeps a pool sound and takes the editor's adapter out.
LEMMA UnregisterSound ==
  ASSUME NEW a, Sound(a)
  PROVE  /\ Sound(Unregister(a, EditorId))
         /\ EditorEntries(Unregister(a, EditorId)) = {}
<1> DEFINE n == MapDelete(a.adapters, EditorId)
           act == IF a.active = EditorId THEN FirstKey(n, None) ELSE a.active
<1>1. /\ a.adapters \in Seq(Adapter) /\ UniqueKeys(a.adapters)
      /\ a.active \in AdapterIds \cup {None}
  BY DEF Sound, Pool
<1>2. /\ n \in Seq(Adapter)
      /\ UniqueKeys(n)
      /\ \A j \in DOMAIN n :
           /\ n[j].id # EditorId
           /\ \E i \in DOMAIN a.adapters : n[j] = a.adapters[i]
      /\ \A i \in DOMAIN a.adapters : a.adapters[i].id # EditorId =>
           \E j \in DOMAIN n : n[j] = a.adapters[i]
  BY <1>1, MapDeleteProperties
<1>3. Unregister(a, EditorId) = [adapters |-> n, active |-> act]
  BY DEF Unregister
<1>4. act \in AdapterIds \cup {None}
  BY <1>1, <1>2, FirstKeyIsKey
<1>5. IF n = <<>> THEN act = None ELSE act \in Keys(n)
  <2>1. CASE a.active = EditorId
    BY <2>1, <1>2, FirstKeyIsKey
  <2>2. CASE a.active # EditorId /\ a.adapters = <<>>
    <3>1. a.active = None /\ DOMAIN a.adapters = {}
      BY <2>2 DEF Sound
    <3>2. DOMAIN n = {}
      BY <3>1, <1>2
    <3>3. n = <<>>
      BY <3>2, <1>2
    <3> QED
      BY <2>2, <3>1, <3>3
  <2>3. CASE a.active # EditorId /\ a.adapters # <<>>
    <3>1. PICK i \in DOMAIN a.adapters : a.adapters[i].id = a.active
      BY <2>3 DEF Sound, Known, Keys
    <3>2. PICK j \in DOMAIN n : n[j] = a.adapters[i]
      BY <3>1, <2>3, <1>2
    <3>3. n # <<>> /\ a.active \in Keys(n)
      BY <3>1, <3>2, <1>2 DEF Keys
    <3> QED
      BY <2>3, <3>3
  <2> QED
    BY <2>1, <2>2, <2>3
<1> HIDE DEF n, act
<1> QED
  BY <1>2, <1>3, <1>4, <1>5 DEF Sound, Pool, Known, EditorEntries

\* setActive changes the active adapter to one of the pool.
LEMMA SetActiveSound ==
  ASSUME NEW a, Sound(a), NEW id \in AdapterIds, Known(a, id)
  PROVE  Sound(SetActive(a, id)) /\ SetActive(a, id).adapters = a.adapters
<1>1. SetActive(a, id) = [a EXCEPT !.active = id]
  BY DEF SetActive
<1>2. a \in Pool
  BY DEF Sound
<1>3. /\ SetActive(a, id) \in Pool
      /\ SetActive(a, id).adapters = a.adapters
      /\ SetActive(a, id).active = id
  BY <1>1, <1>2 DEF Pool
<1>4. a.adapters # <<>>
  BY DEF Known, Keys
<1> QED
  BY <1>3, <1>4 DEF Sound, Known

-----------------------------------------------------------------------------
(* Types.                                                                  *)

\* A pipe belongs to a window, and null is no pipe.
LEMMA PipeFacts ==
  /\ \A p \in Pipe : Owner(p) \in Windows
  /\ \A w \in Windows : Own(w) \subseteq Pipe
  /\ None \notin Pipe
  BY LinkAssumption, PoolAssumption DEF Owner, Own

\* Dialing takes a pipe of the window.
LEMMA DialType ==
  ASSUME TypeOK, NEW w \in Windows, Dial(w)
  PROVE  /\ near' \in [Pipe -> {"free", "dialing", "open", "destroyed"}]
         /\ \E p \in Own(w) : near[p] = "free" /\ near' = [near EXCEPT ![p] = "dialing"]
  BY PipeFacts DEF Dial, TypeOK, Free

\* The handlers of a client leave its fields of their types.
LEMMA DroppedType ==
  ASSUME NEW c \in Client
  PROVE  Dropped(c) \in Client
<1>1. /\ c.should \in BOOLEAN /\ c.timer \in BOOLEAN /\ c.stray \in Nat
      /\ c.stray \in 0 .. MaxStray /\ MaxStray \in Nat
  BY LinkAssumption DEF Client
<1> DEFINE n == IF c.should /\ c.timer /\ c.stray < MaxStray THEN c.stray + 1
                ELSE c.stray
<1>2. n \in 0 .. MaxStray
  BY <1>1
<1>3. Dropped(c) = [c EXCEPT !.connected = FALSE, !.socket = None,
                             !.timer = c.should, !.stray = n]
  BY DEF Dropped
<1> HIDE DEF n
<1> QED
  BY <1>1, <1>2, <1>3 DEF Client

\* The steps of a window keep the types.
LEMMA WindowType ==
  ASSUME TypeOK, NEW w \in Windows,
         Toggle(w) \/ RetryTimer(w) \/ StrayTimer(w) \/ Report(w)
  PROVE  TypeOK'
<1>1. CASE Connect(w)
  <2>1. near' \in [Pipe -> {"free", "dialing", "open", "destroyed"}]
    BY <1>1, DialType DEF Connect
  <2>2. [win[w] EXCEPT !.should = TRUE] \in Client
    BY DEF TypeOK, Client
  <2>3. win' = [win EXCEPT ![w] = [win[w] EXCEPT !.should = TRUE]]
    BY <1>1 DEF Connect
  <2>4. win' \in [Windows -> Client]
    BY <2>2, <2>3 DEF TypeOK
  <2>5. UNCHANGED <<wire, far, reg, pool, ide, running>>
    BY <1>1 DEF Connect, server
  <2> QED
    BY <2>1, <2>4, <2>5 DEF TypeOK
<1>2. CASE Disconnect(w)
  BY <1>2, PipeFacts DEF TypeOK, Disconnect, server, Client
<1>3. ASSUME Retry(w) PROVE near' \in [Pipe -> {"free", "dialing", "open", "destroyed"}]
  BY <1>3, DialType DEF Retry, TypeOK
<1>4. CASE RetryTimer(w)
  BY <1>3, <1>4 DEF TypeOK, RetryTimer, Retry, server, Client
<1>5. CASE StrayTimer(w)
  <2>1. win[w].stray \in 0 .. MaxStray /\ win[w].stray > 0 /\ MaxStray \in Nat
    BY <1>5, LinkAssumption DEF TypeOK, StrayTimer, Client
  <2>2. win[w].stray - 1 \in 0 .. MaxStray
    BY <2>1
  <2>3. win' \in [Windows -> Client]
    BY <1>5, <2>2 DEF TypeOK, StrayTimer, Client
  <2> QED
    BY <1>3, <1>5, <2>3 DEF TypeOK, StrayTimer, Retry, server
<1>6. CASE Report(w)
  <2>1. win[w].socket \in Pipe \cup {None} /\ <<"snapshot">> \in Seq({"snapshot", "register"})
    BY DEF TypeOK, Client
  <2>2. wire' \in [Pipe -> Seq({"snapshot", "register"})]
    BY <1>6, <2>1 DEF TypeOK, Report
  <2> QED
    BY <1>6, <2>2 DEF TypeOK, Report, server
<1> QED
  BY <1>1, <1>2, <1>4, <1>5, <1>6 DEF Toggle

\* The steps of a pipe keep the types, given a sound pool.
LEMMA PipeType ==
  ASSUME TypeOK, Sound(pool), NEW p \in Pipe,
         Connected(p) \/ Closed(p) \/ Accept(p) \/ Read(p) \/ PipeClosed(p)
  PROVE  TypeOK'
<1>1. CASE Connected(p)
  <2>1. Greeting \in Seq({"snapshot", "register"})
    BY DEF Greeting
  <2>2. wire' \in [Pipe -> Seq({"snapshot", "register"})]
    BY <1>1, <2>1 DEF TypeOK, Connected
  <2>3. win' \in [Windows -> Client]
    <3> DEFINE o == Owner(p)
               c == [win[o] EXCEPT !.connected = TRUE, !.socket = p]
    <3>1. o \in Windows /\ win[o] \in Client
      BY PipeFacts DEF TypeOK
    <3>2. c \in Client
      BY <3>1 DEF Client
    <3>3. win' = [win EXCEPT ![o] = c]
      BY <1>1, <3>1 DEF TypeOK, Connected
    <3> HIDE DEF o, c
    <3> QED
      BY <3>1, <3>2, <3>3 DEF TypeOK
  <2> QED
    BY <1>1, <2>2, <2>3 DEF TypeOK, Connected
<1>2. CASE Closed(p)
  <2>1. Dropped(win[Owner(p)]) \in Client
    BY PipeFacts, DroppedType DEF TypeOK
  <2>2. win' \in [Windows -> Client]
    BY <1>2, <2>1 DEF TypeOK, Closed
  <2> QED
    BY <1>2, <2>2 DEF TypeOK, Closed, server
<1>3. CASE Accept(p)
  BY <1>3 DEF TypeOK, Accept, client
<1>4. CASE Read(p)
  <2>1. wire' \in [Pipe -> Seq({"snapshot", "register"})]
    <3>1. Tail(wire[p]) \in Seq({"snapshot", "register"})
      BY <1>4 DEF TypeOK, Read
    <3> QED
      BY <1>4, <3>1 DEF TypeOK, Read
  <2>2. pool' \in Pool
    BY <1>4, RegisterSound DEF Read, Register, Snapshot, Sound
  <2> QED
    BY <1>4, <2>1, <2>2 DEF TypeOK, Read, Register, Snapshot, client
<1>5. CASE PipeClosed(p)
  <2>1. pool' \in Pool
    BY <1>5, UnregisterSound DEF PipeClosed, Sound
  <2> QED
    BY <1>5, <2>1 DEF TypeOK, PipeClosed, client
<1> QED
  BY <1>1, <1>2, <1>3, <1>4, <1>5

-----------------------------------------------------------------------------
(* The invariant.  The adapter of the editor belongs to the pipe that       *)
(* registered last, so that any registered pipe that closes takes it away;  *)
(* a registration is on the wire only behind a snapshot or after it.        *)

LinkInv ==
  /\ TypeOK
  /\ Sound(pool)
  /\ \A p \in Pipe : p \in reg => far[p] = "open"
  /\ running => \A i \in EditorEntries(pool) : pool.adapters[i].pipe \in reg
  /\ ~running => \A p \in Pipe : far[p] = "none"
  /\ \A p \in Pipe : near[p] = "dialing" => far[p] = "none"
  /\ \A p \in Pipe : wire[p] \in {<<>>, <<"snapshot">>, <<"register">>, Greeting}
  /\ \A p \in Pipe : wire[p] = <<"register">> => ide
  /\ \A p \in Pipe : wire[p] # <<>> => far[p] # "none"
  /\ running /\ EditorEntries(pool) # {} => ide

\* The invariant holds at the start.
LEMMA InitLinkInv == Init => LinkInv
<1> SUFFICES ASSUME Init PROVE LinkInv
  OBVIOUS
<1>1. Sound(pool) /\ EditorEntries(pool) = {}
  BY NewPoolSound DEF Init
<1>2. TypeOK
  <2>1. win \in [Windows -> Client]
    BY LinkAssumption DEF Init, Client
  <2>2. <<>> \in Seq({"snapshot", "register"})
    OBVIOUS
  <2> QED
    BY <1>1, <2>1, <2>2 DEF Init, TypeOK, Sound
<1> QED
  BY <1>1, <1>2 DEF Init, LinkInv

\* A step of a window that writes no line changes nothing of the server.
LEMMA WindowLinkInv ==
  ASSUME LinkInv, NEW w \in Windows,
         Toggle(w) \/ RetryTimer(w) \/ StrayTimer(w) \/ Report(w)
  PROVE  LinkInv'
<1>1. TypeOK'
  BY WindowType DEF LinkInv
<1>2. UNCHANGED server
  BY DEF Toggle, Connect, Disconnect, RetryTimer, StrayTimer, Retry, Report
<1>5. \A p \in Pipe : near'[p] = "dialing" => far'[p] = "none"
  <2>1. CASE Dial(w)
    <3>1. PICK q \in Own(w) : far[q] = "none" /\ near' = [near EXCEPT ![q] = "dialing"]
      BY <2>1 DEF Dial, Free
    <3> QED
      BY <1>2, <3>1 DEF LinkInv, TypeOK, server
  <2>2. CASE Disconnect(w)
    BY <1>2, <2>2 DEF LinkInv, TypeOK, server, Disconnect
  <2>3. CASE UNCHANGED near
    BY <1>2, <2>3 DEF LinkInv, server
  <2> QED
    BY <2>1, <2>2, <2>3
       DEF Toggle, Connect, RetryTimer, StrayTimer, Retry, Report
<1>3. CASE Report(w)
  <2>1. /\ wire' = [wire EXCEPT ![win[w].socket] = <<"snapshot">>]
        /\ far[win[w].socket] # "none"
    BY <1>3 DEF Report
  <2>2. <<"snapshot">> # <<"register">>
    OBVIOUS
  <2> QED
    BY <1>1, <1>2, <1>5, <2>1, <2>2 DEF LinkInv, TypeOK, server, Sound, Known, EditorEntries
<1>4. CASE ~Report(w)
  <2>1. UNCHANGED wire
    BY <1>4 DEF Toggle, Connect, Disconnect, RetryTimer, StrayTimer, Retry
  <2> QED
    BY <1>1, <1>2, <1>5, <2>1 DEF LinkInv, server, Sound, Known, EditorEntries
<1> QED
  BY <1>3, <1>4

\* A step of a pipe keeps the invariant.
LEMMA PipeLinkInv ==
  ASSUME LinkInv, NEW p \in Pipe,
         Connected(p) \/ Closed(p) \/ Accept(p) \/ Read(p) \/ PipeClosed(p)
  PROVE  LinkInv'
<1>0. TypeOK' /\ TypeOK /\ Sound(pool)
  BY PipeType DEF LinkInv
<1>1. CASE Connected(p)
  <2>1. /\ far' = [far EXCEPT ![p] = "backlog"]
        /\ wire' = [wire EXCEPT ![p] = Greeting]
        /\ UNCHANGED <<reg, pool, ide, running>>
        /\ running
    BY <1>1 DEF Connected
  <2>5. near[p] = "dialing" /\ near' = [near EXCEPT ![p] = "open"]
    BY <1>1 DEF Connected
  <2>6. \A q \in Pipe : near'[q] = IF q = p THEN "open" ELSE near[q]
    BY <1>0, <2>5 DEF TypeOK
  <2>2. p \notin reg
    BY <1>1 DEF LinkInv, Connected
  <2>3. \A q \in Pipe : /\ far'[q] = IF q = p THEN "backlog" ELSE far[q]
                        /\ wire'[q] = IF q = p THEN Greeting ELSE wire[q]
    BY <1>0, <2>1 DEF TypeOK
  <2>4. Greeting # <<"register">> /\ Greeting # <<>>
    BY DEF Greeting
  <2>7. Sound(pool)' /\ EditorEntries(pool)' = EditorEntries(pool)
    BY <1>0, <2>1 DEF Sound, Known, EditorEntries
  <2>8. /\ \A q \in Pipe : q \in reg' => far'[q] = "open"
        /\ \A q \in Pipe : near'[q] = "dialing" => far'[q] = "none"
        /\ \A q \in Pipe : wire'[q] \in {<<>>, <<"snapshot">>, <<"register">>, Greeting}
        /\ \A q \in Pipe : wire'[q] = <<"register">> => ide'
        /\ \A q \in Pipe : wire'[q] # <<>> => far'[q] # "none"
    <3>1. \A q \in Pipe : q \in reg' => far'[q] = "open"
      BY <2>1, <2>2, <2>3 DEF LinkInv
    <3>2. \A q \in Pipe : near'[q] = "dialing" => far'[q] = "none"
      BY <2>3, <2>6 DEF LinkInv
    <3>3. \A q \in Pipe : wire'[q] \in {<<>>, <<"snapshot">>, <<"register">>, Greeting}
      BY <2>3 DEF LinkInv
    <3>4. \A q \in Pipe : wire'[q] = <<"register">> => ide'
      BY <2>1, <2>3, <2>4 DEF LinkInv
    <3>5. \A q \in Pipe : wire'[q] # <<>> => far'[q] # "none"
      BY <2>3 DEF LinkInv
    <3> QED
      BY <3>1, <3>2, <3>3, <3>4, <3>5
  <2>9. /\ running' => \A i \in EditorEntries(pool)' : pool'.adapters[i].pipe \in reg'
        /\ running' /\ EditorEntries(pool)' # {} => ide'
    BY <2>1, <2>7 DEF LinkInv
  <2> QED
    BY <1>0, <2>1, <2>7, <2>8, <2>9 DEF LinkInv
<1>2. CASE Closed(p)
  <2>1. UNCHANGED <<wire, far, reg, pool, ide, running>>
    BY <1>2 DEF Closed, server
  <2>2. \A q \in Pipe : near'[q] = IF q = p THEN "free" ELSE near[q]
    BY <1>0, <1>2 DEF Closed, TypeOK
  <2> QED
    BY <1>0, <2>1, <2>2 DEF LinkInv, Sound, Known, EditorEntries
<1>3. CASE Accept(p)
  <2>1. far[p] = "backlog" /\ far' = [far EXCEPT ![p] = "open"] /\ running
        /\ UNCHANGED <<near, wire, reg, pool, ide, running>>
    BY <1>3 DEF Accept, client
  <2> QED
    BY <1>0, <2>1 DEF LinkInv, TypeOK, Sound, Known, EditorEntries
<1>4. CASE Read(p)
  <2>0. /\ far[p] = "open" /\ UNCHANGED <<near, far, running>>
        /\ wire' = [wire EXCEPT ![p] = Tail(@)]
        /\ wire[p] # <<>> /\ running
    BY <1>4 DEF Read, LinkInv, client
  <2>1. CASE Register(p)
    <3>1. wire[p] = <<"register">>
      BY <2>0, <2>1 DEF LinkInv, Register, Greeting
    <3>2. ide /\ UNCHANGED ide
      BY <2>1, <3>1 DEF LinkInv, Register
    <3>3. /\ Sound(pool')
          /\ \A i \in EditorEntries(pool') : pool'.adapters[i].pipe = p
      BY <1>0, <2>1, RegisterSound DEF Register
    <3>4. Tail(wire[p]) = <<>>
      BY <3>1
    <3>5. reg' = reg \cup {p}
      BY <2>1 DEF Register
    <3> QED
      BY <1>0, <2>0, <3>2, <3>3, <3>4, <3>5 DEF LinkInv, TypeOK, Sound, Known, EditorEntries
  <2>2. CASE Snapshot(p)
    <3>1. wire[p] \in {<<"snapshot">>, Greeting}
      BY <2>0, <2>2 DEF LinkInv, Snapshot
    <3>2. Tail(wire[p]) \in {<<>>, <<"register">>}
      <4>1. Tail(<<"snapshot">>) = <<>>
        OBVIOUS
      <4>2. Tail(<<"snapshot", "register">>) = <<"register">>
        OBVIOUS
      <4> QED
        BY <3>1, <4>1, <4>2 DEF Greeting
    <3>3. ide' = TRUE /\ UNCHANGED <<reg, pool>>
      BY <2>2 DEF Snapshot
    <3> QED
      BY <1>0, <2>0, <3>2, <3>3 DEF LinkInv, TypeOK, Sound, Known, EditorEntries
  <2> QED
    BY <1>4, <2>1, <2>2 DEF Read
<1>5. CASE PipeClosed(p)
  <2>1. /\ far' = [far EXCEPT ![p] = "none"] /\ reg' = reg \ {p}
        /\ wire[p] = <<>> /\ UNCHANGED <<near, wire, ide, running>>
        /\ running
    BY <1>5 DEF PipeClosed, LinkInv, client
  <2>2. CASE p \in reg
    <3>1. Sound(pool') /\ EditorEntries(pool') = {}
      BY <1>0, <1>5, <2>2, UnregisterSound DEF PipeClosed
    <3> QED
      BY <1>0, <2>1, <3>1 DEF LinkInv, TypeOK, Sound, Known, EditorEntries
  <2>3. CASE p \notin reg
    <3>1. UNCHANGED pool /\ reg' = reg
      BY <1>5, <2>1, <2>3 DEF PipeClosed
    <3> QED
      BY <1>0, <2>1, <3>1 DEF LinkInv, TypeOK, Sound, Known, EditorEntries
  <2> QED
    BY <2>2, <2>3
<1> QED
  BY <1>1, <1>2, <1>3, <1>4, <1>5

\* Every step keeps the invariant.
LEMMA NextLinkInv == LinkInv /\ [Next]_vars => LinkInv'
<1> SUFFICES ASSUME LinkInv, [Next]_vars PROVE LinkInv'
  OBVIOUS
<1>1. ASSUME NEW id \in AdapterIds, Toggled(id) PROVE LinkInv'
  <2>1. /\ Sound(pool') /\ pool'.adapters = pool.adapters
        /\ UNCHANGED <<client, wire, far, reg, ide, running>>
    BY <1>1, SetActiveSound DEF Toggled, LinkInv
  <2>2. TypeOK'
    BY <2>1 DEF LinkInv, TypeOK, Sound, client
  <2> QED
    BY <2>1, <2>2 DEF LinkInv, EditorEntries, client
<1>2. CASE Crash
  <2>1. TypeOK'
    <3>1. <<>> \in Seq({"snapshot", "register"})
      OBVIOUS
    <3> QED
      BY <1>2, <3>1 DEF LinkInv, TypeOK, Crash, client
  <2> QED
    BY <1>2, <2>1 DEF LinkInv, Crash, Sound, Known, EditorEntries, client
<1>3. CASE Restart
  <2>1. Sound(pool') /\ EditorEntries(pool') = {}
    BY <1>3, NewPoolSound DEF Restart
  <2>2. TypeOK'
    <3>1. pool' \in Pool
      BY <2>1 DEF Sound
    <3>2. UNCHANGED <<near, win, wire, far, reg>> /\ ide' = FALSE /\ running' = TRUE
      BY <1>3 DEF Restart, client
    <3> QED
      BY <3>1, <3>2 DEF LinkInv, TypeOK
  <2> QED
    <3>1. UNCHANGED <<near, wire, far, reg>> /\ ~running
      BY <1>3 DEF Restart, client
    <3>2. \A p \in Pipe : far[p] = "none" /\ wire[p] = <<>>
      BY <3>1 DEF LinkInv
    <3>3. <<>> # <<"register">>
      OBVIOUS
    <3>4. running'
      BY <1>3 DEF Restart
    <3>5. \A p \in Pipe : wire'[p] = <<>> /\ far'[p] = "none" /\ p \notin reg'
      BY <3>1, <3>2 DEF LinkInv
    <3> QED
      BY <2>1, <2>2, <3>3, <3>4, <3>5 DEF LinkInv
<1>4. CASE UNCHANGED vars
  BY <1>4 DEF vars, LinkInv, TypeOK, Sound, Known, EditorEntries
<1> QED
  BY <1>1, <1>2, <1>3, <1>4, WindowLinkInv, PipeLinkInv DEF Next

\* The invariant holds in every behaviour of the link.
LEMMA LinkInvHolds == Spec => []LinkInv
  BY InitLinkInv, NextLinkInv, PTL DEF Spec

-----------------------------------------------------------------------------
(* The theorems.                                                           *)

\* Every variable of the link keeps its type, whatever the number of windows
\* and of their connections.
THEOREM LinkTypeCorrect == Spec => []TypeOK
<1>1. LinkInv => TypeOK
  BY DEF LinkInv
<1> QED
  BY <1>1, LinkInvHolds, PTL

\* The active adapter is one of the pool's, or null for an empty pool,
\* whatever the windows and phones do (manager.ts:91-97).
THEOREM ActiveAlwaysRegistered == Spec => []ActiveIsRegistered
<1>1. LinkInv => ActiveIsRegistered
  BY DEF LinkInv, ActiveIsRegistered, Sound
<1> QED
  BY <1>1, LinkInvHolds, PTL

\* The editor's adapter never writes to a pipe whose close was handled
\* (ipc.ts:114-132), for any number of windows.
THEOREM EditorAdapterAlwaysLive == Spec => []EditorAdapterIsLive
<1>1. LinkInv => EditorAdapterIsLive
  <2> SUFFICES ASSUME LinkInv, running, NEW i \in DOMAIN pool.adapters,
                      pool.adapters[i].id = EditorId
               PROVE  /\ pool.adapters[i].pipe \in reg
                      /\ far[pool.adapters[i].pipe] = "open"
    BY DEF EditorAdapterIsLive
  <2>1. pool.adapters[i].pipe \in reg
    BY DEF LinkInv, EditorEntries
  <2> QED
    BY <2>1 DEF LinkInv, TypeOK
<1> QED
  BY <1>1, LinkInvHolds, PTL

\* An agent that has the editor's adapter has the editor's snapshot
\* (ipcClient.ts:47-49, ideReporter.ts:27), also after a restart.
THEOREM EditorAlwaysDescribed == Spec => []EditorIsDescribed
<1>1. LinkInv => EditorIsDescribed
  BY DEF LinkInv, EditorIsDescribed, Known, Keys, EditorEntries
<1> QED
  BY <1>1, LinkInvHolds, PTL

\* No order of toggles, closes and retries leaves a window that is switched
\* on without a connection, a close to come or a retry (ipcClient.ts:68-77).
THEOREM LinkNeverStranded == Spec => []NeverStranded
<1>1. Init => NeverStranded
  BY DEF Init, NeverStranded
<1>2. LinkInv /\ NeverStranded /\ [Next]_vars => NeverStranded'
  <2> SUFFICES ASSUME LinkInv, NeverStranded, [Next]_vars,
                      NEW v \in Windows, (win[v].should /\ ~win[v].connected)'
               PROVE  (\/ win[v].timer \/ win[v].stray > 0
                       \/ \E p \in Own(v) : near[p] \in {"dialing", "destroyed"})'
    BY DEF NeverStranded
  <2>0. TypeOK
    BY DEF LinkInv
  <2>1. ASSUME NEW w \in Windows, Dial(w)
        PROVE  \A u \in Windows :
                 /\ \A p \in Own(u) : near[p] \in {"dialing", "destroyed"} =>
                                       near'[p] \in {"dialing", "destroyed"}
                 /\ u = w => \E p \in Own(u) : near'[p] = "dialing"
    <3>1. PICK q \in Own(w) : near[q] = "free" /\ near' = [near EXCEPT ![q] = "dialing"]
      BY <2>0, <2>1, DialType
    <3>2. \A p \in Pipe : near'[p] = IF p = q THEN "dialing" ELSE near[p]
      BY <2>0, <3>1 DEF TypeOK
    <3> QED
      BY <3>1, <3>2, PipeFacts
  <2>2. ASSUME NEW w \in Windows, Toggle(w)
        PROVE  (\/ win[v].timer \/ win[v].stray > 0
                \/ \E p \in Own(v) : near[p] \in {"dialing", "destroyed"})'
    <3>1. CASE Connect(w)
      BY <2>0, <2>1, <3>1 DEF Connect, NeverStranded, TypeOK, Client
    <3>2. CASE Disconnect(w)
      <4>1. v # w
        BY <2>0, <3>2 DEF Disconnect, TypeOK, Client
      <4>2. win'[v] = win[v]
        BY <2>0, <3>2, <4>1 DEF Disconnect, TypeOK
      <4>3. \A p \in Pipe : near'[p] = near[p] \/ near'[p] = "destroyed"
        BY <2>0, <3>2 DEF Disconnect, TypeOK
      <4> QED
        BY <4>2, <4>3, PipeFacts DEF NeverStranded
    <3> QED
      BY <2>2, <3>1, <3>2 DEF Toggle
  <2>3. ASSUME NEW w \in Windows, RetryTimer(w) \/ StrayTimer(w)
        PROVE  (\/ win[v].timer \/ win[v].stray > 0
                \/ \E p \in Own(v) : near[p] \in {"dialing", "destroyed"})'
    <3>1. Retry(w)
      BY <2>3 DEF RetryTimer, StrayTimer
    <3>2. v # w => win'[v] = win[v]
      BY <2>0, <2>3 DEF RetryTimer, StrayTimer, TypeOK
    <3>3. win'[v].should = win[v].should /\ win'[v].connected = win[v].connected
      <4>1. win[w] \in Client /\ win[v] \in Client
        BY <2>0 DEF TypeOK
      <4>2. CASE RetryTimer(w)
        BY <2>0, <4>1, <4>2 DEF RetryTimer, TypeOK, Client
      <4>3. CASE StrayTimer(w)
        BY <2>0, <4>1, <4>3 DEF StrayTimer, TypeOK, Client
      <4> QED
        BY <2>3, <4>2, <4>3
    <3>4. CASE v = w
      <4>1. Dial(w)
        BY <3>1, <3>3, <3>4 DEF Retry
      <4> QED
        BY <2>1, <3>4, <4>1
    <3>5. CASE v # w
      <4>1. \A p \in Own(v) : near[p] \in {"dialing", "destroyed"} =>
                               near'[p] \in {"dialing", "destroyed"}
        BY <2>1, <3>1 DEF Retry
      <4> QED
        BY <3>2, <3>5, <4>1 DEF NeverStranded
    <3> QED
      BY <3>4, <3>5
  <2>4. ASSUME NEW p \in Pipe, Connected(p)
        PROVE  (\/ win[v].timer \/ win[v].stray > 0
                \/ \E q \in Own(v) : near[q] \in {"dialing", "destroyed"})'
    <3>1. v # Owner(p) /\ win'[v] = win[v]
      BY <2>0, <2>4, PipeFacts DEF Connected, TypeOK, Client
    <3>2. \A q \in Own(v) : near'[q] = near[q]
      BY <2>0, <2>4, <3>1 DEF Connected, TypeOK, Own
    <3> QED
      BY <3>1, <3>2 DEF NeverStranded
  <2>5. ASSUME NEW p \in Pipe, Closed(p)
        PROVE  (\/ win[v].timer \/ win[v].stray > 0
                \/ \E q \in Own(v) : near[q] \in {"dialing", "destroyed"})'
    <3>1. CASE v = Owner(p)
      <4>1. win'[v] = Dropped(win[v])
        BY <2>0, <2>5, <3>1, PipeFacts DEF Closed, TypeOK
      <4> QED
        BY <2>0, <4>1 DEF Dropped, TypeOK, Client
    <3>2. CASE v # Owner(p)
      <4>1. win'[v] = win[v] /\ \A q \in Own(v) : near'[q] = near[q]
        BY <2>0, <2>5, <3>2 DEF Closed, TypeOK, Own
      <4> QED
        BY <4>1 DEF NeverStranded
    <3> QED
      BY <3>1, <3>2
  <2>6. CASE UNCHANGED client
    BY <2>6 DEF client, NeverStranded
  <2> QED
    BY <2>2, <2>3, <2>4, <2>5, <2>6
    DEF Next, vars, client, Report, Accept, Read, PipeClosed, Toggled, Crash, Restart
<1> QED
  BY <1>1, <1>2, LinkInvHolds, PTL DEF Spec

-----------------------------------------------------------------------------
(* The messages of EditorTerminals: timers, what was typed, and where a    *)
(* message that came by the socket c is.  T are timers, X what was typed   *)
(* into the terminals, L the messages of c that were lost and C those in   *)
(* the chat.                                                               *)

\* A timer as the messages of c see it: that of another socket is no more to
\* them than one of an Enter.
Kind(c, t) == IF t.via = c THEN t.delay ELSE "enter"

\* Somewhere a message that was read is found.
Met(c, T, X, L, C, m) ==
  \/ Waits(c, T, m) # {}
  \/ \E id \in Ids : TypedAt(c, X[id], m) # {}
  \/ m \in L \cup C

\* It is found in one place.
Once(c, T, X, L, C, m) ==
  LET waits == Waits(c, T, m) # {}
      typed == \E id \in Ids : TypedAt(c, X[id], m) # {}
      threw == m \in L
      there == m \in C
  IN /\ ~(waits /\ typed) /\ ~(waits /\ threw) /\ ~(waits /\ there)
     /\ ~(typed /\ threw) /\ ~(typed /\ there) /\ ~(threw /\ there)
     /\ \A i, j \in Waits(c, T, m) : i = j
     /\ \A a, b \in Ids :
          \A i \in TypedAt(c, X[a], m), j \in TypedAt(c, X[b], m) : a = b /\ i = j

\* Timers without a delay are in the order of their messages, and the timer a
\* terminal was made for is of an earlier message than any other of it.
TimersSound(c, T) ==
  /\ \A a, b \in DOMAIN T :
       a < b /\ Kind(c, T[a]) = "now" /\ Kind(c, T[b]) = "now" => T[a].msg < T[b].msg
  /\ \A a, b \in DOMAIN T :
       a # b /\ Kind(c, T[a]) = "boot" /\ Kind(c, T[b]) # "enter" /\ T[a].id = T[b].id
         => T[a].msg < T[b].msg

\* Texts in the order of their messages.
Rising(c, t) == \A i, j \in Texts(c, t) : i < j => t[i].msg < t[j].msg

\* What waits without a delay comes after what was typed; what waits for the
\* boot came before it, and nothing else has been overtaken.
Turn(c, T, X) ==
  \A a \in DOMAIN T :
    /\ Kind(c, T[a]) = "now" =>
         \A i \in Texts(c, X[T[a].id]) : X[T[a].id][i].msg < T[a].msg
    /\ Kind(c, T[a]) = "boot" =>
         /\ \A i \in Texts(c, X[T[a].id]) : T[a].msg < X[T[a].id][i].msg
         /\ Rising(c, X[T[a].id])

\* Only the earliest message of a terminal is overtaken.
FirstWaits(c, t) ==
  \A i, j, k \in Texts(c, t) : i < j /\ t[i].msg > t[j].msg => t[j].msg <= t[k].msg

\* X holds keys that were typed, and texts are of messages that came by
\* sockets of the window v.
InputType(v, X) ==
  /\ X \in [Ids -> Seq(Typed)]
  /\ \A id \in Ids : \A i \in DOMAIN X[id] : X[id][i].key = "text" =>
       /\ X[id][i].msg \in Message
       /\ X[id][i].via \in Sockets /\ WindowOf(X[id][i].via) = v

\* The order in which messages are typed and are going to be.
Ordered(c, T, X) ==
  /\ TimersSound(c, T)
  /\ Turn(c, T, X)
  /\ \A id \in Ids : FirstWaits(c, X[id])

\* Messages are in order, and each in one place.
Placed(c, T, X, L, C) ==
  /\ Ordered(c, T, X)
  /\ \A m \in Message : Once(c, T, X, L, C, m)

-----------------------------------------------------------------------------
\* U has the timers of c that T has but for the one at i, in their order, and
\* perhaps other ones.
Without(c, T, i, U) ==
  \E f :
    \A a \in DOMAIN U : Kind(c, U[a]) # "enter" =>
      /\ f[a] \in DOMAIN T /\ f[a] # i /\ U[a] = T[f[a]]
      /\ \A b \in DOMAIN U : Kind(c, U[b]) # "enter" /\ a < b => f[a] < f[b]

\* The places of a sequence, and its elements.
LEMMA SeqDomain ==
  ASSUME NEW E, NEW s \in Seq(E)
  PROVE  /\ Len(s) \in Nat /\ DOMAIN s = 1 .. Len(s)
         /\ \A i \in DOMAIN s : i \in Nat /\ s[i] \in E
  OBVIOUS

\* RemoveAt takes one timer away and keeps the order of the others.
LEMMA RemoveIsWithout ==
  ASSUME NEW c \in Sockets,
         NEW T \in Seq(Timer), NEW i \in DOMAIN T
  PROVE  Without(c, T, i, RemoveAt(T, i))
<1> DEFINE U == RemoveAt(T, i)
<1> DEFINE f == [a \in Nat |-> IF a < i THEN a ELSE a + 1]
<1>1. Len(T) \in Nat /\ DOMAIN T = 1 .. Len(T) /\ i \in Nat
  OBVIOUS
<1>2. /\ U \in Seq(Timer) /\ Len(U) = Len(T) - 1
      /\ \A j \in 1 .. Len(T) - 1 : U[j] = IF j < i THEN T[j] ELSE T[j + 1]
  BY RemoveAtIsShift
<1>3. DOMAIN U = 1 .. Len(T) - 1
  BY <1>1, <1>2
<1>4. \A a \in Nat : f[a] = IF a < i THEN a ELSE a + 1
  BY <1>1
<1>5. ASSUME NEW a \in DOMAIN U
      PROVE  /\ f[a] \in DOMAIN T /\ f[a] # i /\ U[a] = T[f[a]]
             /\ \A b \in DOMAIN U : a < b => f[a] < f[b]
  <2> HIDE DEF U, f
  <2>1. a \in Nat /\ a >= 1 /\ a <= Len(T) - 1
    BY <1>1, <1>3, <1>5
  <2>2. f[a] = IF a < i THEN a ELSE a + 1
    BY <1>4, <2>1
  <2>3. f[a] \in DOMAIN T /\ f[a] # i
    BY <1>1, <2>1, <2>2
  <2>4. U[a] = T[f[a]]
    BY <1>2, <2>1, <2>2
  <2>5. ASSUME NEW b \in DOMAIN U, a < b PROVE f[a] < f[b]
    <3>1. b \in Nat
      BY <1>1, <1>3, <2>5
    <3>2. f[b] = IF b < i THEN b ELSE b + 1
      BY <1>4, <3>1
    <3> QED
      BY <1>1, <2>1, <2>2, <2>5, <3>1, <3>2
  <2> QED
    BY <2>3, <2>4, <2>5
<1> HIDE DEF U, f
<1>6. Without(c, T, i, U)
  BY <1>5 DEF Without
<1> QED
  BY <1>6 DEF U

\* The timer of an Enter, or of another socket, may be set besides.
LEMMA EnterIsWithout ==
  ASSUME NEW c \in Sockets,
         NEW T \in Seq(Timer), NEW i \in DOMAIN T, NEW U \in Seq(Timer),
         Without(c, T, i, U), NEW t \in Timer, Kind(c, t) = "enter"
  PROVE  Without(c, T, i, Append(U, t))
<1> DEFINE V == Append(U, t)
<1>1. PICK f :
        \A a \in DOMAIN U : Kind(c, U[a]) # "enter" =>
          /\ f[a] \in DOMAIN T /\ f[a] # i /\ U[a] = T[f[a]]
          /\ \A b \in DOMAIN U : Kind(c, U[b]) # "enter" /\ a < b => f[a] < f[b]
  BY DEF Without
<1>2. /\ Len(U) \in Nat /\ DOMAIN U = 1 .. Len(U) /\ DOMAIN V = 1 .. Len(U) + 1
      /\ V[Len(U) + 1] = t /\ \A a \in 1 .. Len(U) : V[a] = U[a]
  OBVIOUS
<1> HIDE DEF V
<1>3. ASSUME NEW a \in DOMAIN V, Kind(c, V[a]) # "enter"
      PROVE  a \in DOMAIN U /\ V[a] = U[a]
  <2>1. a \in 1 .. Len(U) \/ a = Len(U) + 1
    BY <1>2
  <2>2. a # Len(U) + 1
    BY <1>2, <1>3
  <2> QED
    BY <1>2, <2>1, <2>2
<1>4. \A a \in DOMAIN V : Kind(c, V[a]) # "enter" =>
        /\ f[a] \in DOMAIN T /\ f[a] # i /\ V[a] = T[f[a]]
        /\ \A b \in DOMAIN V : Kind(c, V[b]) # "enter" /\ a < b => f[a] < f[b]
  BY <1>1, <1>3
<1>5. Without(c, T, i, V)
  BY <1>4 DEF Without
<1> QED
  BY <1>5 DEF V

\* What waits without a timer did so with it, in the same order; a message
\* that waited for that timer only waits no more.
LEMMA WithoutWaits ==
  ASSUME NEW c \in Sockets,
         NEW T \in Seq(Timer), NEW i \in DOMAIN T, NEW U \in Seq(Timer),
         Without(c, T, i, U), TimersSound(c, T)
  PROVE  /\ TimersSound(c, U)
         /\ \A a \in DOMAIN U : Kind(c, U[a]) # "enter" =>
              \E b \in DOMAIN T : b # i /\ U[a] = T[b]
         /\ \A m : Waits(c, T, m) = {} => Waits(c, U, m) = {}
         /\ \A m : (\A a, b \in Waits(c, T, m) : a = b) =>
              /\ \A a, b \in Waits(c, U, m) : a = b
              /\ i \in Waits(c, T, m) => Waits(c, U, m) = {}
<1>1. PICK f :
        \A a \in DOMAIN U : Kind(c, U[a]) # "enter" =>
          /\ f[a] \in DOMAIN T /\ f[a] # i /\ U[a] = T[f[a]]
          /\ \A b \in DOMAIN U : Kind(c, U[b]) # "enter" /\ a < b => f[a] < f[b]
  BY DEF Without
<1>2. \A a \in DOMAIN U : Kind(c, U[a]) # "enter" =>
        f[a] \in DOMAIN T /\ f[a] # i /\ U[a] = T[f[a]]
  BY <1>1
<1>3. \A a, b \in DOMAIN U : Kind(c, U[a]) # "enter" /\ Kind(c, U[b]) # "enter" /\ a < b =>
        f[a] < f[b]
  BY <1>1
<1>4. /\ \A a \in DOMAIN T : a \in Nat
      /\ \A a \in DOMAIN U : a \in Nat
  BY SeqDomain
<1>5. ASSUME NEW a \in DOMAIN U, NEW b \in DOMAIN U, a # b,
             Kind(c, U[a]) # "enter", Kind(c, U[b]) # "enter"
      PROVE  f[a] # f[b]
  <2>1. a \in Nat /\ b \in Nat
    BY <1>4
  <2>2. f[a] < f[b] \/ f[b] < f[a]
    BY <1>3, <1>5, <2>1
  <2>3. f[a] \in Nat /\ f[b] \in Nat
    BY <1>2, <1>4, <1>5
  <2> QED
    BY <2>2, <2>3
<1>6. ASSUME NEW a \in DOMAIN U, NEW b \in DOMAIN U, a < b,
             Kind(c, U[a]) = "now", Kind(c, U[b]) = "now"
      PROVE  U[a].msg < U[b].msg
  <2>1. /\ f[a] \in DOMAIN T /\ f[b] \in DOMAIN T /\ f[a] < f[b]
        /\ U[a] = T[f[a]] /\ U[b] = T[f[b]]
    BY <1>2, <1>3, <1>6
  <2> QED
    BY <1>6, <2>1 DEF TimersSound
<1>7. ASSUME NEW a \in DOMAIN U, NEW b \in DOMAIN U, a # b,
             Kind(c, U[a]) = "boot", Kind(c, U[b]) # "enter", U[a].id = U[b].id
      PROVE  U[a].msg < U[b].msg
  <2>1. /\ f[a] \in DOMAIN T /\ f[b] \in DOMAIN T /\ f[a] # f[b]
        /\ U[a] = T[f[a]] /\ U[b] = T[f[b]]
    BY <1>2, <1>5, <1>7
  <2> QED
    BY <1>7, <2>1 DEF TimersSound
<1>8. TimersSound(c, U)
  BY <1>6, <1>7 DEF TimersSound
<1>9. \A m : \A a \in Waits(c, U, m) : f[a] \in Waits(c, T, m) /\ f[a] # i
  BY <1>2 DEF Waits, Kind
<1>10. \A m : Waits(c, T, m) = {} => Waits(c, U, m) = {}
  BY <1>9
<1>11. ASSUME NEW m, \A a, b \in Waits(c, T, m) : a = b
       PROVE  /\ \A a, b \in Waits(c, U, m) : a = b
              /\ i \in Waits(c, T, m) => Waits(c, U, m) = {}
  <2>1. \A a, b \in Waits(c, U, m) : f[a] = f[b]
    BY <1>9, <1>11
  <2>2. \A a, b \in Waits(c, U, m) : a = b
    BY <2>1, <1>5 DEF Waits, Kind
  <2>3. i \in Waits(c, T, m) => Waits(c, U, m) = {}
    BY <1>9, <1>11
  <2> QED
    BY <2>2, <2>3
<1>12. \A a \in DOMAIN U : Kind(c, U[a]) # "enter" =>
         \E b \in DOMAIN T : b # i /\ U[a] = T[b]
  BY <1>2
<1> QED
  BY <1>8, <1>10, <1>11, <1>12

-----------------------------------------------------------------------------
\* The same texts are in X and Y.
SameTexts(c, X, Y) ==
  \A id \in Ids : /\ Texts(c, Y[id]) = Texts(c, X[id])
                  /\ \A i \in Texts(c, X[id]) : Y[id][i].msg = X[id][i].msg

\* The fields of a timer.
LEMMA TimerType ==
  ASSUME NEW t \in Timer
  PROVE  /\ t.id \in Ids /\ t.msg \in Message /\ t.msg \in Nat
         /\ t.delay \in {"now", "enter", "boot"} /\ t.booting \in BOOLEAN
         /\ t.via \in Sockets
         /\ \A c \in Sockets : Kind(c, t) \in {"now", "enter", "boot"}
<1>1. t.id \in Ids /\ t.msg \in Message /\ t.delay \in DOMAIN Delay /\ t.booting \in BOOLEAN
      /\ t.via \in Sockets
  BY DEF Timer
<1>2. t.msg \in Nat
  BY <1>1, TerminalsAssumption DEF Message
<1>3. DOMAIN Delay = {"now", "enter", "boot"}
  BY DEF Delay
<1> QED
  BY <1>1, <1>2, <1>3 DEF Kind

\* A key that is no text moves no message.
LEMMA SameTextsSound ==
  ASSUME NEW c \in Sockets,
         NEW T \in Seq(Timer), NEW X, NEW Y, NEW L, NEW C,
         SameTexts(c, X, Y), Placed(c, T, X, L, C)
  PROVE  /\ Placed(c, T, Y, L, C)
         /\ \A m : Met(c, T, Y, L, C, m) => Met(c, T, X, L, C, m)
<1>1. \A id \in Ids : \A m : TypedAt(c, Y[id], m) = TypedAt(c, X[id], m)
  BY DEF SameTexts, TypedAt
<1>2. \A m : Met(c, T, Y, L, C, m) => Met(c, T, X, L, C, m)
  BY <1>1 DEF Met
<1>3. ASSUME NEW m \in Message PROVE Once(c, T, Y, L, C, m)
  <2>1. Once(c, T, X, L, C, m)
    BY DEF Placed
  <2>2. /\ \A id \in Ids : TypedAt(c, Y[id], m) = TypedAt(c, X[id], m)
        /\ (\E id \in Ids : TypedAt(c, Y[id], m) # {})
             <=> (\E id \in Ids : TypedAt(c, X[id], m) # {})
    BY <1>1
  <2>3. \A a, b \in Ids :
          \A i \in TypedAt(c, Y[a], m), j \in TypedAt(c, Y[b], m) : a = b /\ i = j
    BY <2>1, <2>2 DEF Once
  <2> QED
    BY <2>1, <2>2, <2>3 DEF Once
<1>4. \A a \in DOMAIN T : T[a].id \in Ids
  BY SeqDomain, TimerType
<1>5. Turn(c, T, Y)
  <2> SUFFICES ASSUME NEW a \in DOMAIN T
               PROVE  /\ Kind(c, T[a]) = "now" =>
                           \A i \in Texts(c, Y[T[a].id]) : Y[T[a].id][i].msg < T[a].msg
                      /\ Kind(c, T[a]) = "boot" =>
                           /\ \A i \in Texts(c, Y[T[a].id]) : T[a].msg < Y[T[a].id][i].msg
                           /\ Rising(c, Y[T[a].id])
    BY DEF Turn
  <2> DEFINE id == T[a].id
  <2>1. /\ Texts(c, Y[id]) = Texts(c, X[id])
        /\ \A i \in Texts(c, X[id]) : Y[id][i].msg = X[id][i].msg
    BY <1>4 DEF SameTexts
  <2>2. /\ Kind(c, T[a]) = "now" => \A i \in Texts(c, X[id]) : X[id][i].msg < T[a].msg
        /\ Kind(c, T[a]) = "boot" =>
             /\ \A i \in Texts(c, X[id]) : T[a].msg < X[id][i].msg
             /\ Rising(c, X[id])
    BY DEF Placed, Ordered, Turn
  <2> HIDE DEF id
  <2>3. Rising(c, X[id]) => Rising(c, Y[id])
    BY <2>1 DEF Rising
  <2>4. /\ Kind(c, T[a]) = "now" => \A i \in Texts(c, Y[id]) : Y[id][i].msg < T[a].msg
        /\ Kind(c, T[a]) = "boot" =>
             /\ \A i \in Texts(c, Y[id]) : T[a].msg < Y[id][i].msg
             /\ Rising(c, Y[id])
    BY <2>1, <2>2, <2>3
  <2> QED
    BY <2>4 DEF id
<1>6. ASSUME NEW id \in Ids PROVE FirstWaits(c, Y[id])
  <2>1. FirstWaits(c, X[id])
    BY DEF Placed, Ordered
  <2>2. /\ Texts(c, Y[id]) = Texts(c, X[id])
        /\ \A i \in Texts(c, X[id]) : Y[id][i].msg = X[id][i].msg
    BY DEF SameTexts
  <2> QED
    BY <2>1, <2>2 DEF FirstWaits
<1> QED
  BY <1>2, <1>3, <1>5, <1>6 DEF Placed, Ordered

\* A message that is nowhere is shown in the chat, or lost.
LEMMA ElsewhereSound ==
  ASSUME NEW c \in Sockets,
         NEW T, NEW X, NEW L, NEW C, Placed(c, T, X, L, C), NEW k, ~Met(c, T, X, L, C, k)
  PROVE  /\ Placed(c, T, X, L \cup {k}, C)
         /\ Placed(c, T, X, L, C \cup {k})
         /\ \A m : Met(c, T, X, L \cup {k}, C, m) => m = k \/ Met(c, T, X, L, C, m)
         /\ \A m : Met(c, T, X, L, C \cup {k}, m) => m = k \/ Met(c, T, X, L, C, m)
<1>1. \A m : /\ Met(c, T, X, L \cup {k}, C, m) => m = k \/ Met(c, T, X, L, C, m)
             /\ Met(c, T, X, L, C \cup {k}, m) => m = k \/ Met(c, T, X, L, C, m)
  BY DEF Met
<1>2. ASSUME NEW m \in Message
      PROVE  Once(c, T, X, L \cup {k}, C, m) /\ Once(c, T, X, L, C \cup {k}, m)
  <2>1. Once(c, T, X, L, C, m)
    BY DEF Placed
  <2>2. m # k => (m \in L \cup {k} <=> m \in L) /\ (m \in C \cup {k} <=> m \in C)
    OBVIOUS
  <2>3. /\ Waits(c, T, k) = {} /\ ~\E id \in Ids : TypedAt(c, X[id], k) # {}
        /\ k \notin L /\ k \notin C
    BY DEF Met
  <2>4. CASE m = k
    BY <2>1, <2>3, <2>4 DEF Once
  <2>5. CASE m # k
    BY <2>1, <2>2, <2>5 DEF Once
  <2> QED
    BY <2>4, <2>5
<1> QED
  BY <1>1, <1>2 DEF Placed

\* A message that is nowhere waits for a timer.
LEMMA WaitSound ==
  ASSUME NEW c \in Sockets, NEW v,
         NEW T \in Seq(Timer), NEW X, InputType(v, X), NEW L, NEW C, Placed(c, T, X, L, C),
         NEW t \in Timer, Kind(c, t) # "enter",
         \A m \in Message : Met(c, T, X, L, C, m) => m < t.msg,
         Kind(c, t) = "boot" => /\ Texts(c, X[t.id]) = {}
                             /\ \A a \in DOMAIN T : T[a].id # t.id
  PROVE  /\ Placed(c, Append(T, t), X, L, C)
         /\ \A m : Met(c, Append(T, t), X, L, C, m) => m = t.msg \/ Met(c, T, X, L, C, m)
<1> DEFINE U == Append(T, t)
           n == Len(T) + 1
<1>1. /\ Len(T) \in Nat /\ DOMAIN T = 1 .. Len(T) /\ DOMAIN U = 1 .. Len(T) + 1
      /\ U[n] = t /\ n \in DOMAIN U /\ n \notin DOMAIN T
      /\ \A a \in DOMAIN T : U[a] = T[a] /\ a < n
  OBVIOUS
<1>2. DOMAIN U = DOMAIN T \cup {n}
  BY <1>1
<1>3. /\ t.msg \in Message /\ t.msg \in Nat /\ t.id \in Ids
      /\ \A a \in DOMAIN T : T[a].msg \in Message /\ T[a].msg \in Nat /\ T[a].id \in Ids
  BY SeqDomain, TimerType
<1>4. ~Met(c, T, X, L, C, t.msg)
  BY <1>3
<1> HIDE DEF U, n
<1>5. \A m : m # t.msg => Waits(c, U, m) = Waits(c, T, m)
  BY <1>1, <1>2 DEF Waits, Kind
<1>6. Waits(c, U, t.msg) = {n}
  <2>1. Waits(c, T, t.msg) = {}
    BY <1>4 DEF Met
  <2> QED
    BY <1>1, <1>2, <2>1 DEF Waits, Kind
<1>7. \A m : Met(c, U, X, L, C, m) => m = t.msg \/ Met(c, T, X, L, C, m)
  BY <1>5 DEF Met
<1>8. ASSUME NEW m \in Message PROVE Once(c, U, X, L, C, m)
  <2>1. Once(c, T, X, L, C, m)
    BY DEF Placed
  <2>2. CASE m = t.msg
    <3>1. /\ ~\E id \in Ids : TypedAt(c, X[id], m) # {}
          /\ m \notin L /\ m \notin C
      BY <1>4, <2>2 DEF Met
    <3> QED
      BY <1>6, <2>1, <2>2, <3>1 DEF Once
  <2>3. CASE m # t.msg
    BY <1>5, <2>1, <2>3 DEF Once
  <2> QED
    BY <2>2, <2>3
<1>9. \A a \in DOMAIN T : Kind(c, T[a]) # "enter" => T[a].msg < t.msg
  <2> SUFFICES ASSUME NEW a \in DOMAIN T, Kind(c, T[a]) # "enter" PROVE T[a].msg < t.msg
    OBVIOUS
  <2>1. a \in Waits(c, T, T[a].msg)
    BY DEF Waits, Kind
  <2>2. Met(c, T, X, L, C, T[a].msg)
    BY <2>1 DEF Met
  <2> QED
    BY <1>3, <2>2
<1>10. TimersSound(c, U)
  <2>1. ASSUME NEW a \in DOMAIN U, NEW b \in DOMAIN U, a < b,
               Kind(c, U[a]) = "now", Kind(c, U[b]) = "now"
        PROVE  U[a].msg < U[b].msg
    <3>1. a \in DOMAIN T
      BY <1>1, <1>2, <2>1
    <3>2. CASE b \in DOMAIN T
      <4>1. U[a] = T[a] /\ U[b] = T[b]
        BY <1>1, <3>1, <3>2
      <4> QED
        BY <2>1, <3>1, <3>2, <4>1 DEF Placed, Ordered, TimersSound
    <3>3. CASE b = n
      <4>1. U[a] = T[a] /\ U[b] = t
        BY <1>1, <3>1, <3>3
      <4> QED
        BY <1>9, <2>1, <3>1, <4>1
    <3> QED
      BY <1>2, <3>2, <3>3
  <2>2. ASSUME NEW a \in DOMAIN U, NEW b \in DOMAIN U, a # b,
               Kind(c, U[a]) = "boot", Kind(c, U[b]) # "enter", U[a].id = U[b].id
        PROVE  U[a].msg < U[b].msg
    <3>1. CASE a \in DOMAIN T /\ b \in DOMAIN T
      <4>1. U[a] = T[a] /\ U[b] = T[b]
        BY <1>1, <3>1
      <4> QED
        BY <2>2, <3>1, <4>1 DEF Placed, Ordered, TimersSound
    <3>2. CASE a \in DOMAIN T /\ b = n
      <4>1. U[a] = T[a] /\ U[b] = t
        BY <1>1, <3>2
      <4> QED
        BY <1>9, <2>2, <3>2, <4>1
    <3>3. CASE a = n /\ b \in DOMAIN T
      <4>1. U[a] = t /\ U[b] = T[b]
        BY <1>1, <3>3
      <4> QED
        BY <2>2, <3>3, <4>1
    <3> QED
      BY <1>2, <2>2, <3>1, <3>2, <3>3
  <2> QED
    BY <2>1, <2>2 DEF TimersSound
<1>11. \A i \in Texts(c, X[t.id]) : X[t.id][i].msg < t.msg
  <2> SUFFICES ASSUME NEW i \in Texts(c, X[t.id]) PROVE X[t.id][i].msg < t.msg
    OBVIOUS
  <2>1. X[t.id][i].msg \in Message
    BY <1>3 DEF InputType, Texts
  <2>2. i \in TypedAt(c, X[t.id], X[t.id][i].msg)
    BY DEF TypedAt
  <2>3. Met(c, T, X, L, C, X[t.id][i].msg)
    BY <1>3, <2>2 DEF Met
  <2> QED
    BY <2>1, <2>3
<1>12. Turn(c, U, X)
  <2> SUFFICES ASSUME NEW a \in DOMAIN U
               PROVE  /\ Kind(c, U[a]) = "now" =>
                           \A i \in Texts(c, X[U[a].id]) : X[U[a].id][i].msg < U[a].msg
                      /\ Kind(c, U[a]) = "boot" =>
                           /\ \A i \in Texts(c, X[U[a].id]) : U[a].msg < X[U[a].id][i].msg
                           /\ Rising(c, X[U[a].id])
    BY DEF Turn
  <2>1. CASE a \in DOMAIN T
    <3>1. U[a] = T[a]
      BY <1>1, <2>1
    <3> QED
      BY <2>1, <3>1 DEF Placed, Ordered, Turn
  <2>2. CASE a = n
    <3>1. U[a] = t
      BY <1>1, <2>2
    <3>2. Kind(c, t) = "boot" => Rising(c, X[t.id]) /\ Texts(c, X[t.id]) = {}
      BY DEF Rising
    <3> QED
      BY <1>11, <3>1, <3>2
  <2> QED
    BY <1>2, <2>1, <2>2
<1>13. Placed(c, U, X, L, C)
  BY <1>8, <1>10, <1>12 DEF Placed, Ordered
<1> QED
  BY <1>7, <1>13 DEF U

\* A timer of an Enter, or of another socket, is set.
LEMMA BesideSound ==
  ASSUME NEW c \in Sockets,
         NEW T \in Seq(Timer), NEW X, NEW L, NEW C, Placed(c, T, X, L, C),
         NEW t \in Timer, Kind(c, t) = "enter"
  PROVE  /\ Placed(c, Append(T, t), X, L, C)
         /\ \A m : Met(c, Append(T, t), X, L, C, m) => Met(c, T, X, L, C, m)
<1> DEFINE U == Append(T, t)
           n == Len(T) + 1
<1>1. /\ Len(T) \in Nat /\ DOMAIN T = 1 .. Len(T) /\ DOMAIN U = 1 .. Len(T) + 1
      /\ U[n] = t
      /\ \A a \in DOMAIN T : U[a] = T[a]
  OBVIOUS
<1>2. DOMAIN U = DOMAIN T \cup {n}
  BY <1>1
<1> HIDE DEF U, n
<1>3. \A a \in DOMAIN U : Kind(c, U[a]) # "enter" => a \in DOMAIN T /\ U[a] = T[a]
  BY <1>1, <1>2
<1>4. \A m : Waits(c, U, m) = Waits(c, T, m)
  BY <1>1, <1>2, <1>3 DEF Waits, Kind
<1>5. \A m : Met(c, U, X, L, C, m) => Met(c, T, X, L, C, m)
  BY <1>4 DEF Met
<1>6. \A m \in Message : Once(c, U, X, L, C, m)
  BY <1>4 DEF Placed, Once
<1>7. TimersSound(c, U)
  BY <1>3 DEF Placed, Ordered, TimersSound
<1>8. Turn(c, U, X)
  BY <1>3 DEF Placed, Ordered, Turn
<1> QED
  BY <1>5, <1>6, <1>7, <1>8 DEF Placed, Ordered, U

\* A timer is gone: one of an Enter or of another socket, or one whose message
\* is lost with it.
LEMMA DropSound ==
  ASSUME NEW c \in Sockets,
         NEW T \in Seq(Timer), NEW X, NEW L, NEW C, Placed(c, T, X, L, C),
         NEW i \in DOMAIN T, NEW U \in Seq(Timer), Without(c, T, i, U)
  PROVE  /\ Placed(c, U, X, L, C)
         /\ \A m : Met(c, U, X, L, C, m) => Met(c, T, X, L, C, m)
         /\ Kind(c, T[i]) # "enter" => Placed(c, U, X, L \cup {T[i].msg}, C)
<1>1. TimersSound(c, T)
  BY DEF Placed, Ordered
<1>2. /\ TimersSound(c, U)
      /\ \A m : Waits(c, T, m) = {} => Waits(c, U, m) = {}
      /\ \A a \in DOMAIN U : Kind(c, U[a]) # "enter" =>
           \E b \in DOMAIN T : b # i /\ U[a] = T[b]
  BY <1>1, WithoutWaits
<1>3. \A m : Met(c, U, X, L, C, m) => Met(c, T, X, L, C, m)
  BY <1>2 DEF Met
<1>4. ASSUME NEW m \in Message
      PROVE  /\ Once(c, U, X, L, C, m)
             /\ i \in Waits(c, T, m) => ~Met(c, U, X, L, C, m)
  <2>1. Once(c, T, X, L, C, m)
    BY DEF Placed
  <2>2. \A a, b \in Waits(c, T, m) : a = b
    BY <2>1 DEF Once
  <2>3. /\ \A a, b \in Waits(c, U, m) : a = b
        /\ i \in Waits(c, T, m) => Waits(c, U, m) = {}
    BY <1>1, <2>2, WithoutWaits
  <2>4. Once(c, U, X, L, C, m)
    BY <1>2, <2>1, <2>3 DEF Once
  <2>5. ASSUME i \in Waits(c, T, m) PROVE ~Met(c, U, X, L, C, m)
    <3>1. Waits(c, T, m) # {} /\ Waits(c, U, m) = {}
      BY <2>3, <2>5
    <3> QED
      BY <2>1, <3>1 DEF Once, Met
  <2> QED
    BY <2>4, <2>5
<1>5. Turn(c, U, X)
  <2> SUFFICES ASSUME NEW a \in DOMAIN U, Kind(c, U[a]) # "enter"
               PROVE  /\ Kind(c, U[a]) = "now" =>
                           \A j \in Texts(c, X[U[a].id]) : X[U[a].id][j].msg < U[a].msg
                      /\ Kind(c, U[a]) = "boot" =>
                           /\ \A j \in Texts(c, X[U[a].id]) : U[a].msg < X[U[a].id][j].msg
                           /\ Rising(c, X[U[a].id])
    BY DEF Turn
  <2>1. PICK b \in DOMAIN T : U[a] = T[b]
    BY <1>2
  <2> QED
    BY <2>1 DEF Placed, Ordered, Turn
<1>6. Placed(c, U, X, L, C)
  BY <1>2, <1>4, <1>5 DEF Placed, Ordered
<1>7. ASSUME Kind(c, T[i]) # "enter" PROVE Placed(c, U, X, L \cup {T[i].msg}, C)
  <2>1. T[i].msg \in Message /\ i \in Waits(c, T, T[i].msg)
    BY <1>7, SeqDomain, TimerType DEF Waits, Kind
  <2>2. ~Met(c, U, X, L, C, T[i].msg)
    BY <1>4, <2>1
  <2> QED
    BY <1>6, <2>2, ElsewhereSound
<1> QED
  BY <1>3, <1>6, <1>7

\* A text is typed last into the terminal k: Y is X with the text of m at n.
Gains(c, X, Y, k, n, m) ==
  /\ Texts(c, Y[k]) = Texts(c, X[k]) \cup {n}
  /\ n \in Nat /\ \A i \in Texts(c, X[k]) : i \in Nat /\ i < n
  /\ Y[k][n].msg = m
  /\ \A i \in Texts(c, X[k]) : Y[k][i].msg = X[k][i].msg
  /\ \A id \in Ids : id # k => Y[id] = X[id]

\* The text of a timer that fires is typed: the timer is one that no other
\* without a delay was set before.
LEMMA TypeSound ==
  ASSUME NEW c \in Sockets, NEW v,
         NEW T \in Seq(Timer), NEW X, InputType(v, X), NEW L, NEW C, Placed(c, T, X, L, C),
         NEW i \in DOMAIN T, NEW U \in Seq(Timer), Without(c, T, i, U),
         Kind(c, T[i]) # "enter",
         Kind(c, T[i]) = "now" => \A j \in DOMAIN T : j < i => Kind(c, T[j]) # "now",
         NEW Y, NEW n, Gains(c, X, Y, T[i].id, n, T[i].msg)
  PROVE  /\ Placed(c, U, Y, L, C)
         /\ \A m : Met(c, U, Y, L, C, m) => Met(c, T, X, L, C, m)
<1> DEFINE k == T[i].id
           w == T[i].msg
<1>1. k \in Ids /\ w \in Message /\ w \in Nat /\ Kind(c, T[i]) \in {"now", "boot"}
  BY SeqDomain, TimerType
<1>2. /\ TimersSound(c, T) /\ Turn(c, T, X) /\ \A id \in Ids : FirstWaits(c, X[id])
      /\ Once(c, T, X, L, C, w)
  BY <1>1 DEF Placed, Ordered
<1>3. /\ Texts(c, Y[k]) = Texts(c, X[k]) \cup {n}
      /\ n \in Nat /\ \A j \in Texts(c, X[k]) : j \in Nat /\ j < n
      /\ Y[k][n].msg = w
      /\ \A j \in Texts(c, X[k]) : Y[k][j].msg = X[k][j].msg
      /\ \A id \in Ids : id # k => Y[id] = X[id]
  BY DEF Gains
<1>4. /\ Placed(c, U, X, L, C)
      /\ TimersSound(c, U)
      /\ \A m : Met(c, U, X, L, C, m) => Met(c, T, X, L, C, m)
  BY DropSound DEF Placed, Ordered
<1>5. i \in Waits(c, T, w)
  BY <1>1 DEF Waits, Kind
<1>6. Met(c, T, X, L, C, w)
  BY <1>5 DEF Met
<1>7. /\ ~\E id \in Ids : TypedAt(c, X[id], w) # {}
      /\ w \notin L /\ w \notin C
      /\ Waits(c, U, w) = {}
  <2>1. Waits(c, T, w) # {} /\ \A a, b \in Waits(c, T, w) : a = b
    BY <1>2, <1>5 DEF Once
  <2>2. Waits(c, U, w) = {}
    BY <1>2, <1>5, <2>1, WithoutWaits
  <2> QED
    BY <1>2, <2>1, <2>2 DEF Once
<1> HIDE DEF k, w
<1>8. /\ \A m : m # w => \A id \in Ids : TypedAt(c, Y[id], m) = TypedAt(c, X[id], m)
      /\ TypedAt(c, Y[k], w) = {n}
      /\ \A id \in Ids : id # k => TypedAt(c, Y[id], w) = {}
  <2>1. \A id \in Ids : TypedAt(c, X[id], w) = {}
    BY <1>7
  <2>2. TypedAt(c, Y[k], w) = {n}
    BY <1>1, <1>3, <2>1 DEF TypedAt
  <2>3. \A id \in Ids : id # k => TypedAt(c, Y[id], w) = {}
    BY <1>3, <2>1
  <2>4. ASSUME NEW m, m # w, NEW id \in Ids PROVE TypedAt(c, Y[id], m) = TypedAt(c, X[id], m)
    <3>1. CASE id = k
      BY <1>3, <2>4, <3>1 DEF TypedAt
    <3>2. CASE id # k
      BY <1>3, <3>2
    <3> QED
      BY <3>1, <3>2
  <2> QED
    BY <2>2, <2>3, <2>4
<1>9. \A m : Met(c, U, Y, L, C, m) => Met(c, T, X, L, C, m)
  <2> SUFFICES ASSUME NEW m, Met(c, U, Y, L, C, m), m # w PROVE Met(c, U, X, L, C, m)
    BY <1>4, <1>6
  <2>1. \A id \in Ids : TypedAt(c, Y[id], m) = TypedAt(c, X[id], m)
    BY <1>8
  <2> QED
    BY <2>1 DEF Met
<1>10. ASSUME NEW m \in Message PROVE Once(c, U, Y, L, C, m)
  <2>1. Once(c, U, X, L, C, m)
    BY <1>4 DEF Placed
  <2>2. CASE m = w
    <3>1. \A a, b \in Ids :
            \A p \in TypedAt(c, Y[a], m), q \in TypedAt(c, Y[b], m) : a = b /\ p = q
      <4> SUFFICES ASSUME NEW a \in Ids, NEW b \in Ids,
                          NEW p \in TypedAt(c, Y[a], w), NEW q \in TypedAt(c, Y[b], w)
                   PROVE  a = b /\ p = q
        BY <2>2
      <4>1. a = k /\ b = k
        BY <1>8
      <4> QED
        BY <1>8, <4>1
    <3> QED
      BY <1>7, <2>2, <3>1 DEF Once
  <2>3. CASE m # w
    <3>1. \A id \in Ids : TypedAt(c, Y[id], m) = TypedAt(c, X[id], m)
      BY <1>8, <2>3
    <3>2. \A a, b \in Ids :
            \A p \in TypedAt(c, Y[a], m), q \in TypedAt(c, Y[b], m) : a = b /\ p = q
      <4>1. \A a, b \in Ids :
              \A p \in TypedAt(c, X[a], m), q \in TypedAt(c, X[b], m) : a = b /\ p = q
        BY <2>1 DEF Once
      <4> QED
        BY <3>1, <4>1
    <3>3. (\E id \in Ids : TypedAt(c, Y[id], m) # {})
            <=> (\E id \in Ids : TypedAt(c, X[id], m) # {})
      BY <3>1
    <3> QED
      BY <2>1, <3>2, <3>3 DEF Once
  <2> QED
    BY <2>2, <2>3
\* What was typed into k before was later than a message that waited for its
\* boot, and earlier than another.
<1>11. /\ \A j \in Texts(c, X[k]) : X[k][j].msg \in Nat /\ X[k][j].msg \in Message
       /\ Kind(c, T[i]) = "now" => \A j \in Texts(c, X[k]) : X[k][j].msg < w
       /\ Kind(c, T[i]) = "boot" => /\ \A j \in Texts(c, X[k]) : w < X[k][j].msg
                                 /\ Rising(c, X[k])
  <2>1. /\ Kind(c, T[i]) = "now" => \A j \in Texts(c, X[k]) : X[k][j].msg < w
        /\ Kind(c, T[i]) = "boot" => /\ \A j \in Texts(c, X[k]) : w < X[k][j].msg
                                  /\ Rising(c, X[k])
    BY <1>2 DEF Turn, k, w
  <2>2. \A j \in Texts(c, X[k]) : X[k][j].msg \in Message
    BY <1>1 DEF InputType, Texts
  <2>3. \A m \in Message : m \in Nat
    BY TerminalsAssumption DEF Message
  <2> QED
    BY <2>1, <2>2, <2>3
<1>12. FirstWaits(c, Y[k])
  <2> SUFFICES ASSUME NEW a \in Texts(c, Y[k]), NEW b \in Texts(c, Y[k]), NEW d \in Texts(c, Y[k]),
                      a < b, Y[k][a].msg > Y[k][b].msg
               PROVE  Y[k][b].msg <= Y[k][d].msg
    BY DEF FirstWaits
  <2>1. a \in Texts(c, X[k]) /\ Y[k][a].msg = X[k][a].msg
    BY <1>3
  <2>2. CASE Kind(c, T[i]) = "now"
    <3>1. b \in Texts(c, X[k])
      BY <1>1, <1>3, <1>11, <2>1, <2>2
    <3>2. X[k][a].msg > X[k][b].msg /\ Y[k][b].msg = X[k][b].msg
      BY <1>3, <2>1, <3>1
    <3>3. CASE d = n
      BY <1>1, <1>3, <1>11, <2>2, <3>1, <3>2, <3>3
    <3>4. CASE d \in Texts(c, X[k])
      BY <1>1, <1>2, <1>3, <2>1, <3>1, <3>2, <3>4 DEF FirstWaits
    <3> QED
      BY <1>3, <3>3, <3>4
  <2>3. CASE Kind(c, T[i]) = "boot"
    <3>1. b \notin Texts(c, X[k])
      BY <1>3, <1>11, <2>1, <2>3 DEF Rising
    <3>2. b = n /\ Y[k][b].msg = w
      BY <1>3, <3>1
    <3> QED
      BY <1>1, <1>3, <1>11, <2>3, <3>2
  <2> QED
    BY <1>1, <2>2, <2>3
<1>13. \A id \in Ids : FirstWaits(c, Y[id])
  BY <1>2, <1>3, <1>12
<1>14. Turn(c, U, Y)
  <2> SUFFICES ASSUME NEW a \in DOMAIN U, Kind(c, U[a]) # "enter"
               PROVE  /\ Kind(c, U[a]) = "now" =>
                           \A j \in Texts(c, Y[U[a].id]) : Y[U[a].id][j].msg < U[a].msg
                      /\ Kind(c, U[a]) = "boot" =>
                           /\ \A j \in Texts(c, Y[U[a].id]) : U[a].msg < Y[U[a].id][j].msg
                           /\ Rising(c, Y[U[a].id])
    BY DEF Turn
  <2>1. PICK b \in DOMAIN T : b # i /\ U[a] = T[b]
    BY <1>2, WithoutWaits
  <2>2. T[b].id \in Ids /\ T[b].msg \in Nat /\ b \in Nat /\ i \in Nat
    BY SeqDomain, TimerType
  <2>3. /\ Kind(c, T[b]) = "now" =>
             \A j \in Texts(c, X[T[b].id]) : X[T[b].id][j].msg < T[b].msg
        /\ Kind(c, T[b]) = "boot" =>
             /\ \A j \in Texts(c, X[T[b].id]) : T[b].msg < X[T[b].id][j].msg
             /\ Rising(c, X[T[b].id])
    BY <1>2 DEF Turn
  <2>4. CASE T[b].id # k
    BY <1>3, <2>1, <2>2, <2>3, <2>4
  <2>5. CASE T[b].id = k /\ Kind(c, T[b]) = "now"
    <3>1. w < T[b].msg
      <4>1. CASE Kind(c, T[i]) = "now"
        <5>1. ~(b < i)
          BY <2>5, <4>1
        <5>2. i < b
          BY <2>1, <2>2, <5>1
        <5> QED
          BY <1>2, <2>5, <4>1, <5>2 DEF TimersSound, w
      <4>2. CASE Kind(c, T[i]) = "boot"
        BY <1>2, <2>1, <2>5, <4>2 DEF TimersSound, w, k
      <4> QED
        BY <1>1, <4>1, <4>2
    <3>2. \A j \in Texts(c, Y[k]) : Y[k][j].msg < T[b].msg
      BY <1>3, <2>3, <2>5, <3>1
    <3> QED
      BY <2>1, <2>5, <3>2
  <2>6. CASE T[b].id = k /\ Kind(c, T[b]) = "boot"
    <3>1. T[b].msg < w
      BY <1>2, <2>1, <2>6 DEF TimersSound, w, k
    <3>2. Kind(c, T[i]) = "now"
      <4>1. Kind(c, T[i]) = "boot" => w < T[b].msg
        BY <1>2, <2>1, <2>6 DEF TimersSound, w, k
      <4> QED
        BY <1>1, <2>2, <3>1, <4>1
    <3>3. \A j \in Texts(c, Y[k]) : T[b].msg < Y[k][j].msg
      BY <1>3, <2>3, <2>6, <3>1
    <3>4. Rising(c, X[k])
      BY <2>3, <2>6
    <3>5. ASSUME NEW p \in Texts(c, Y[k]), NEW q \in Texts(c, Y[k]), p < q
          PROVE  Y[k][p].msg < Y[k][q].msg
      <4>1. p \in Texts(c, X[k]) /\ Y[k][p].msg = X[k][p].msg
        BY <1>3, <3>5
      <4>2. CASE q \in Texts(c, X[k])
        BY <1>3, <3>4, <3>5, <4>1, <4>2 DEF Rising
      <4>3. CASE q = n
        BY <1>3, <1>11, <3>2, <4>1, <4>3
      <4> QED
        BY <1>3, <4>2, <4>3
    <3>6. Rising(c, Y[k])
      BY <3>5 DEF Rising
    <3> QED
      BY <2>1, <2>6, <3>3, <3>6
  <2>7. Kind(c, T[b]) \in {"now", "boot"}
    BY <2>1, SeqDomain, TimerType
  <2> QED
    BY <2>4, <2>5, <2>6, <2>7
<1> QED
  BY <1>4, <1>9, <1>10, <1>13, <1>14 DEF Placed, Ordered

-----------------------------------------------------------------------------
(* The pipe.                                                               *)

\* A line with a message.
IsInject(line) == line.type = "inject_message"

\* Messages rise along the pipe.
PipeSound(d, s) ==
  \A i \in DOMAIN d : IsInject(d[i]) =>
    /\ d[i].msg <= s
    /\ \A j \in DOMAIN d : i < j /\ IsInject(d[j]) => d[i].msg < d[j].msg

\* m was sent, and before everything in the pipe.
Behind(d, s, m) ==
  m <= s /\ \A i \in DOMAIN d : IsInject(d[i]) => m < d[i].msg

\* The fields of a line.
LEMMA LineType ==
  ASSUME NEW line \in Line
  PROVE  IF IsInject(line)
         THEN /\ line.msg \in Message /\ line.msg \in Nat
              /\ line.target \in Targets /\ line.name \in {CliName, Nothing}
              /\ line.launch \in BOOLEAN
         ELSE line.name \in Names
<1>1. CASE line \in [type : {"inject_message"}, msg : Message, target : Targets,
                     name : {CliName, Nothing}, launch : BOOLEAN]
  <2>1. line.msg \in Nat
    BY <1>1, TerminalsAssumption DEF Message
  <2> QED
    BY <1>1, <2>1 DEF IsInject
<1>2. CASE line \in [type : {"start_cli", "create_terminal", "focus_terminal", "kill_cli"},
                     name : Names]
  BY <1>2 DEF IsInject
<1> QED
  BY <1>1, <1>2 DEF Line

\* A line that was read leaves the pipe in order, and its message behind it.
LEMMA TailSound ==
  ASSUME NEW d \in Seq(Line), d # <<>>, NEW s \in Nat, PipeSound(d, s)
  PROVE  /\ Tail(d) \in Seq(Line) /\ Head(d) \in Line
         /\ PipeSound(Tail(d), s)
         /\ \A m : Behind(d, s, m) => Behind(Tail(d), s, m)
         /\ IsInject(Head(d)) => Behind(Tail(d), s, Head(d).msg)
<1> DEFINE e == Tail(d)
<1>1. /\ Len(d) \in Nat /\ Len(d) >= 1 /\ DOMAIN d = 1 .. Len(d)
      /\ e \in Seq(Line) /\ DOMAIN e = 1 .. Len(d) - 1
      /\ \A i \in 1 .. Len(d) - 1 : e[i] = d[i + 1]
      /\ Head(d) = d[1] /\ Head(d) \in Line
  OBVIOUS
<1> HIDE DEF e
<1>2. \A i \in DOMAIN e : i \in Nat /\ i + 1 \in DOMAIN d /\ 1 < i + 1 /\ e[i] = d[i + 1]
  BY <1>1
<1>3. PipeSound(e, s)
  BY <1>2 DEF PipeSound
<1>4. \A m : Behind(d, s, m) => Behind(e, s, m)
  BY <1>2 DEF Behind
<1>5. ASSUME IsInject(Head(d)) PROVE Behind(e, s, Head(d).msg)
  <2>1. 1 \in DOMAIN d /\ Head(d) = d[1]
    BY <1>1
  <2> QED
    BY <1>2, <1>5, <2>1 DEF PipeSound, Behind
<1> QED
  BY <1>1, <1>3, <1>4, <1>5 DEF e

\* A line with a new message comes last.
LEMMA AppendSound ==
  ASSUME NEW d \in Seq(Line), NEW s \in Nat, PipeSound(d, s), NEW line \in Line,
         IsInject(line) => line.msg = s + 1
  PROVE  /\ Append(d, line) \in Seq(Line)
         /\ PipeSound(Append(d, line), s + 1) /\ PipeSound(d, s + 1)
         /\ \A m \in Nat : Behind(d, s, m) =>
              Behind(Append(d, line), s + 1, m) /\ Behind(d, s + 1, m)
<1> DEFINE e == Append(d, line)
           n == Len(d) + 1
<1>1. /\ Len(d) \in Nat /\ DOMAIN d = 1 .. Len(d) /\ DOMAIN e = 1 .. Len(d) + 1
      /\ e \in Seq(Line) /\ e[n] = line /\ n \notin DOMAIN d
      /\ \A i \in DOMAIN d : e[i] = d[i] /\ i < n
  OBVIOUS
<1>2. DOMAIN e = DOMAIN d \cup {n}
  BY <1>1
<1>3. \A i \in DOMAIN d : i \in Nat /\ d[i] \in Line
  BY <1>1
<1>4. \A i \in DOMAIN d : IsInject(d[i]) => d[i].msg \in Nat
  BY <1>3, LineType
<1>5. n \in Nat
  BY <1>1
<1> HIDE DEF e, n
<1>6. PipeSound(e, s + 1)
  <2> SUFFICES ASSUME NEW i \in DOMAIN e, IsInject(e[i])
               PROVE  /\ e[i].msg <= s + 1
                      /\ \A j \in DOMAIN e : i < j /\ IsInject(e[j]) => e[i].msg < e[j].msg
    BY DEF PipeSound
  <2>1. CASE i \in DOMAIN d
    <3>1. e[i] = d[i] /\ d[i].msg \in Nat /\ d[i].msg <= s
      BY <1>1, <1>4, <2>1 DEF PipeSound
    <3>2. ASSUME NEW j \in DOMAIN d, i < j, IsInject(e[j]) PROVE e[i].msg < e[j].msg
      BY <1>1, <2>1, <3>1, <3>2 DEF PipeSound
    <3>3. IsInject(e[n]) => e[i].msg < e[n].msg
      BY <1>1, <3>1
    <3> QED
      BY <1>2, <3>1, <3>2, <3>3
  <2>2. CASE i = n
    <3>1. e[i].msg = s + 1
      BY <1>1, <2>2
    <3>2. \A j \in DOMAIN e : ~(i < j)
      BY <1>1, <1>2, <1>3, <1>5, <2>2
    <3> QED
      BY <3>1, <3>2
  <2> QED
    BY <1>2, <2>1, <2>2
<1>7. PipeSound(d, s + 1)
  BY <1>4 DEF PipeSound
<1>8. ASSUME NEW m \in Nat, Behind(d, s, m)
      PROVE  Behind(e, s + 1, m) /\ Behind(d, s + 1, m)
  <2>1. m <= s /\ m <= s + 1 /\ m < s + 1
    BY <1>8 DEF Behind
  <2>2. \A i \in DOMAIN d : IsInject(d[i]) => m < d[i].msg
    BY <1>8 DEF Behind
  <2>3. \A i \in DOMAIN e : IsInject(e[i]) => m < e[i].msg
    BY <1>1, <1>2, <2>1, <2>2
  <2> QED
    BY <2>1, <2>2, <2>3 DEF Behind
<1> QED
  BY <1>1, <1>6, <1>7, <1>8 DEF e

\* Of a socket that closes what had arrived is left.
LEMMA PrefixSound ==
  ASSUME NEW d \in Seq(Line), NEW s, PipeSound(d, s), NEW n \in 0 .. Len(d)
  PROVE  /\ SubSeq(d, 1, n) \in Seq(Line)
         /\ PipeSound(SubSeq(d, 1, n), s)
         /\ \A m : Behind(d, s, m) => Behind(SubSeq(d, 1, n), s, m)
<1> DEFINE e == SubSeq(d, 1, n)
<1>1. /\ e \in Seq(Line) /\ DOMAIN e = 1 .. n
      /\ \A i \in 1 .. n : e[i] = d[i]
      /\ DOMAIN d = 1 .. Len(d) /\ Len(d) \in Nat
  OBVIOUS
<1> HIDE DEF e
<1>2. \A i \in DOMAIN e : i \in DOMAIN d /\ e[i] = d[i]
  BY <1>1
<1>3. PipeSound(e, s)
  BY <1>2 DEF PipeSound
<1>4. \A m : Behind(d, s, m) => Behind(e, s, m)
  BY <1>2 DEF Behind
<1> QED
  BY <1>1, <1>3, <1>4 DEF e

-----------------------------------------------------------------------------
(* The terminals.                                                          *)

\* An entry of vscode.window.terminals.
Terminal == [id : Ids, name : Names]

\* A terminal of a window is one that was made, and nothing was typed into one
\* that was not; a command comes first.
TerminalsSound(t, n, X) ==
  /\ \A i \in DOMAIN t : t[i].id <= n
  /\ \A id \in Ids : id > n => X[id] = <<>>
  /\ \A id \in Ids : \A i \in DOMAIN X[id] : X[id][i].key = "launch" => i = 1

\* A terminal that is found is one of the window.
LEMMA FindFinds ==
  ASSUME NEW w \in Editors, terms[w] \in Seq(Terminal), NEW name, name \in NamesIn(w)
  PROVE  \E i \in DOMAIN terms[w] : Find(w, name) = terms[w][i].id
<1> DEFINE I == {i \in 1 .. Len(terms[w]) : terms[w][i].name = name}
<1>1. DOMAIN terms[w] = 1 .. Len(terms[w])
  BY SeqDomain
<1>2. I # {} /\ I \subseteq Nat
  BY <1>1 DEF NamesIn
<1>3. \E x \in I : \A y \in I : x <= y
  <2> HIDE DEF I
  <2> QED
    BY <1>2, LeastOf
<1>4. SelectInSeq(terms[w], LAMBDA t : t.name = name) = Min(I)
  BY <1>2 DEF SelectInSeq
<1>5. Min(I) \in I
  <2> HIDE DEF I
  <2> QED
    BY <1>3, Zenon DEF Min
<1> QED
  BY <1>1, <1>4, <1>5 DEF Find

\* A key is typed: it is one more text of the socket its message came by.
LEMMA KeyTyped ==
  ASSUME NEW c \in Sockets, NEW s \in Seq(Typed), NEW e \in Typed
  PROVE  /\ Append(s, e) \in Seq(Typed)
         /\ DOMAIN Append(s, e) = DOMAIN s \cup {Len(s) + 1}
         /\ \A i \in DOMAIN s : Append(s, e)[i] = s[i] /\ i \in Nat /\ i < Len(s) + 1
         /\ Append(s, e)[Len(s) + 1] = e /\ Len(s) + 1 \in Nat
         /\ Texts(c, Append(s, e)) = IF e.key = "text" /\ e.via = c
                                     THEN Texts(c, s) \cup {Len(s) + 1}
                                     ELSE Texts(c, s)
<1> DEFINE u == Append(s, e)
           n == Len(s) + 1
<1>1. /\ u \in Seq(Typed) /\ DOMAIN u = 1 .. Len(s) + 1
      /\ Len(s) \in Nat /\ DOMAIN s = 1 .. Len(s)
      /\ u[n] = e /\ \A i \in 1 .. Len(s) : u[i] = s[i]
  OBVIOUS
<1>2. DOMAIN u = DOMAIN s \cup {n} /\ n \notin DOMAIN s /\ n \in Nat
  BY <1>1
<1>3. \A i \in DOMAIN s : u[i] = s[i] /\ i \in Nat /\ i < n
  BY <1>1
<1> HIDE DEF u, n
<1>4. ~(e.key = "text" /\ e.via = c) => Texts(c, u) = Texts(c, s)
  BY <1>1, <1>2, <1>3 DEF Texts
<1>5. e.key = "text" /\ e.via = c => Texts(c, u) = Texts(c, s) \cup {n}
  BY <1>1, <1>2, <1>3 DEF Texts
<1> QED
  BY <1>1, <1>2, <1>3, <1>4, <1>5 DEF u, n

\* A key of a message.
Pressed(key, m, c) == [key |-> key, msg |-> m, via |-> c]

\* The keys that are typed.
LEMMA PressedType ==
  /\ \A m \in Message : \A c \in Sockets :
       Pressed("text", m, c) \in Typed /\ Pressed("enter", m, c) \in Typed
  /\ Pressed("launch", Nothing, Nothing) \in Typed
  BY DEF Pressed, Typed

\* A terminal is there, or one is made, and its command typed into it.
Ensures(w, name) ==
  /\ made' \in [Editors -> 0 .. MaxTerminals]
  /\ terms' \in [Editors -> Seq(Terminal)]
  /\ input' \in [Editors -> [Ids -> Seq(Typed)]]
  /\ \A v \in Editors : v # w =>
       made'[v] = made[v] /\ terms'[v] = terms[v] /\ input'[v] = input[v]
  /\ made[w] <= made'[w]
  /\ \A c \in Sockets : SameTexts(c, input[w], input'[w])
  /\ InputType(w, input'[w])
  /\ TerminalsSound(terms'[w], made'[w], input'[w])
  /\ name \notin NamesIn(w) =>
       made'[w] = made[w] + 1 /\ made[w] + 1 \in Ids /\ input[w][made[w] + 1] = <<>>

\* ensureTerminal does what Ensures says of it.
LEMMA EnsureEnsures ==
  ASSUME TerminalsTypeOK, NEW w \in Editors, NEW name \in Names, NEW launch \in BOOLEAN,
         InputType(w, input[w]), TerminalsSound(terms[w], made[w], input[w]),
         Ensure(w, name, launch)
  PROVE  Ensures(w, name)
<1>1. /\ made \in [Editors -> 0 .. MaxTerminals]
      /\ terms \in [Editors -> Seq(Terminal)]
      /\ input \in [Editors -> [Ids -> Seq(Typed)]]
  BY DEF TerminalsTypeOK, Terminal
<1>2. CASE name \in NamesIn(w)
  <2>1. made' = made /\ terms' = terms /\ input' = input
    BY <1>2 DEF Ensure
  <2>2. \A c \in Sockets : SameTexts(c, input[w], input[w])
    BY DEF SameTexts
  <2>3. made[w] \in Nat
    BY <1>1, TerminalsAssumption
  <2> QED
    BY <1>1, <1>2, <2>1, <2>2, <2>3 DEF Ensures
<1>3. CASE name \notin NamesIn(w)
  <2> DEFINE id == made[w] + 1
             t == [id |-> id, name |-> name]
             s == input[w][id]
             u == Append(s, Pressed("launch", Nothing, Nothing))
  <2>1. /\ id \in Ids
        /\ made' = [made EXCEPT ![w] = id]
        /\ terms' = [terms EXCEPT ![w] = Append(terms[w], t)]
        /\ input' = IF launch THEN [input EXCEPT ![w][id] = u] ELSE input
    BY <1>3 DEF Ensure, Type, Pressed
  <2>2. made[w] \in Nat /\ id \in Nat /\ id > made[w] /\ id \in 0 .. MaxTerminals
    BY <1>1, <2>1, TerminalsAssumption DEF Ids
  <2>3. t \in Terminal
    BY <2>1 DEF Terminal
  <2>4. s \in Seq(Typed) /\ s = <<>>
    BY <1>1, <2>1, <2>2 DEF TerminalsSound
  <2>5. /\ u \in Seq(Typed) /\ DOMAIN u = {1} /\ u[1].key = "launch"
        /\ DOMAIN s = {}
    BY <2>4, PressedType DEF Pressed
  <2> HIDE DEF id, t, s, u
  <2>6. made' \in [Editors -> 0 .. MaxTerminals] /\ made'[w] = id
    BY <1>1, <2>1, <2>2
  <2>7. /\ terms' \in [Editors -> Seq(Terminal)]
        /\ terms'[w] = Append(terms[w], t)
    <3>1. terms[w] \in Seq(Terminal)
      BY <1>1
    <3>2. Append(terms[w], t) \in Seq(Terminal)
      BY <2>3, <3>1
    <3> QED
      BY <1>1, <2>1, <3>2
  <2>8. /\ input' \in [Editors -> [Ids -> Seq(Typed)]]
        /\ \A d \in Ids : d # id => input'[w][d] = input[w][d]
        /\ input'[w][id] \in {s, u} /\ input[w][id] = s
    BY <1>1, <2>1, <2>4, <2>5 DEF s
  <2>9. \A v \in Editors : v # w =>
          made'[v] = made[v] /\ terms'[v] = terms[v] /\ input'[v] = input[v]
    BY <1>1, <2>1
  <2>10. ASSUME NEW c \in Sockets PROVE SameTexts(c, input[w], input'[w])
    <3>1. Texts(c, s) = {} /\ Texts(c, u) = {}
      BY <2>5 DEF Texts
    <3> QED
      BY <2>8, <3>1 DEF SameTexts
  <2>11. InputType(w, input'[w])
    <3>1. input'[w] \in [Ids -> Seq(Typed)]
      BY <2>8
    <3>2. \A i \in DOMAIN input'[w][id] : input'[w][id][i].key # "text"
      BY <2>5, <2>8
    <3> QED
      BY <2>8, <3>1, <3>2 DEF InputType
  <2>12. TerminalsSound(terms'[w], made'[w], input'[w])
    <3>1. \A i \in DOMAIN terms'[w] : terms'[w][i].id <= id
      <4>1. terms[w] \in Seq(Terminal)
        BY <1>1
      <4>2. \A i \in DOMAIN terms[w] : terms[w][i].id <= made[w] /\ terms[w][i].id \in Ids
        <5>1. \A i \in DOMAIN terms[w] : terms[w][i] \in Terminal
          BY <4>1, SeqDomain
        <5>2. \A i \in DOMAIN terms[w] : terms[w][i].id \in Ids
          BY <5>1 DEF Terminal
        <5> QED
          BY <5>2 DEF TerminalsSound
      <4>3. \A i \in DOMAIN terms[w] : terms[w][i].id <= id
        BY <2>2, <4>2 DEF Ids
      <4>4. t.id <= id
        BY <2>2 DEF t
      <4>5. \A i \in DOMAIN Append(terms[w], t) :
              Append(terms[w], t)[i] = t
                \/ (i \in DOMAIN terms[w] /\ Append(terms[w], t)[i] = terms[w][i])
        BY <2>3, <4>1
      <4> QED
        BY <2>7, <4>3, <4>4, <4>5
    <3>2. \A d \in Ids : d > id => input'[w][d] = <<>>
      <4>1. \A d \in Ids : d > id => d > made[w] /\ d # id
        BY <2>2 DEF id, Ids
      <4> QED
        BY <2>8, <4>1 DEF TerminalsSound
    <3>3. \A d \in Ids : \A i \in DOMAIN input'[w][d] : input'[w][d][i].key = "launch" => i = 1
      <4>1. \A i \in DOMAIN input'[w][id] : i = 1
        BY <2>4, <2>5, <2>8
      <4> QED
        BY <2>8, <4>1 DEF TerminalsSound
    <3> QED
      BY <2>6, <3>1, <3>2, <3>3 DEF TerminalsSound
  <2>13. made[w] <= id
    BY <2>2
  <2>14. made'[w] = made[w] + 1 /\ made[w] + 1 \in Ids /\ input[w][made[w] + 1] = <<>>
    BY <2>1, <2>4, <2>6, <2>8 DEF id
  <2> QED
    BY <2>6, <2>7, <2>8, <2>9, <2>10, <2>11, <2>12, <2>13, <2>14 DEF Ensures
<1> QED
  BY <1>2, <1>3

-----------------------------------------------------------------------------
(* The steps.                                                              *)

\* The messages of c in the chat.
ChatOf(c) == ToSet(chat[c])

\* The timers of a window are of its terminals and of its sockets.
TimersOf(w, T, n) == \A a \in DOMAIN T : T[a].id <= n /\ WindowOf(T[a].via) = w

\* What holds of a window.
WindowSound(w) ==
  /\ TerminalsSound(terms[w], made[w], input[w])
  /\ TimersOf(w, timers[w], made[w])
  /\ InputType(w, input[w])

\* A message that came by c is found somewhere in the window.
MetBy(c, m) ==
  Met(c, timers[WindowOf(c)], input[WindowOf(c)], lost[c], ChatOf(c), m)

\* The messages that came by c are in order, each in one place.
PlacedBy(c) ==
  Placed(c, timers[WindowOf(c)], input[WindowOf(c)], lost[c], ChatOf(c))

\* What holds of a socket.
SocketSound(c) ==
  /\ PipeSound(down[c], sent)
  /\ \A m \in Message : MetBy(c, m) => Behind(down[c], sent, m)
  /\ PlacedBy(c)

\* The inductive invariant.
TerminalsInv ==
  /\ TerminalsTypeOK
  /\ \A w \in Editors : WindowSound(w)
  /\ \A c \in Sockets : SocketSound(c)

\* What a step does elsewhere it does not do to the window v.
Spared(v) ==
  /\ terms'[v] = terms[v] /\ made'[v] = made[v]
  /\ timers'[v] = timers[v] /\ input'[v] = input[v]

\* What is left in a socket was there before.
Kept(c) ==
  /\ PipeSound(down'[c], sent)
  /\ \A m : Behind(down[c], sent, m) => Behind(down'[c], sent, m)

\* A socket belongs to a window.
LEMMA SocketWindow ==
  ASSUME NEW c \in Sockets PROVE WindowOf(c) \in Editors
  BY TerminalsAssumption DEF WindowOf

\* A window that is spared stays sound.
LEMMA SparedSound ==
  ASSUME NEW v \in Editors, WindowSound(v), Spared(v)
  PROVE  WindowSound(v)'
  BY DEF WindowSound, Spared

\* A socket stays sound whose messages are where they were, or gone with a
\* timer, and whose lines are read or lost.
LEMMA KeptSound ==
  ASSUME NEW c \in Sockets, SocketSound(c), Kept(c), sent' = sent, PlacedBy(c)',
         \A m \in Message : MetBy(c, m)' => MetBy(c, m)
  PROVE  SocketSound(c)'
  BY DEF SocketSound, Kept

\* A socket of a window that is spared, with nothing shown or lost of it.
LEMMA IdleSound ==
  ASSUME NEW c \in Sockets, SocketSound(c), Kept(c), sent' = sent, Spared(WindowOf(c)),
         chat'[c] = chat[c], lost'[c] = lost[c]
  PROVE  SocketSound(c)'
<1>1. /\ timers'[WindowOf(c)] = timers[WindowOf(c)]
      /\ input'[WindowOf(c)] = input[WindowOf(c)]
      /\ ChatOf(c)' = ChatOf(c) /\ lost'[c] = lost[c]
  BY DEF Spared, ChatOf
<1>2. PlacedBy(c)' /\ \A m \in Message : MetBy(c, m)' => MetBy(c, m)
  BY <1>1 DEF SocketSound, PlacedBy, MetBy
<1> QED
  BY <1>2, KeptSound

\* The invariant holds of the windows and sockets when nothing was sent.
LEMMA InitTerminalsInv == TerminalsInit => TerminalsInv
<1> SUFFICES ASSUME TerminalsInit PROVE TerminalsInv
  OBVIOUS
<1>1. TerminalsTypeOK
  BY TerminalsAssumption DEF TerminalsInit, TerminalsTypeOK, Ids
<1>2. ASSUME NEW w \in Editors
      PROVE  /\ terms[w] = <<>> /\ timers[w] = <<>> /\ input[w] = [i \in Ids |-> <<>>]
             /\ DOMAIN terms[w] = {} /\ DOMAIN timers[w] = {}
             /\ \A id \in Ids : DOMAIN input[w][id] = {} /\ input[w][id] = <<>>
  BY DEF TerminalsInit
<1>3. ASSUME NEW w \in Editors PROVE WindowSound(w)
  <2>1. TerminalsSound(terms[w], made[w], input[w])
    BY <1>2 DEF TerminalsSound
  <2>2. TimersOf(w, timers[w], made[w])
    BY <1>2 DEF TimersOf
  <2>3. InputType(w, input[w])
    BY <1>1, <1>2 DEF TerminalsTypeOK, InputType
  <2> QED
    BY <2>1, <2>2, <2>3 DEF WindowSound
<1>4. ASSUME NEW c \in Sockets PROVE SocketSound(c)
  <2> DEFINE w == WindowOf(c)
  <2>1. w \in Editors
    BY SocketWindow
  <2>2. /\ down[c] = <<>> /\ DOMAIN down[c] = {} /\ lost[c] = {}
        /\ chat[c] = <<>> /\ ChatOf(c) = {}
    BY DEF TerminalsInit, ChatOf, ToSet
  <2> HIDE DEF w
  <2>3. \A id \in Ids : Texts(c, input[w][id]) = {}
    BY <1>2, <2>1 DEF Texts
  <2>4. \A m : /\ Waits(c, timers[w], m) = {}
               /\ \A id \in Ids : TypedAt(c, input[w][id], m) = {}
    BY <1>2, <2>1, <2>3 DEF Waits, TypedAt
  <2>5. PipeSound(down[c], sent)
    BY <2>2 DEF PipeSound
  <2>6. \A m : ~Met(c, timers[w], input[w], lost[c], ChatOf(c), m)
    BY <2>2, <2>4 DEF Met
  <2>7. ASSUME NEW m \in Message
        PROVE  Once(c, timers[w], input[w], lost[c], ChatOf(c), m)
    BY <2>2, <2>4 DEF Once
  <2>8. TimersSound(c, timers[w]) /\ Turn(c, timers[w], input[w])
    BY <1>2, <2>1 DEF TimersSound, Turn
  <2>9. \A id \in Ids : FirstWaits(c, input[w][id])
    BY <2>3 DEF FirstWaits
  <2>10. Placed(c, timers[w], input[w], lost[c], ChatOf(c))
    BY <2>7, <2>8, <2>9 DEF Placed, Ordered
  <2> QED
    BY <2>5, <2>6, <2>10 DEF SocketSound, MetBy, PlacedBy, w
<1> QED
  BY <1>1, <1>3, <1>4 DEF TerminalsInv

\* The agent writes a line.
LEMMA WriteKeeps ==
  ASSUME TerminalsInv, NEW cs \in SUBSET Sockets, NEW line,
         sent < MaxMessages => line \in Line,
         IsInject(line) => line.msg = sent + 1,
         Write(cs, line)
  PROVE  TerminalsInv'
<1>1. /\ sent < MaxMessages /\ sent' = sent + 1 /\ line \in Line
      /\ down' = [c \in Sockets |-> IF c \in cs THEN Append(down[c], line) ELSE down[c]]
      /\ UNCHANGED <<clients, terms, made, dying, timers, input, chat, lost>>
  BY DEF Write
<1>2. TerminalsTypeOK /\ sent \in Nat /\ sent' \in 0 .. MaxMessages
  <2>1. TerminalsTypeOK
    BY DEF TerminalsInv
  <2>2. sent \in 0 .. MaxMessages
    BY <2>1 DEF TerminalsTypeOK
  <2> QED
    BY <1>1, <2>1, <2>2, TerminalsAssumption
<1>3. ASSUME NEW c \in Sockets
      PROVE  /\ down'[c] \in Seq(Line)
             /\ PipeSound(down'[c], sent + 1)
             /\ \A m \in Nat : Behind(down[c], sent, m) => Behind(down'[c], sent + 1, m)
  <2>1. down[c] \in Seq(Line) /\ PipeSound(down[c], sent)
    BY <1>2 DEF TerminalsInv, TerminalsTypeOK, SocketSound
  <2>2. down'[c] \in {Append(down[c], line), down[c]}
    BY <1>1
  <2> QED
    BY <1>1, <1>2, <2>1, <2>2, AppendSound
<1>4. TerminalsTypeOK'
  <2>1. down' \in [Sockets -> Seq(Line)]
    BY <1>1, <1>3
  <2> QED
    BY <1>1, <1>2, <2>1 DEF TerminalsTypeOK
<1>5. ASSUME NEW w \in Editors PROVE WindowSound(w)'
  BY <1>1, SparedSound DEF TerminalsInv, Spared
<1>6. ASSUME NEW c \in Sockets PROVE SocketSound(c)'
  <2>1. SocketSound(c)
    BY DEF TerminalsInv
  <2>2. \A m \in Message : m \in Nat
    BY TerminalsAssumption DEF Message
  <2>3. PlacedBy(c)' /\ \A m \in Message : MetBy(c, m)' => MetBy(c, m)
    BY <1>1, <2>1 DEF SocketSound, PlacedBy, MetBy, ChatOf
  <2>4. \A m \in Message : MetBy(c, m)' => Behind(down'[c], sent', m)
    BY <1>1, <1>3, <2>1, <2>2, <2>3 DEF SocketSound
  <2>5. PipeSound(down'[c], sent')
    BY <1>1, <1>3
  <2> QED
    BY <2>3, <2>4, <2>5 DEF SocketSound
<1> QED
  BY <1>4, <1>5, <1>6 DEF TerminalsInv

\* What phones send.
LEMMA SentKeeps ==
  ASSUME TerminalsInv,
         \/ \E target \in Targets :
              DirectMessage(target) \/ \E c \in Sockets : RelayMessage(c, target)
         \/ Commands
  PROVE  TerminalsInv'
<1>1. sent < MaxMessages => sent + 1 \in Message
  BY TerminalsAssumption DEF TerminalsInv, TerminalsTypeOK, Message
<1>2. ASSUME NEW m \in Message, NEW target \in Targets
      PROVE  Routed(m, target) \in Line /\ Relayed(m, target) \in Line
  BY DEF Routed, Relayed, Inject, Line
<1>3. \A m, target : Routed(m, target).msg = m /\ Relayed(m, target).msg = m
  BY DEF Routed, Relayed, Inject
<1>4. clients \in SUBSET Sockets
  BY DEF TerminalsInv, TerminalsTypeOK
<1>5. CASE \E target \in Targets :
             DirectMessage(target) \/ \E c \in Sockets : RelayMessage(c, target)
  <2>1. PICK target \in Targets :
          DirectMessage(target) \/ \E c \in Sockets : RelayMessage(c, target)
    BY <1>5
  <2>2. CASE DirectMessage(target)
    <3>1. Write(clients, Routed(sent + 1, target))
      BY <2>2 DEF DirectMessage
    <3> QED
      BY <1>1, <1>2, <1>3, <1>4, <3>1, WriteKeeps
  <2>3. ASSUME NEW c \in Sockets, RelayMessage(c, target) PROVE TerminalsInv'
    <3>1. Write({c}, Relayed(sent + 1, target))
      BY <2>3 DEF RelayMessage
    <3> QED
      BY <1>1, <1>2, <1>3, <3>1, WriteKeeps
  <2> QED
    BY <2>1, <2>2, <2>3
<1>6. CASE Commands
  <2>1. PICK type \in {"start_cli", "create_terminal", "focus_terminal", "kill_cli"},
             name \in Names : Command(type, name)
    BY <1>6 DEF Commands, Names, CliName
  <2> DEFINE line == [type |-> type, name |-> name]
  <2>2. line \in Line /\ ~IsInject(line)
    BY DEF Line, IsInject
  <2>3. Write(clients, line)
    BY <2>1 DEF Command
  <2> HIDE DEF line
  <2> QED
    BY <1>4, <2>2, <2>3, WriteKeeps
<1> QED
  BY <1>5, <1>6

\* A step of one window.
LEMMA StepKeeps ==
  ASSUME TerminalsInv, NEW w \in Editors, TerminalsTypeOK',
         \A v \in Editors : v # w => Spared(v), WindowSound(w)',
         \A c \in Sockets : SocketSound(c)'
  PROVE  TerminalsInv'
<1>1. ASSUME NEW v \in Editors, v # w PROVE WindowSound(v)'
  BY <1>1, SparedSound DEF TerminalsInv
<1> QED
  BY <1>1 DEF TerminalsInv

\* The types of a window and of a socket.
LEMMA WindowVarsType ==
  ASSUME TerminalsTypeOK, NEW w \in Editors
  PROVE  /\ made[w] \in 0 .. MaxTerminals /\ made[w] \in Nat
         /\ terms[w] \in Seq(Terminal) /\ timers[w] \in Seq(Timer)
         /\ input[w] \in [Ids -> Seq(Typed)] /\ dying[w] \in SUBSET Ids
<1>1. made[w] \in 0 .. MaxTerminals
  BY DEF TerminalsTypeOK
<1>2. made[w] \in Nat
  BY <1>1, TerminalsAssumption
<1> QED
  BY <1>1, <1>2 DEF TerminalsTypeOK, Terminal

LEMMA SocketVarsType ==
  ASSUME TerminalsTypeOK, NEW c \in Sockets
  PROVE  /\ down[c] \in Seq(Line) /\ chat[c] \in Seq(Message)
         /\ lost[c] \in SUBSET Message
  BY DEF TerminalsTypeOK

\* Sockets open and close: what is left in them is in order.
LEMMA SocketKeeps ==
  ASSUME TerminalsInv, NEW c \in Sockets, OpenSocket(c) \/ CloseSocket(c)
  PROVE  TerminalsInv'
<1>1. UNCHANGED <<sent, terms, made, dying, timers, input, chat, lost>>
  BY DEF OpenSocket, CloseSocket
<1>2. TerminalsTypeOK /\ down \in [Sockets -> Seq(Line)] /\ clients \in SUBSET Sockets
  BY DEF TerminalsInv, TerminalsTypeOK
<1>3. clients' \in SUBSET Sockets
  BY <1>2 DEF OpenSocket, CloseSocket
<1>4. down' \in [Sockets -> Seq(Line)] /\ \A d \in Sockets : Kept(d)
  <2>1. \A d \in Sockets : PipeSound(down[d], sent)
    BY DEF TerminalsInv, SocketSound
  <2>2. CASE OpenSocket(c)
    <3>1. down' = down
      BY <2>2 DEF OpenSocket
    <3> QED
      BY <1>2, <2>1, <3>1 DEF Kept
  <2>3. CASE CloseSocket(c)
    <3>1. PICK n \in 0 .. Len(down[c]) : down' = [down EXCEPT ![c] = SubSeq(down[c], 1, n)]
      BY <2>3 DEF CloseSocket
    <3>2. down[c] \in Seq(Line) /\ PipeSound(down[c], sent)
      BY <1>2, <2>1
    <3> DEFINE e == SubSeq(down[c], 1, n)
    <3>3. /\ e \in Seq(Line) /\ PipeSound(e, sent)
          /\ \A m : Behind(down[c], sent, m) => Behind(e, sent, m)
      BY <3>2, PrefixSound
    <3> HIDE DEF e
    <3>4. /\ down' = [down EXCEPT ![c] = e] /\ down'[c] = e
          /\ \A d \in Sockets : d # c => down'[d] = down[d]
      BY <1>2, <3>1 DEF e
    <3>5. ASSUME NEW d \in Sockets PROVE Kept(d)
      <4>1. CASE d = c
        BY <3>3, <3>4, <4>1 DEF Kept
      <4>2. CASE d # c
        BY <2>1, <3>4, <4>2 DEF Kept
      <4> QED
        BY <4>1, <4>2
    <3> QED
      BY <1>2, <3>3, <3>4, <3>5
  <2> QED
    BY <2>2, <2>3
<1>5. TerminalsTypeOK'
  BY <1>1, <1>2, <1>3, <1>4 DEF TerminalsTypeOK
<1>6. \A v : Spared(v)
  BY <1>1 DEF Spared
<1>7. \A v \in Editors : WindowSound(v)'
  BY <1>6, SparedSound DEF TerminalsInv
<1>8. \A d \in Sockets : SocketSound(d)'
  BY <1>1, <1>4, <1>6, IdleSound DEF TerminalsInv
<1> QED
  BY <1>5, <1>7, <1>8 DEF TerminalsInv

\* A line is read: it leaves its socket, and its message is nowhere yet.
LEMMA PipeRead ==
  ASSUME TerminalsInv, NEW c \in Sockets, down[c] # <<>>,
         down' = [down EXCEPT ![c] = Tail(@)]
  PROVE  /\ down' \in [Sockets -> Seq(Line)]
         /\ Head(down[c]) \in Line
         /\ \A d \in Sockets : Kept(d)
         /\ IsInject(Head(down[c])) =>
              /\ Behind(down'[c], sent, Head(down[c]).msg)
              /\ \A m \in Message : MetBy(c, m) => m < Head(down[c]).msg
<1>1. TerminalsTypeOK /\ \A d \in Sockets : SocketSound(d)
  BY DEF TerminalsInv
<1>2. down \in [Sockets -> Seq(Line)] /\ down[c] \in Seq(Line)
  BY <1>1 DEF TerminalsTypeOK
<1>3. sent \in Nat
  <2>1. sent \in 0 .. MaxMessages
    BY <1>1 DEF TerminalsTypeOK
  <2> QED
    BY <2>1, TerminalsAssumption
<1>4. down'[c] = Tail(down[c]) /\ \A d \in Sockets : d # c => down'[d] = down[d]
  BY <1>2
<1>5. \A d \in Sockets : PipeSound(down[d], sent)
  BY <1>1 DEF SocketSound
<1>6. /\ Tail(down[c]) \in Seq(Line) /\ Head(down[c]) \in Line
      /\ PipeSound(Tail(down[c]), sent)
      /\ \A m : Behind(down[c], sent, m) => Behind(Tail(down[c]), sent, m)
      /\ IsInject(Head(down[c])) => Behind(Tail(down[c]), sent, Head(down[c]).msg)
  BY <1>2, <1>3, <1>5, TailSound
<1>7. down' \in [Sockets -> Seq(Line)]
  BY <1>2, <1>6
<1>8. ASSUME IsInject(Head(down[c])), NEW m \in Message, MetBy(c, m)
      PROVE  m < Head(down[c]).msg
  <2>1. Behind(down[c], sent, m)
    BY <1>1, <1>8 DEF SocketSound
  <2>2. 1 \in DOMAIN down[c] /\ Head(down[c]) = down[c][1]
    BY <1>2
  <2> QED
    BY <1>8, <2>1, <2>2 DEF Behind
<1>9. ASSUME NEW d \in Sockets PROVE Kept(d)
  <2>1. CASE d = c
    BY <1>4, <1>6, <2>1 DEF Kept
  <2>2. CASE d # c
    BY <1>4, <1>5, <2>2 DEF Kept
  <2> QED
    BY <2>1, <2>2
<1> QED
  BY <1>4, <1>6, <1>7, <1>8, <1>9

\* The elements of a sequence with one more.
LEMMA ToSetAppend ==
  ASSUME NEW E, NEW s \in Seq(E), NEW e \in E
  PROVE  ToSet(Append(s, e)) = ToSet(s) \cup {e}
<1>1. /\ DOMAIN Append(s, e) = DOMAIN s \cup {Len(s) + 1}
      /\ \A i \in DOMAIN s : Append(s, e)[i] = s[i]
      /\ Append(s, e)[Len(s) + 1] = e
  OBVIOUS
<1> QED
  BY <1>1 DEF ToSet

\* A message for the chat is shown there.
LEMMA ToChatKeeps ==
  ASSUME TerminalsInv, NEW c \in Sockets, down[c] # <<>>, ToChat(c, Head(down[c])),
         down' = [down EXCEPT ![c] = Tail(@)], UNCHANGED <<sent, clients, dying>>
  PROVE  TerminalsInv'
<1> DEFINE line == Head(down[c])
           w == WindowOf(c)
<1>1. TerminalsTypeOK /\ \A d \in Sockets : SocketSound(d)
  BY DEF TerminalsInv
<1>2. /\ IsInject(line)
      /\ chat' = [chat EXCEPT ![c] = Append(@, line.msg)]
      /\ UNCHANGED <<terms, made, timers, input, lost>>
  BY DEF ToChat, IsInject
<1>3. /\ down' \in [Sockets -> Seq(Line)] /\ line \in Line
      /\ \A d \in Sockets : Kept(d)
      /\ Behind(down'[c], sent, line.msg)
      /\ \A m \in Message : MetBy(c, m) => m < line.msg
  BY <1>2, PipeRead
<1> HIDE DEF line
<1>4. line.msg \in Message /\ line.msg \in Nat
  BY <1>2, <1>3, LineType
<1>5. ~MetBy(c, line.msg)
  BY <1>3, <1>4
<1>6. /\ chat' \in [Sockets -> Seq(Message)] /\ chat'[c] = Append(chat[c], line.msg)
      /\ \A d \in Sockets : d # c => chat'[d] = chat[d]
  <2>1. chat \in [Sockets -> Seq(Message)] /\ chat[c] \in Seq(Message)
    BY <1>1 DEF TerminalsTypeOK
  <2>2. Append(chat[c], line.msg) \in Seq(Message)
    BY <1>4, <2>1
  <2> QED
    BY <1>2, <2>1, <2>2
<1>7. ChatOf(c)' = ChatOf(c) \cup {line.msg}
  <2>1. chat[c] \in Seq(Message)
    BY <1>1, SocketVarsType
  <2> QED
    BY <1>4, <1>6, <2>1, ToSetAppend DEF ChatOf
<1>8. TerminalsTypeOK'
  BY <1>1, <1>2, <1>3, <1>6 DEF TerminalsTypeOK
<1>9. \A v : Spared(v)
  BY <1>2 DEF Spared
<1>10. \A v \in Editors : WindowSound(v)'
  BY <1>9, SparedSound DEF TerminalsInv
<1>11. SocketSound(c)'
  <2> DEFINE C == ChatOf(c) \cup {line.msg}
  <2>1. Placed(c, timers[w], input[w], lost[c], ChatOf(c))
    BY <1>1 DEF SocketSound, PlacedBy
  <2>2. ~Met(c, timers[w], input[w], lost[c], ChatOf(c), line.msg)
    BY <1>5 DEF MetBy
  <2>3. /\ Placed(c, timers[w], input[w], lost[c], C)
        /\ \A m : Met(c, timers[w], input[w], lost[c], C, m) =>
             m = line.msg \/ Met(c, timers[w], input[w], lost[c], ChatOf(c), m)
    BY <2>1, <2>2, ElsewhereSound
  <2>4. PlacedBy(c)'
    BY <1>2, <1>7, <2>3 DEF PlacedBy
  <2>5. \A m \in Message : MetBy(c, m)' => m = line.msg \/ MetBy(c, m)
    BY <1>2, <1>7, <2>3 DEF MetBy
  <2> QED
    BY <1>1, <1>3, <2>4, <2>5 DEF SocketSound, Kept
<1>12. \A d \in Sockets : SocketSound(d)'
  <2> SUFFICES ASSUME NEW d \in Sockets, d # c PROVE SocketSound(d)'
    BY <1>11
  <2>1. lost'[d] = lost[d] /\ chat'[d] = chat[d]
    BY <1>2, <1>6
  <2> QED
    BY <1>1, <1>3, <1>9, <2>1, IdleSound
<1> QED
  BY <1>8, <1>10, <1>12 DEF TerminalsInv

\* What a target resolves to.
LEMMA ResolvedType ==
  ASSUME NEW line \in Line, IsInject(line)
  PROVE  Resolved(line) \in Names \cup {Nothing}
<1>1. line.target \in Allowed /\ line.name \in {CliName, Nothing}
  BY LineType, TerminalsAssumption
<1> QED
  BY <1>1 DEF Resolved, Allowed, Names, CliName

\* A terminal that is found was made.
LEMMA FoundMade ==
  ASSUME TerminalsInv, NEW w \in Editors, NEW name, name \in NamesIn(w)
  PROVE  Find(w, name) \in Ids /\ Find(w, name) <= made[w]
<1>1. TerminalsTypeOK /\ TerminalsSound(terms[w], made[w], input[w])
  BY DEF TerminalsInv, WindowSound
<1>2. terms[w] \in Seq(Terminal)
  BY <1>1, WindowVarsType
<1>3. PICK i \in DOMAIN terms[w] : Find(w, name) = terms[w][i].id
  BY <1>2, FindFinds
<1>4. terms[w][i] \in Terminal
  BY <1>2, SeqDomain
<1>5. terms[w][i].id \in Ids
  BY <1>4 DEF Terminal
<1>6. terms[w][i].id <= made[w]
  BY <1>1 DEF TerminalsSound
<1> QED
  BY <1>3, <1>5, <1>6

\* A terminal is made or found: no message of a socket of the window moves.
LEMMA ReadEnsures ==
  ASSUME TerminalsInv, NEW w \in Editors, NEW name \in Names, NEW launch \in BOOLEAN,
         Ensure(w, name, launch)
  PROVE  /\ Ensures(w, name)
         /\ \A c \in Sockets : WindowOf(c) = w =>
              /\ Placed(c, timers[w], input'[w], lost[c], ChatOf(c))
              /\ \A m : Met(c, timers[w], input'[w], lost[c], ChatOf(c), m) => MetBy(c, m)
         /\ \A a \in DOMAIN timers[w] :
              /\ timers[w][a].id \in Nat /\ timers[w][a].id <= made[w]
              /\ WindowOf(timers[w][a].via) = w
         /\ made[w] \in Nat /\ made'[w] \in Nat
<1>1. TerminalsTypeOK /\ WindowSound(w) /\ \A c \in Sockets : SocketSound(c)
  BY DEF TerminalsInv
<1>2. InputType(w, input[w]) /\ TerminalsSound(terms[w], made[w], input[w])
  BY <1>1 DEF WindowSound
<1>3. Ensures(w, name)
  BY <1>1, <1>2, EnsureEnsures
<1>4. timers[w] \in Seq(Timer) /\ made[w] \in Nat
  BY <1>1, WindowVarsType
<1>5. ASSUME NEW c \in Sockets, WindowOf(c) = w
      PROVE  /\ Placed(c, timers[w], input'[w], lost[c], ChatOf(c))
             /\ \A m : Met(c, timers[w], input'[w], lost[c], ChatOf(c), m) => MetBy(c, m)
  <2>1. SameTexts(c, input[w], input'[w])
    BY <1>3 DEF Ensures
  <2>2. Placed(c, timers[w], input[w], lost[c], ChatOf(c))
    BY <1>1, <1>5 DEF SocketSound, PlacedBy
  <2>3. /\ Placed(c, timers[w], input'[w], lost[c], ChatOf(c))
        /\ \A m : Met(c, timers[w], input'[w], lost[c], ChatOf(c), m) =>
             Met(c, timers[w], input[w], lost[c], ChatOf(c), m)
    BY <1>4, <2>1, <2>2, SameTextsSound
  <2> QED
    BY <1>5, <2>3 DEF MetBy
<1>6. made'[w] \in Nat
  <2>1. made'[w] \in 0 .. MaxTerminals
    BY <1>3 DEF Ensures
  <2> QED
    BY <2>1, TerminalsAssumption
<1>7. \A a \in DOMAIN timers[w] :
        /\ timers[w][a].id \in Nat /\ timers[w][a].id <= made[w]
        /\ WindowOf(timers[w][a].via) = w
  <2>1. \A a \in DOMAIN timers[w] : timers[w][a].id \in Ids
    BY <1>4, SeqDomain, TimerType
  <2>2. \A id \in Ids : id \in Nat
    BY TerminalsAssumption DEF Ids
  <2>3. \A a \in DOMAIN timers[w] :
          timers[w][a].id <= made[w] /\ WindowOf(timers[w][a].via) = w
    BY <1>1 DEF WindowSound, TimersOf
  <2> QED
    BY <2>1, <2>2, <2>3
<1> QED
  BY <1>3, <1>4, <1>5, <1>6, <1>7

\* A message for a terminal waits for a timer of the terminal, or is lost
\* when the terminal is being disposed of.
LEMMA ToTerminalKeeps ==
  ASSUME TerminalsInv, NEW c \in Sockets, down[c] # <<>>, ToTerminal(c, Head(down[c])),
         down' = [down EXCEPT ![c] = Tail(@)], UNCHANGED <<sent, clients, dying>>
  PROVE  TerminalsInv'
<1> DEFINE line == Head(down[c])
           w == WindowOf(c)
           name == Resolved(line)
           existed == name \in NamesIn(w)
           id == IF existed THEN Find(w, name) ELSE made[w] + 1
           T == timers[w]
           X == input'[w]
           L == lost[c]
           C == ChatOf(c)
<1>1. TerminalsTypeOK /\ \A d \in Sockets : SocketSound(d)
  BY DEF TerminalsInv
<1>2. /\ IsInject(line) /\ name # Nothing
      /\ Ensure(w, name, line.launch)
      /\ chat' = chat
  BY DEF ToTerminal, IsInject
<1>3. /\ down' \in [Sockets -> Seq(Line)] /\ line \in Line
      /\ \A d \in Sockets : Kept(d)
      /\ Behind(down'[c], sent, line.msg)
      /\ \A m \in Message : MetBy(c, m) => m < line.msg
  BY <1>2, PipeRead
<1>4. \/ /\ existed /\ ~Usable(w, id)
         /\ lost' = [lost EXCEPT ![c] = lost[c] \cup {line.msg}]
         /\ timers' = timers
      \/ SetTimer(c, line, id, existed) /\ lost' = lost
  BY DEF ToTerminal
<1>5. w \in Editors
  BY SocketWindow
<1>6. WindowOf(c) = w
  OBVIOUS
<1> HIDE DEF line, w
<1>7. line.msg \in Message /\ line.msg \in Nat /\ line.launch \in BOOLEAN
  BY <1>2, <1>3, LineType
<1>8. name \in Names
  BY <1>2, <1>3, ResolvedType
<1> HIDE DEF name
<1>9. /\ Ensures(w, name)
      /\ \A d \in Sockets : WindowOf(d) = w =>
           /\ Placed(d, T, X, lost[d], ChatOf(d))
           /\ \A m : Met(d, T, X, lost[d], ChatOf(d), m) => MetBy(d, m)
      /\ \A a \in DOMAIN T :
           T[a].id \in Nat /\ T[a].id <= made[w] /\ WindowOf(T[a].via) = w
      /\ made[w] \in Nat /\ made'[w] \in Nat
  BY <1>2, <1>5, <1>7, <1>8, ReadEnsures
<1>10. /\ Placed(c, T, X, L, C)
       /\ \A m \in Message : Met(c, T, X, L, C, m) => m < line.msg
       /\ ~Met(c, T, X, L, C, line.msg)
  <2>1. Placed(c, T, X, L, C) /\ \A m : Met(c, T, X, L, C, m) => MetBy(c, m)
    BY <1>6, <1>9
  <2>2. ~MetBy(c, line.msg)
    BY <1>3, <1>7
  <2> QED
    BY <1>3, <2>1, <2>2
<1>11. /\ made' \in [Editors -> 0 .. MaxTerminals]
       /\ terms' \in [Editors -> Seq(Terminal)]
       /\ input' \in [Editors -> [Ids -> Seq(Typed)]]
       /\ \A v \in Editors : v # w =>
            made'[v] = made[v] /\ terms'[v] = terms[v] /\ input'[v] = input[v]
       /\ made[w] <= made'[w] /\ InputType(w, X)
       /\ TerminalsSound(terms'[w], made'[w], X)
  BY <1>9 DEF Ensures
<1>12. \A d \in Sockets : ChatOf(d)' = ChatOf(d)
  BY <1>2 DEF ChatOf
<1>13. id \in Ids /\ id <= made'[w]
  <2>1. CASE existed
    <3>1. Find(w, name) \in Ids /\ Find(w, name) <= made[w]
      BY <1>5, <2>1, FoundMade
    <3>2. Find(w, name) \in Nat
      BY <3>1, TerminalsAssumption DEF Ids
    <3> QED
      BY <1>9, <1>11, <2>1, <3>1, <3>2
  <2>2. CASE ~existed
    <3>1. made'[w] = made[w] + 1 /\ made[w] + 1 \in Ids
      BY <1>9, <2>2 DEF Ensures
    <3> QED
      BY <1>9, <2>2, <3>1
  <2> QED
    BY <2>1, <2>2
<1>14. /\ timers \in [Editors -> Seq(Timer)] /\ T \in Seq(Timer)
       /\ lost \in [Sockets -> SUBSET Message] /\ L \in SUBSET Message
  BY <1>1, <1>5 DEF TerminalsTypeOK
<1>15. /\ dying' \in [Editors -> SUBSET Ids] /\ chat' \in [Sockets -> Seq(Message)]
       /\ sent' \in 0 .. MaxMessages /\ clients' \in SUBSET Sockets
  BY <1>1, <1>2 DEF TerminalsTypeOK
\* The sockets of other windows.
<1>16. ASSUME NEW d \in Sockets, WindowOf(d) # w, timers'[WindowOf(d)] = timers[WindowOf(d)],
              lost'[d] = lost[d]
       PROVE  SocketSound(d)'
  <2>1. Spared(WindowOf(d))
    BY <1>11, <1>16, SocketWindow DEF Spared
  <2> QED
    BY <1>1, <1>2, <1>3, <1>16, <2>1, IdleSound
\* The terminal is being disposed of: the message is lost.
<1>17. CASE lost' = [lost EXCEPT ![c] = L \cup {line.msg}] /\ timers' = timers
  <2>1. /\ lost' \in [Sockets -> SUBSET Message] /\ lost'[c] = L \cup {line.msg}
        /\ \A d \in Sockets : d # c => lost'[d] = lost[d]
    BY <1>7, <1>14, <1>17
  <2>2. TerminalsTypeOK'
    BY <1>3, <1>11, <1>14, <1>15, <1>17, <2>1 DEF TerminalsTypeOK, Terminal
  <2>3. \A v \in Editors : v # w => Spared(v)
    BY <1>11, <1>17 DEF Spared
  <2>4. WindowSound(w)'
    <3>1. TimersOf(w, T, made'[w])
      BY <1>9, <1>11 DEF TimersOf
    <3>2. timers'[w] = T
      BY <1>17
    <3> QED
      BY <1>11, <3>1, <3>2 DEF WindowSound
  <2>5. SocketSound(c)'
    <3>1. /\ Placed(c, T, X, L \cup {line.msg}, C)
          /\ \A m : Met(c, T, X, L \cup {line.msg}, C, m) =>
               m = line.msg \/ Met(c, T, X, L, C, m)
      BY <1>10, ElsewhereSound
    <3>2. PlacedBy(c)'
      BY <1>6, <1>12, <1>17, <2>1, <3>1 DEF PlacedBy
    <3>3. \A m \in Message : MetBy(c, m)' => m = line.msg \/ MetBy(c, m)
      <4>1. \A m \in Message : MetBy(c, m)' => Met(c, T, X, L \cup {line.msg}, C, m)
        BY <1>6, <1>12, <1>17, <2>1 DEF MetBy
      <4> QED
        BY <1>6, <1>9, <3>1, <4>1
    <3> QED
      BY <1>1, <1>3, <3>2, <3>3 DEF SocketSound, Kept
  <2>6. ASSUME NEW d \in Sockets, d # c, WindowOf(d) = w PROVE SocketSound(d)'
    <3>1. PlacedBy(d)' /\ \A m \in Message : MetBy(d, m)' => MetBy(d, m)
      <4>1. timers'[w] = T /\ lost'[d] = lost[d] /\ ChatOf(d)' = ChatOf(d)
        BY <1>12, <1>17, <2>1, <2>6
      <4>2. /\ Placed(d, T, X, lost[d], ChatOf(d))
            /\ \A m : Met(d, T, X, lost[d], ChatOf(d), m) => MetBy(d, m)
        BY <1>9, <2>6
      <4>3. PlacedBy(d)'
        BY <2>6, <4>1, <4>2 DEF PlacedBy
      <4>4. \A m \in Message : MetBy(d, m)' => Met(d, T, X, lost[d], ChatOf(d), m)
        BY <2>6, <4>1 DEF MetBy
      <4> QED
        BY <4>2, <4>3, <4>4
    <3> QED
      BY <1>1, <1>3, <3>1, KeptSound
  <2>7. \A d \in Sockets : SocketSound(d)'
    BY <1>16, <1>17, <2>1, <2>5, <2>6, <1>6
  <2> QED
    BY <1>5, <2>2, <2>3, <2>4, <2>7, StepKeeps
\* It waits for its timer.
<1>18. CASE SetTimer(c, line, id, existed) /\ lost' = lost
  <2> DEFINE t == [delay |-> IF existed THEN "now" ELSE "boot", id |-> id,
                   msg |-> line.msg, via |-> c, booting |-> ~existed]
             U == Append(T, t)
  <2>1. timers' = [timers EXCEPT ![w] = U]
    BY <1>6, <1>18 DEF SetTimer
  <2>2. t \in Timer
    BY <1>7, <1>13 DEF Timer, Delay
  <2>3. Kind(c, t) = "boot" =>
          Texts(c, X[t.id]) = {} /\ \A a \in DOMAIN T : T[a].id # t.id
    <3> SUFFICES ASSUME ~existed
                 PROVE  Texts(c, X[id]) = {} /\ \A a \in DOMAIN T : T[a].id # id
      BY DEF Kind
    <3>1. id = made[w] + 1 /\ id \in Ids /\ input[w][id] = <<>>
      BY <1>9 DEF Ensures
    <3>2. Texts(c, X[id]) = Texts(c, input[w][id])
      BY <1>9, <3>1 DEF Ensures, SameTexts
    <3>3. Texts(c, input[w][id]) = {}
      BY <3>1 DEF Texts
    <3>4. \A a \in DOMAIN T : T[a].id # made[w] + 1
      BY <1>9
    <3> QED
      BY <3>1, <3>2, <3>3, <3>4
  <2>4. /\ Kind(c, t) # "enter" /\ t.msg = line.msg /\ t.id = id
        /\ WindowOf(t.via) = w
        /\ \A d \in Sockets : d # c => Kind(d, t) = "enter"
    BY <1>6 DEF Kind
  <2> HIDE DEF t, id, existed, X, C, L, T
  <2>5. /\ Placed(c, U, X, L, C)
        /\ \A m : Met(c, U, X, L, C, m) => m = line.msg \/ Met(c, T, X, L, C, m)
    BY <1>10, <1>11, <1>14, <2>2, <2>3, <2>4, WaitSound
  <2>6. ASSUME NEW d \in Sockets, d # c, WindowOf(d) = w
        PROVE  /\ Placed(d, U, X, lost[d], ChatOf(d))
               /\ \A m : Met(d, U, X, lost[d], ChatOf(d), m) => MetBy(d, m)
    <3>1. /\ Placed(d, T, X, lost[d], ChatOf(d))
          /\ \A m : Met(d, T, X, lost[d], ChatOf(d), m) => MetBy(d, m)
      BY <1>9, <2>6
    <3>2. /\ Placed(d, U, X, lost[d], ChatOf(d))
          /\ \A m : Met(d, U, X, lost[d], ChatOf(d), m) =>
               Met(d, T, X, lost[d], ChatOf(d), m)
      BY <1>14, <2>2, <2>4, <2>6, <3>1, BesideSound
    <3> QED
      BY <3>1, <3>2
  <2>7. /\ U \in Seq(Timer) /\ DOMAIN U = DOMAIN T \cup {Len(T) + 1}
        /\ \A a \in DOMAIN T : U[a] = T[a]
        /\ U[Len(T) + 1] = t
    BY <1>14, <2>2
  <2> HIDE DEF U
  <2>8. /\ timers' \in [Editors -> Seq(Timer)] /\ timers'[w] = U
        /\ \A v \in Editors : v # w => timers'[v] = timers[v]
    BY <1>5, <1>14, <2>1, <2>7
  <2>9. TerminalsTypeOK'
    BY <1>3, <1>11, <1>14, <1>15, <1>18, <2>8 DEF TerminalsTypeOK, Terminal
  <2>10. \A v \in Editors : v # w => Spared(v)
    BY <1>11, <2>8 DEF Spared
  <2>11. WindowSound(w)'
    <3>1. \A a \in DOMAIN T : T[a].id <= made'[w] /\ WindowOf(T[a].via) = w
      BY <1>9, <1>11
    <3>2. t.id <= made'[w] /\ WindowOf(t.via) = w
      BY <1>13, <2>4
    <3>3. TimersOf(w, U, made'[w])
      BY <2>7, <3>1, <3>2 DEF TimersOf
    <3> QED
      BY <1>11, <2>8, <3>3 DEF WindowSound, X
  <2>12. SocketSound(c)'
    <3>1. lost'[c] = L /\ input'[w] = X /\ ChatOf(c)' = C
      BY <1>12, <1>18 DEF L, X, C
    <3>2. PlacedBy(c)'
      BY <1>6, <2>5, <2>8, <3>1 DEF PlacedBy
    <3>3. \A m \in Message : MetBy(c, m)' => m = line.msg \/ MetBy(c, m)
      <4>1. \A m : Met(c, T, X, L, C, m) => MetBy(c, m)
        BY <1>6, <1>9 DEF L, C
      <4>2. \A m \in Message : MetBy(c, m)' => Met(c, U, X, L, C, m)
        BY <1>6, <2>8, <3>1 DEF MetBy
      <4> QED
        BY <2>5, <4>1, <4>2
    <3> QED
      BY <1>1, <1>3, <3>2, <3>3 DEF SocketSound, Kept
  <2>13. ASSUME NEW d \in Sockets, d # c, WindowOf(d) = w PROVE SocketSound(d)'
    <3>1. lost'[d] = lost[d] /\ input'[w] = X /\ ChatOf(d)' = ChatOf(d)
      BY <1>12, <1>18 DEF X
    <3>2. PlacedBy(d)'
      BY <2>6, <2>8, <2>13, <3>1 DEF PlacedBy
    <3>3. \A m \in Message : MetBy(d, m)' => Met(d, U, X, lost[d], ChatOf(d), m)
      BY <2>8, <2>13, <3>1 DEF MetBy
    <3>4. \A m \in Message : MetBy(d, m)' => MetBy(d, m)
      BY <2>6, <2>13, <3>3
    <3> QED
      BY <1>1, <1>3, <3>2, <3>4, KeptSound
  <2>14. ASSUME NEW d \in Sockets, WindowOf(d) # w PROVE SocketSound(d)'
    <3>1. timers'[WindowOf(d)] = timers[WindowOf(d)]
      BY <2>8, <2>14, SocketWindow
    <3> QED
      BY <1>16, <1>18, <2>14, <3>1
  <2> QED
    BY <1>5, <2>9, <2>10, <2>11, <2>12, <2>13, <2>14, StepKeeps
<1> QED
  BY <1>4, <1>17, <1>18

\* A window makes a terminal or finds one, and sets no timer.
LEMMA EnsuredSound ==
  ASSUME TerminalsInv, NEW w \in Editors, NEW name \in Names, NEW launch \in BOOLEAN,
         Ensure(w, name, launch), UNCHANGED <<sent, clients, dying, timers, chat, lost>>,
         down' \in [Sockets -> Seq(Line)], \A c \in Sockets : Kept(c)
  PROVE  TerminalsInv'
<1>1. TerminalsTypeOK /\ WindowSound(w) /\ \A c \in Sockets : SocketSound(c)
  BY DEF TerminalsInv
<1>2. /\ Ensures(w, name)
      /\ \A c \in Sockets : WindowOf(c) = w =>
           /\ Placed(c, timers[w], input'[w], lost[c], ChatOf(c))
           /\ \A m : Met(c, timers[w], input'[w], lost[c], ChatOf(c), m) => MetBy(c, m)
      /\ \A a \in DOMAIN timers[w] :
           /\ timers[w][a].id \in Nat /\ timers[w][a].id <= made[w]
           /\ WindowOf(timers[w][a].via) = w
      /\ made[w] \in Nat /\ made'[w] \in Nat
  BY ReadEnsures
<1>3. /\ made' \in [Editors -> 0 .. MaxTerminals]
      /\ terms' \in [Editors -> Seq(Terminal)]
      /\ input' \in [Editors -> [Ids -> Seq(Typed)]]
      /\ \A v \in Editors : v # w =>
           made'[v] = made[v] /\ terms'[v] = terms[v] /\ input'[v] = input[v]
      /\ made[w] <= made'[w] /\ InputType(w, input'[w])
      /\ TerminalsSound(terms'[w], made'[w], input'[w])
  BY <1>2 DEF Ensures
<1>4. TerminalsTypeOK'
  BY <1>1, <1>3 DEF TerminalsTypeOK, Terminal
<1>5. \A v \in Editors : v # w => Spared(v)
  BY <1>3 DEF Spared
<1>6. WindowSound(w)'
  <2>1. TimersOf(w, timers[w], made'[w])
    BY <1>2, <1>3 DEF TimersOf
  <2> QED
    BY <1>3, <2>1 DEF WindowSound
<1>7. ASSUME NEW c \in Sockets PROVE SocketSound(c)'
  <2>1. CASE WindowOf(c) = w
    <3>1. timers' = timers /\ lost'[c] = lost[c] /\ ChatOf(c)' = ChatOf(c)
      BY DEF ChatOf
    <3>2. PlacedBy(c)' /\ \A m \in Message : MetBy(c, m)' => MetBy(c, m)
      <4>1. PlacedBy(c)'
        BY <1>2, <2>1, <3>1 DEF PlacedBy
      <4>2. \A m \in Message : MetBy(c, m)' =>
              Met(c, timers[w], input'[w], lost[c], ChatOf(c), m)
        BY <2>1, <3>1 DEF MetBy
      <4> QED
        BY <1>2, <2>1, <4>1, <4>2
    <3> QED
      BY <1>1, <3>2, KeptSound
  <2>2. CASE WindowOf(c) # w
    <3>1. Spared(WindowOf(c))
      BY <1>5, <2>2, SocketWindow
    <3> QED
      BY <1>1, <3>1, IdleSound
  <2> QED
    BY <2>1, <2>2
<1> QED
  BY <1>4, <1>5, <1>6, <1>7, StepKeeps

\* Only what is listed, being disposed of and read changes.
LEMMA ListedSound ==
  ASSUME TerminalsInv, NEW w \in Editors, UNCHANGED <<sent, timers, input, chat, lost>>,
         TerminalsTypeOK', \A c \in Sockets : Kept(c),
         made[w] <= made'[w], TerminalsSound(terms'[w], made'[w], input[w]),
         \A v \in Editors : v # w => made'[v] = made[v] /\ terms'[v] = terms[v]
  PROVE  TerminalsInv'
<1>1. TerminalsTypeOK /\ WindowSound(w) /\ \A c \in Sockets : SocketSound(c)
  BY DEF TerminalsInv
<1>2. \A v \in Editors : v # w => Spared(v)
  BY DEF Spared
<1>3. TimersOf(w, timers[w], made'[w])
  <2>1. /\ timers[w] \in Seq(Timer) /\ made[w] \in Nat
        /\ made'[w] \in 0 .. MaxTerminals
    BY <1>1, WindowVarsType DEF TerminalsTypeOK
  <2>2. \A a \in DOMAIN timers[w] : timers[w][a].id \in Ids
    BY <2>1, SeqDomain, TimerType
  <2>3. \A a \in DOMAIN timers[w] :
          timers[w][a].id <= made[w] /\ WindowOf(timers[w][a].via) = w
    BY <1>1 DEF WindowSound, TimersOf
  <2>4. made'[w] \in Nat /\ \A id \in Ids : id \in Nat
    BY <2>1, TerminalsAssumption DEF Ids
  <2> QED
    BY <2>1, <2>2, <2>3, <2>4 DEF TimersOf
<1>4. WindowSound(w)'
  BY <1>1, <1>3 DEF WindowSound
<1>5. ASSUME NEW c \in Sockets PROVE SocketSound(c)'
  <2>1. PlacedBy(c)' /\ \A m \in Message : MetBy(c, m)' => MetBy(c, m)
    BY <1>1 DEF SocketSound, PlacedBy, MetBy, ChatOf
  <2> QED
    BY <1>1, <2>1, KeptSound
<1> QED
  BY <1>2, <1>4, <1>5, StepKeeps

\* Every handler of a line but kill_cli keeps the invariant.
LEMMA ReadLineKeeps ==
  ASSUME TerminalsInv, NEW c \in Sockets, ReadLine(c)
  PROVE  TerminalsInv'
<1> DEFINE line == Head(down[c])
           w == WindowOf(c)
<1>1. /\ down[c] # <<>> /\ down' = [down EXCEPT ![c] = Tail(@)]
      /\ UNCHANGED <<sent, clients, dying>>
      /\ ToChat(c, line) \/ ToTerminal(c, line) \/ Open(c, line) \/ Focus(line)
  BY DEF ReadLine
<1>2. CASE ToChat(c, line)
  BY <1>1, <1>2, ToChatKeeps
<1>3. CASE ToTerminal(c, line)
  BY <1>1, <1>3, ToTerminalKeeps
<1>4. w \in Editors
  BY SocketWindow
<1>5. TerminalsTypeOK /\ WindowSound(w)
  BY <1>4 DEF TerminalsInv
<1>6. /\ down' \in [Sockets -> Seq(Line)] /\ line \in Line
      /\ \A d \in Sockets : Kept(d)
  BY <1>1, PipeRead
<1>7. CASE Open(c, line)
  <2>1. /\ line.type \in {"start_cli", "create_terminal"}
        /\ Ensure(w, line.name, line.type = "start_cli")
        /\ UNCHANGED <<timers, chat, lost>>
    BY <1>7 DEF Open
  <2>2. line.name \in Names
    BY <1>6, <2>1, LineType DEF IsInject
  <2> HIDE DEF w, line
  <2> QED
    BY <1>1, <1>4, <1>6, <2>1, <2>2, EnsuredSound
<1>8. CASE Focus(line)
  <2>1. UNCHANGED <<terms, made, timers, input, chat, lost>>
    BY <1>8 DEF Focus
  <2>2. TerminalsTypeOK'
    BY <1>1, <1>5, <1>6, <2>1 DEF TerminalsTypeOK
  <2>3. made[w] <= made[w] /\ TerminalsSound(terms[w], made[w], input[w])
    BY <1>4, <1>5, WindowVarsType DEF WindowSound
  <2> HIDE DEF w
  <2> QED
    BY <1>1, <1>4, <1>6, <2>1, <2>2, <2>3, ListedSound
<1> QED
  BY <1>1, <1>2, <1>3, <1>7, <1>8

\* dispose() keeps the invariant.
LEMMA ReadKillKeeps ==
  ASSUME TerminalsInv, NEW c \in Sockets, ReadKill(c)
  PROVE  TerminalsInv'
<1> DEFINE name == Head(down[c]).name
           w == WindowOf(c)
<1>1. /\ down[c] # <<>> /\ down' = [down EXCEPT ![c] = Tail(@)]
      /\ dying' = IF name \in NamesIn(w)
                  THEN [dying EXCEPT ![w] = dying[w] \cup {Find(w, name)}] ELSE dying
      /\ UNCHANGED <<sent, clients, terms, made, timers, input, chat, lost>>
  BY DEF ReadKill
<1>2. w \in Editors
  BY SocketWindow
<1> HIDE DEF name, w
<1>3. TerminalsTypeOK /\ WindowSound(w)
  BY <1>2 DEF TerminalsInv
<1>4. down' \in [Sockets -> Seq(Line)] /\ \A d \in Sockets : Kept(d)
  BY <1>1, PipeRead
<1>5. dying' \in [Editors -> SUBSET Ids]
  <2>1. dying \in [Editors -> SUBSET Ids]
    BY <1>3 DEF TerminalsTypeOK
  <2>2. name \in NamesIn(w) => Find(w, name) \in Ids
    BY <1>2, FoundMade
  <2> QED
    BY <1>1, <1>2, <2>1, <2>2
<1>6. TerminalsTypeOK'
  BY <1>1, <1>3, <1>4, <1>5 DEF TerminalsTypeOK
<1>7. made[w] <= made[w] /\ TerminalsSound(terms[w], made[w], input[w])
  BY <1>2, <1>3, WindowVarsType DEF WindowSound
<1> QED
  BY <1>1, <1>2, <1>4, <1>6, <1>7, ListedSound

\* Sockets that are left alone keep what is in them.
LEMMA DownKept ==
  ASSUME TerminalsInv, UNCHANGED <<sent, down>>
  PROVE  \A c \in Sockets : Kept(c)
  BY DEF TerminalsInv, SocketSound, Kept

\* A terminal that closes is no longer listed; its timers and what was typed
\* stay what they were.
LEMMA CloseKeeps ==
  ASSUME TerminalsInv, NEW w \in Editors, Close(w)
  PROVE  TerminalsInv'
<1> DEFINE t == terms[w]
<1>1. PICK i \in DOMAIN t :
        /\ terms' = [terms EXCEPT ![w] = RemoveAt(t, i)]
        /\ dying' = [dying EXCEPT ![w] = dying[w] \ {t[i].id}]
  BY DEF Close
<1>2. UNCHANGED <<sent, clients, down, made, timers, input, chat, lost>>
  BY DEF Close
<1>3. TerminalsTypeOK /\ WindowSound(w) /\ t \in Seq(Terminal) /\ made[w] \in Nat
  BY WindowVarsType DEF TerminalsInv
<1>4. terms \in [Editors -> Seq(Terminal)] /\ dying \in [Editors -> SUBSET Ids]
  BY <1>3 DEF TerminalsTypeOK, Terminal
<1> DEFINE u == RemoveAt(t, i)
<1>5. /\ u \in Seq(Terminal) /\ Len(u) = Len(t) - 1
      /\ \A j \in 1 .. Len(t) - 1 : u[j] = IF j < i THEN t[j] ELSE t[j + 1]
  BY <1>3, RemoveAtIsShift
<1>6. Len(t) \in Nat /\ DOMAIN t = 1 .. Len(t) /\ DOMAIN u = 1 .. Len(u)
  BY <1>3, <1>5
<1> HIDE DEF u
<1>7. \A j \in DOMAIN u : u[j].id <= made[w]
  <2>1. \A j \in DOMAIN t : t[j].id <= made[w]
    BY <1>3 DEF WindowSound, TerminalsSound
  <2>2. \A j \in DOMAIN u : j \in DOMAIN t /\ j + 1 \in DOMAIN t
    BY <1>5, <1>6
  <2> QED
    BY <1>5, <1>6, <2>1, <2>2
<1>8. TerminalsSound(u, made[w], input[w])
  BY <1>3, <1>7 DEF WindowSound, TerminalsSound
<1>9. /\ terms' \in [Editors -> Seq(Terminal)] /\ terms'[w] = u
      /\ \A v \in Editors : v # w => terms'[v] = terms[v]
      /\ dying' \in [Editors -> SUBSET Ids]
  BY <1>1, <1>4, <1>5 DEF u
<1>10. TerminalsTypeOK'
  BY <1>2, <1>3, <1>9 DEF TerminalsTypeOK, Terminal
<1>11. made[w] <= made[w] /\ \A c \in Sockets : Kept(c)
  BY <1>2, <1>3, DownKept
<1> QED
  BY <1>2, <1>8, <1>9, <1>10, <1>11, ListedSound

\* A shell of the user is a terminal that nothing was typed into.
LEMMA OpenShellKeeps ==
  ASSUME TerminalsInv, NEW w \in Editors, OpenShell(w)
  PROVE  TerminalsInv'
<1> DEFINE t == [id |-> made[w] + 1, name |-> "bash"]
           u == Append(terms[w], t)
<1>1. /\ made[w] < MaxTerminals
      /\ made' = [made EXCEPT ![w] = made[w] + 1]
      /\ terms' = [terms EXCEPT ![w] = u]
      /\ UNCHANGED <<sent, clients, down, dying, timers, input, chat, lost>>
  BY DEF OpenShell
<1>2. TerminalsTypeOK /\ WindowSound(w)
  BY DEF TerminalsInv
<1>3. terms[w] \in Seq(Terminal) /\ made[w] \in Nat
  BY <1>2, WindowVarsType
<1>4. /\ terms \in [Editors -> Seq(Terminal)]
      /\ made \in [Editors -> 0 .. MaxTerminals]
  BY <1>2 DEF TerminalsTypeOK, Terminal
<1>5. made[w] + 1 \in Ids /\ made[w] + 1 \in 0 .. MaxTerminals
  BY <1>1, <1>3, TerminalsAssumption DEF Ids
<1>6. t \in Terminal
  BY <1>5 DEF Terminal, Names
<1>7. /\ u \in Seq(Terminal) /\ DOMAIN u = DOMAIN terms[w] \cup {Len(terms[w]) + 1}
      /\ \A i \in DOMAIN terms[w] : u[i] = terms[w][i]
      /\ u[Len(terms[w]) + 1] = t
  BY <1>3, <1>6
<1>8. t.id = made[w] + 1
  OBVIOUS
<1> HIDE DEF t, u
<1>9. TerminalsSound(u, made[w] + 1, input[w])
  <2>1. \A i \in DOMAIN terms[w] : terms[w][i].id \in Nat
    <3>1. \A i \in DOMAIN terms[w] : terms[w][i] \in Terminal
      BY <1>3, SeqDomain
    <3>2. \A i \in DOMAIN terms[w] : terms[w][i].id \in Ids
      BY <3>1 DEF Terminal
    <3> QED
      BY <3>2, TerminalsAssumption DEF Ids
  <2>2. TerminalsSound(terms[w], made[w], input[w])
    BY <1>2 DEF WindowSound
  <2>3. \A i \in DOMAIN u : u[i].id <= made[w] + 1
    <3>1. \A i \in DOMAIN terms[w] : terms[w][i].id <= made[w]
      BY <2>2 DEF TerminalsSound
    <3>2. \A i \in DOMAIN terms[w] : terms[w][i].id <= made[w] + 1
      BY <1>3, <2>1, <3>1
    <3> QED
      BY <1>3, <1>7, <1>8, <3>2
  <2>4. \A id \in Ids : id > made[w] + 1 => id > made[w]
    BY <1>3, TerminalsAssumption DEF Ids
  <2> QED
    BY <2>2, <2>3, <2>4 DEF TerminalsSound
<1>10. /\ terms' \in [Editors -> Seq(Terminal)] /\ terms'[w] = u
       /\ made' \in [Editors -> 0 .. MaxTerminals] /\ made'[w] = made[w] + 1
       /\ \A v \in Editors : v # w => terms'[v] = terms[v] /\ made'[v] = made[v]
  BY <1>1, <1>4, <1>5, <1>7
<1>11. TerminalsTypeOK'
  BY <1>1, <1>2, <1>10 DEF TerminalsTypeOK, Terminal
<1>12. made[w] <= made[w] + 1 /\ \A c \in Sockets : Kept(c)
  BY <1>1, <1>3, DownKept
<1> QED
  BY <1>1, <1>9, <1>10, <1>11, <1>12, ListedSound

\* The command devbridge.startCodexTerminal keeps the invariant.
LEMMA StartCodexKeeps ==
  ASSUME TerminalsInv, NEW w \in Editors, StartCodexTerminal(w)
  PROVE  TerminalsInv'
<1>1. /\ Ensure(w, CliName, TRUE)
      /\ UNCHANGED <<sent, clients, down, dying, timers, chat, lost>>
  BY DEF StartCodexTerminal
<1>2. CliName \in Names
  BY DEF CliName, Names
<1>3. down' \in [Sockets -> Seq(Line)] /\ \A c \in Sockets : Kept(c)
  BY <1>1, DownKept DEF TerminalsInv, TerminalsTypeOK
<1> QED
  BY <1>1, <1>2, <1>3, EnsuredSound

\* A key is typed into a terminal that was made: it is a text of the socket
\* its message came by, or no text.
LEMMA KeyKeeps ==
  ASSUME NEW w, NEW X, InputType(w, X), NEW t, NEW n \in Nat, TerminalsSound(t, n, X),
         NEW k \in Ids, k <= n, NEW e \in Typed, e.key # "launch", e.msg \in Message,
         e.via \in Sockets, WindowOf(e.via) = w
  PROVE  LET Y == [X EXCEPT ![k] = Append(X[k], e)] IN
         /\ InputType(w, Y) /\ TerminalsSound(t, n, Y)
         /\ \A c \in Sockets :
              IF e.key = "text" /\ e.via = c
              THEN Gains(c, X, Y, k, Len(X[k]) + 1, e.msg) ELSE SameTexts(c, X, Y)
<1> DEFINE s == X[k]
           u == Append(s, e)
           Y == [X EXCEPT ![k] = u]
           p == Len(s) + 1
<1>1. X \in [Ids -> Seq(Typed)] /\ s \in Seq(Typed)
  BY DEF InputType
<1>2. ASSUME NEW c \in Sockets
      PROVE  /\ u \in Seq(Typed)
             /\ DOMAIN u = DOMAIN s \cup {p}
             /\ \A i \in DOMAIN s : u[i] = s[i] /\ i \in Nat /\ i < p
             /\ u[p] = e /\ p \in Nat
             /\ Texts(c, u) = IF e.key = "text" /\ e.via = c
                              THEN Texts(c, s) \cup {p} ELSE Texts(c, s)
  BY <1>1, KeyTyped
<1> HIDE DEF u
<1>3. /\ Y \in [Ids -> Seq(Typed)] /\ Y[k] = u
      /\ \A id \in Ids : id # k => Y[id] = X[id]
  BY <1>1, <1>2
<1>4. /\ DOMAIN u = DOMAIN s \cup {p} /\ u[p] = e /\ p \in Nat
      /\ \A i \in DOMAIN s : u[i] = s[i] /\ i \in Nat /\ i < p
  BY <1>2
<1> HIDE DEF Y, p
<1>5. InputType(w, Y)
  <2>1. \A i \in DOMAIN u : u[i].key = "text" =>
          /\ u[i].msg \in Message /\ u[i].via \in Sockets /\ WindowOf(u[i].via) = w
    BY <1>4 DEF InputType
  <2>2. \A id \in Ids : \A i \in DOMAIN Y[id] : Y[id][i].key = "text" =>
          /\ Y[id][i].msg \in Message
          /\ Y[id][i].via \in Sockets /\ WindowOf(Y[id][i].via) = w
    <3> SUFFICES ASSUME NEW id \in Ids, NEW i \in DOMAIN Y[id], Y[id][i].key = "text"
                 PROVE  /\ Y[id][i].msg \in Message
                        /\ Y[id][i].via \in Sockets /\ WindowOf(Y[id][i].via) = w
      OBVIOUS
    <3>1. CASE id = k
      BY <1>3, <2>1, <3>1
    <3>2. CASE id # k
      BY <1>3, <3>2 DEF InputType
    <3> QED
      BY <3>1, <3>2
  <2> QED
    BY <1>3, <2>2 DEF InputType
<1>6. TerminalsSound(t, n, Y)
  <2>1. \A id \in Ids : id > n => Y[id] = <<>>
    <3>1. \A id \in Ids : id > n => id # k
      BY TerminalsAssumption DEF Ids
    <3> QED
      BY <1>3, <3>1 DEF TerminalsSound
  <2>2. \A i \in DOMAIN u : u[i].key = "launch" => i = 1
    BY <1>4 DEF TerminalsSound
  <2>3. \A id \in Ids : \A i \in DOMAIN Y[id] : Y[id][i].key = "launch" => i = 1
    BY <1>3, <2>2 DEF TerminalsSound
  <2> QED
    BY <2>1, <2>3 DEF TerminalsSound
<1>7. ASSUME NEW c \in Sockets
      PROVE  IF e.key = "text" /\ e.via = c
             THEN Gains(c, X, Y, k, p, e.msg) ELSE SameTexts(c, X, Y)
  <2>1. \A i \in Texts(c, s) : i \in DOMAIN s
    BY DEF Texts
  <2>2. \A i \in Texts(c, s) : u[i].msg = s[i].msg /\ i \in Nat /\ i < p
    BY <1>4, <2>1
  <2>3. CASE e.key = "text" /\ e.via = c
    <3>1. Texts(c, u) = Texts(c, s) \cup {p}
      BY <1>2, <2>3 DEF p
    <3> QED
      BY <1>3, <1>4, <2>2, <2>3, <3>1 DEF Gains
  <2>4. CASE ~(e.key = "text" /\ e.via = c)
    <3>1. Texts(c, u) = Texts(c, s)
      BY <1>2, <2>4
    <3> QED
      BY <1>3, <2>2, <2>4, <3>1 DEF SameTexts
  <2> QED
    BY <2>3, <2>4
<1> QED
  BY <1>5, <1>6, <1>7 DEF Y, u, p

\* A timer is gone, and perhaps one of an Enter set.
LEMMA RemainTimers ==
  ASSUME NEW w, NEW T \in Seq(Timer), NEW i \in DOMAIN T, NEW n, TimersOf(w, T, n)
  PROVE  LET U == RemoveAt(T, i)
             V == Append(U, [T[i] EXCEPT !.delay = "enter"])
         IN /\ U \in Seq(Timer) /\ TimersOf(w, U, n)
            /\ V \in Seq(Timer) /\ TimersOf(w, V, n)
            /\ \A c \in Sockets : Without(c, T, i, U) /\ Without(c, T, i, V)
<1> DEFINE U == RemoveAt(T, i)
           t == [T[i] EXCEPT !.delay = "enter"]
           V == Append(U, t)
<1>1. Len(T) \in Nat /\ DOMAIN T = 1 .. Len(T) /\ T[i] \in Timer
  OBVIOUS
<1>2. /\ U \in Seq(Timer) /\ Len(U) = Len(T) - 1
      /\ \A j \in 1 .. Len(T) - 1 : U[j] = IF j < i THEN T[j] ELSE T[j + 1]
  BY RemoveAtIsShift
<1>3. \A c \in Sockets : Without(c, T, i, U)
  BY RemoveIsWithout
<1>4. /\ t \in Timer /\ t.delay = "enter" /\ t.id = T[i].id /\ t.via = T[i].via
  BY <1>1 DEF Timer, Delay
<1> HIDE DEF U, t
<1>5. DOMAIN U = 1 .. Len(T) - 1
  BY <1>1, <1>2
<1>6. \A a \in DOMAIN T : T[a].id <= n /\ WindowOf(T[a].via) = w
  BY DEF TimersOf
<1>7. \A a \in DOMAIN U : U[a].id <= n /\ WindowOf(U[a].via) = w
  <2>1. \A a \in DOMAIN U : a \in DOMAIN T /\ a + 1 \in DOMAIN T
    BY <1>1, <1>5
  <2> QED
    BY <1>2, <1>5, <1>6, <2>1
<1>8. ASSUME NEW c \in Sockets PROVE Without(c, T, i, V)
  <2>1. Kind(c, t) = "enter"
    BY <1>4 DEF Kind
  <2> QED
    BY <1>2, <1>3, <1>4, <2>1, EnterIsWithout
<1>9. /\ V \in Seq(Timer) /\ DOMAIN V = DOMAIN U \cup {Len(U) + 1}
      /\ \A a \in DOMAIN U : V[a] = U[a]
      /\ V[Len(U) + 1] = t
  BY <1>2, <1>4
<1> HIDE DEF V
<1>10. \A a \in DOMAIN V : V[a].id <= n /\ WindowOf(V[a].via) = w
  BY <1>4, <1>6, <1>7, <1>9
<1> QED
  BY <1>2, <1>3, <1>7, <1>8, <1>9, <1>10 DEF V, U, t, TimersOf

\* What is to be shown of a timer that fires.
LEMMA FiredSound ==
  ASSUME TerminalsInv, NEW w \in Editors,
         NEW U \in Seq(Timer), TimersOf(w, U, made[w]),
         timers' = [timers EXCEPT ![w] = U],
         NEW Y, input' = [input EXCEPT ![w] = Y],
         InputType(w, Y), TerminalsSound(terms[w], made[w], Y),
         lost' \in [Sockets -> SUBSET Message],
         \A c \in Sockets : WindowOf(c) # w => lost'[c] = lost[c],
         UNCHANGED <<sent, clients, down, terms, made, dying, chat>>,
         \A c \in Sockets : WindowOf(c) = w =>
           /\ Placed(c, U, Y, lost'[c], ChatOf(c))
           /\ \A m : Met(c, U, Y, lost'[c], ChatOf(c), m) => MetBy(c, m)
  PROVE  TerminalsInv'
<1>1. TerminalsTypeOK /\ \A c \in Sockets : SocketSound(c) /\ Kept(c)
  BY DownKept DEF TerminalsInv
<1>2. /\ timers \in [Editors -> Seq(Timer)]
      /\ input \in [Editors -> [Ids -> Seq(Typed)]]
  BY <1>1 DEF TerminalsTypeOK
<1>3. Y \in [Ids -> Seq(Typed)]
  BY DEF InputType
<1>4. /\ timers' \in [Editors -> Seq(Timer)] /\ timers'[w] = U
      /\ input' \in [Editors -> [Ids -> Seq(Typed)]] /\ input'[w] = Y
  BY <1>2, <1>3
<1>5. \A v \in Editors : v # w => Spared(v)
  BY <1>2 DEF Spared
<1>6. TerminalsTypeOK'
  BY <1>1, <1>4 DEF TerminalsTypeOK
<1>7. WindowSound(w)'
  BY <1>4 DEF WindowSound
<1>8. ASSUME NEW c \in Sockets PROVE SocketSound(c)'
  <2>1. CASE WindowOf(c) = w
    <3>1. ChatOf(c)' = ChatOf(c)
      BY DEF ChatOf
    <3>2. PlacedBy(c)'
      BY <1>4, <2>1, <3>1 DEF PlacedBy
    <3>3. \A m : MetBy(c, m)' => Met(c, U, Y, lost'[c], ChatOf(c), m)
      BY <1>4, <2>1, <3>1 DEF MetBy
    <3>4. \A m \in Message : MetBy(c, m)' => MetBy(c, m)
      BY <2>1, <3>3
    <3> QED
      BY <1>1, <3>2, <3>4, KeptSound
  <2>2. CASE WindowOf(c) # w
    <3>1. Spared(WindowOf(c)) /\ lost'[c] = lost[c] /\ chat'[c] = chat[c]
      BY <1>5, <2>2, SocketWindow
    <3> QED
      BY <1>1, <3>1, IdleSound
  <2> QED
    BY <2>1, <2>2
<1> QED
  BY <1>5, <1>6, <1>7, <1>8, StepKeeps

\* Two keys are typed one after the other.
LEMMA TwoTyped ==
  ASSUME NEW E, NEW s \in Seq(E), NEW a \in E, NEW b \in E
  PROVE  s \o <<a, b>> = Append(Append(s, a), b)
<1> DEFINE u == s \o <<a, b>>
           v == Append(Append(s, a), b)
<1>1. /\ u \in Seq(E) /\ Len(u) = Len(s) + 2 /\ Len(s) \in Nat
      /\ v \in Seq(E) /\ Len(v) = Len(s) + 2
  OBVIOUS
<1>2. \A i \in 1 .. Len(s) + 2 : u[i] = v[i]
  OBVIOUS
<1> HIDE DEF u, v
<1>3. u = v
  BY <1>1, <1>2
<1> QED
  BY <1>3 DEF u, v

\* A timer that fires types its text, its Enter or both, or loses its message.
LEMMA FireKeeps ==
  ASSUME TerminalsInv, NEW w \in Editors, Fire(w)
  PROVE  TerminalsInv'
<1> DEFINE T == timers[w]
           X == input[w]
           C(c) == ChatOf(c)
<1>1. /\ TerminalsTypeOK /\ T \in Seq(Timer) /\ made[w] \in Nat
      /\ InputType(w, X) /\ TerminalsSound(terms[w], made[w], X)
      /\ TimersOf(w, T, made[w]) /\ lost \in [Sockets -> SUBSET Message]
  BY WindowVarsType DEF TerminalsInv, TerminalsTypeOK, WindowSound
<1>2. PICK i \in DOMAIN T :
        /\ MayFire(w, i)
        /\ SplitText(w, i) \/ PasteText(w, i) \/ TextLost(w, i) \/ Enter(w, i)
  BY DEF Fire
<1>3. UNCHANGED <<sent, clients, down, terms, made, dying, chat>>
  BY DEF Fire
<1> DEFINE t == T[i]
           k == t.id
           m == t.msg
           U == RemoveAt(T, i)
           V == Append(U, [t EXCEPT !.delay = "enter"])
           Z(e) == [X EXCEPT ![k] = Append(X[k], e)]
           text == Pressed("text", m, t.via)
           enter == Pressed("enter", m, t.via)
<1>4. /\ t \in Timer /\ k \in Ids /\ m \in Message /\ k <= made[w]
      /\ t.via \in Sockets /\ WindowOf(t.via) = w
      /\ t.delay \in {"now", "enter", "boot"}
  BY <1>1, SeqDomain, TimerType DEF TimersOf
<1>5. /\ U \in Seq(Timer) /\ TimersOf(w, U, made[w])
      /\ V \in Seq(Timer) /\ TimersOf(w, V, made[w])
      /\ \A c \in Sockets : Without(c, T, i, U) /\ Without(c, T, i, V)
  BY <1>1, RemainTimers
<1>6. t.delay = "now" => \A j \in DOMAIN T : j < i => T[j].delay # "now"
  <2>1. \A j \in 1 .. i - 1 : Delay[T[j].delay] > Delay[t.delay]
    BY <1>2 DEF MayFire, Pending
  <2>2. Delay["now"] = 0
    BY DEF Delay
  <2>3. \A j \in DOMAIN T : j < i => j \in 1 .. i - 1
    BY <1>1
  <2> QED
    BY <2>1, <2>2, <2>3
<1>7. input \in [Editors -> [Ids -> Seq(Typed)]] /\ X \in [Ids -> Seq(Typed)]
  BY <1>1 DEF TerminalsTypeOK
<1>8. /\ text \in Typed /\ text.key = "text" /\ text.msg = m /\ text.via = t.via
      /\ enter \in Typed /\ enter.key = "enter" /\ enter.msg = m /\ enter.via = t.via
  BY <1>4, PressedType DEF Pressed
<1>9. ASSUME NEW c \in Sockets, WindowOf(c) = w
      PROVE  /\ Placed(c, T, X, lost[c], C(c))
             /\ \A n : Met(c, T, X, lost[c], C(c), n) => MetBy(c, n)
  BY <1>9 DEF TerminalsInv, SocketSound, PlacedBy, MetBy
<1> HIDE DEF U, V, text, enter
<1>10. /\ InputType(w, Z(text)) /\ TerminalsSound(terms[w], made[w], Z(text))
       /\ \A c \in Sockets : IF c = t.via THEN Gains(c, X, Z(text), k, Len(X[k]) + 1, m)
                                          ELSE SameTexts(c, X, Z(text))
  <2>1. /\ text.key # "launch" /\ text.msg \in Message
        /\ text.via \in Sockets /\ WindowOf(text.via) = w
    BY <1>4, <1>8
  <2> HIDE DEF X, k, m
  <2>2. /\ InputType(w, Z(text)) /\ TerminalsSound(terms[w], made[w], Z(text))
        /\ \A c \in Sockets :
             IF text.key = "text" /\ text.via = c
             THEN Gains(c, X, Z(text), k, Len(X[k]) + 1, text.msg)
             ELSE SameTexts(c, X, Z(text))
    BY <1>1, <1>4, <1>8, <2>1, KeyKeeps
  <2> QED
    BY <1>8, <2>2
<1>11. /\ InputType(w, Z(enter)) /\ TerminalsSound(terms[w], made[w], Z(enter))
       /\ \A c \in Sockets : SameTexts(c, X, Z(enter))
  <2>1. /\ enter.key # "launch" /\ enter.msg \in Message
        /\ enter.via \in Sockets /\ WindowOf(enter.via) = w
    BY <1>4, <1>8
  <2> HIDE DEF X, k, m
  <2>2. /\ InputType(w, Z(enter)) /\ TerminalsSound(terms[w], made[w], Z(enter))
        /\ \A c \in Sockets :
             IF enter.key = "text" /\ enter.via = c
             THEN Gains(c, X, Z(enter), k, Len(X[k]) + 1, enter.msg)
             ELSE SameTexts(c, X, Z(enter))
    BY <1>1, <1>4, <1>8, <2>1, KeyKeeps
  <2> QED
    BY <1>8, <2>2
<1>12. input = [input EXCEPT ![w] = X]
  BY <1>7
\* The timer is gone, and no socket misses a message for it but its own.
<1>13. ASSUME NEW c \in Sockets, WindowOf(c) = w, NEW S \in {U, V}
       PROVE  /\ Placed(c, S, X, lost[c], C(c))
              /\ \A n : Met(c, S, X, lost[c], C(c), n) => MetBy(c, n)
              /\ Kind(c, t) # "enter" => Placed(c, S, X, lost[c] \cup {m}, C(c))
  <2>1. S \in Seq(Timer) /\ Without(c, T, i, S)
    BY <1>5, <1>13
  <2>2. /\ Placed(c, T, X, lost[c], C(c))
        /\ \A n : Met(c, T, X, lost[c], C(c), n) => MetBy(c, n)
    BY <1>9, <1>13
  <2> HIDE DEF X, C, T
  <2>3. /\ Placed(c, S, X, lost[c], C(c))
        /\ \A n : Met(c, S, X, lost[c], C(c), n) => Met(c, T, X, lost[c], C(c), n)
        /\ Kind(c, T[i]) # "enter" => Placed(c, S, X, lost[c] \cup {T[i].msg}, C(c))
    BY <1>1, <2>1, <2>2, DropSound
  <2> QED
    BY <2>2, <2>3
\* The text is typed.
<1>14. ASSUME t.delay # "enter", NEW c \in Sockets, WindowOf(c) = w, NEW S \in {U, V}
       PROVE  /\ Placed(c, S, Z(text), lost[c], C(c))
              /\ \A n : Met(c, S, Z(text), lost[c], C(c), n) => MetBy(c, n)
  <2>1. S \in Seq(Timer) /\ Without(c, T, i, S)
    BY <1>5, <1>14
  <2>2. /\ Placed(c, T, X, lost[c], C(c))
        /\ \A n : Met(c, T, X, lost[c], C(c), n) => MetBy(c, n)
    BY <1>9, <1>14
  <2>3. CASE c = t.via
    <3>1. Kind(c, t) = t.delay /\ Kind(c, t) # "enter"
      BY <1>14, <2>3 DEF Kind
    <3>2. Kind(c, t) = "now" => \A j \in DOMAIN T : j < i => Kind(c, T[j]) # "now"
      BY <1>6, <3>1 DEF Kind
    <3>3. Gains(c, X, Z(text), k, Len(X[k]) + 1, m)
      BY <1>10, <2>3
    <3> HIDE DEF Z, X, C, T
    <3>4. /\ Placed(c, S, Z(text), lost[c], C(c))
          /\ \A n : Met(c, S, Z(text), lost[c], C(c), n) =>
               Met(c, T, X, lost[c], C(c), n)
      BY <1>1, <2>1, <2>2, <3>1, <3>2, <3>3, TypeSound DEF k, m, t
    <3> QED
      BY <2>2, <3>4
  <2>4. CASE c # t.via
    <3>1. SameTexts(c, X, Z(text))
      BY <1>10, <2>4
    <3>2. /\ Placed(c, S, X, lost[c], C(c))
          /\ \A n : Met(c, S, X, lost[c], C(c), n) => MetBy(c, n)
      BY <1>13, <1>14
    <3> HIDE DEF Z, X, C, T
    <3>3. /\ Placed(c, S, Z(text), lost[c], C(c))
          /\ \A n : Met(c, S, Z(text), lost[c], C(c), n) =>
               Met(c, S, X, lost[c], C(c), n)
      BY <2>1, <3>1, <3>2, SameTextsSound
    <3> QED
      BY <3>2, <3>3
  <2> QED
    BY <2>3, <2>4
\* split
<1>15. CASE SplitText(w, i)
  <2>1. /\ t.delay # "enter" /\ timers' = [timers EXCEPT ![w] = V] /\ lost' = lost
        /\ input' = [input EXCEPT ![w] = Z(text)]
    BY <1>15 DEF SplitText, Pending, Type, Pressed, U, V, text
  <2>2. ASSUME NEW c \in Sockets, WindowOf(c) = w
        PROVE  /\ Placed(c, V, Z(text), lost'[c], C(c))
               /\ \A n : Met(c, V, Z(text), lost'[c], C(c), n) => MetBy(c, n)
    BY <1>14, <2>1, <2>2
  <2> HIDE DEF Z, T, X
  <2> QED
    BY <1>1, <1>3, <1>5, <1>10, <2>1, <2>2, FiredSound
\* paste
<1>16. CASE PasteText(w, i)
  <2> DEFINE Y == Z(text)
             P == [Y EXCEPT ![k] = Append(Y[k], enter)]
  <2>1. /\ t.delay # "enter" /\ timers' = [timers EXCEPT ![w] = U] /\ lost' = lost
        /\ input' = [input EXCEPT ![w][k] = X[k] \o <<text, enter>>]
    BY <1>16 DEF PasteText, Pending, Pressed, U, text, enter
  <2>2. X[k] \o <<text, enter>> = Append(Append(X[k], text), enter)
    <3>1. X[k] \in Seq(Typed)
      BY <1>4, <1>7
    <3> HIDE DEF Y, P, X, k, m
    <3> QED
      BY <1>8, <3>1, TwoTyped
  <2>3. P = [X EXCEPT ![k] = X[k] \o <<text, enter>>]
    BY <1>4, <1>7, <2>2
  <2>4. input' = [input EXCEPT ![w] = P]
    BY <2>1, <2>3
  <2>5. ASSUME NEW c \in Sockets, WindowOf(c) = w
        PROVE  /\ Placed(c, U, Y, lost[c], C(c))
               /\ \A n : Met(c, U, Y, lost[c], C(c), n) => MetBy(c, n)
    BY <1>14, <2>1, <2>5
  <2> HIDE DEF Y
  <2>6. InputType(w, Y) /\ TerminalsSound(terms[w], made[w], Y)
    BY <1>10 DEF Y
  <2>7. /\ InputType(w, P) /\ TerminalsSound(terms[w], made[w], P)
        /\ \A c \in Sockets : SameTexts(c, Y, P)
    BY <1>1, <1>4, <1>8, <2>6, KeyKeeps
  <2> HIDE DEF P, C, T, X
  <2>8. ASSUME NEW c \in Sockets, WindowOf(c) = w
        PROVE  /\ Placed(c, U, P, lost'[c], C(c))
               /\ \A n : Met(c, U, P, lost'[c], C(c), n) => MetBy(c, n)
    <3>1. /\ Placed(c, U, P, lost[c], C(c))
          /\ \A n : Met(c, U, P, lost[c], C(c), n) => Met(c, U, Y, lost[c], C(c), n)
      BY <1>5, <2>5, <2>7, <2>8, SameTextsSound
    <3> QED
      BY <2>1, <2>5, <2>8, <3>1
  <2> QED
    BY <1>1, <1>3, <1>5, <2>1, <2>4, <2>7, <2>8, FiredSound DEF C
\* The terminal is gone.
<1>17. CASE TextLost(w, i)
  <2>1. /\ timers' = [timers EXCEPT ![w] = U] /\ input' = input
        /\ lost' = IF t.delay = "enter" THEN lost
                   ELSE [lost EXCEPT ![t.via] = lost[t.via] \cup {m}]
    BY <1>17 DEF TextLost, Pending, U
  <2>2. /\ lost' \in [Sockets -> SUBSET Message]
        /\ \A c \in Sockets : lost'[c] = IF Kind(c, t) # "enter" THEN lost[c] \cup {m}
                                                                ELSE lost[c]
    <3>1. lost[t.via] \cup {m} \in SUBSET Message
      BY <1>1, <1>4
    <3> HIDE DEF t, m
    <3> QED
      BY <1>1, <1>4, <2>1, <3>1 DEF Kind
  <2>3. \A c \in Sockets : WindowOf(c) # w => lost'[c] = lost[c]
    BY <1>4, <2>2 DEF Kind
  <2>4. ASSUME NEW c \in Sockets, WindowOf(c) = w
        PROVE  /\ Placed(c, U, X, lost'[c], C(c))
               /\ \A n : Met(c, U, X, lost'[c], C(c), n) => MetBy(c, n)
    <3>1. /\ Placed(c, U, X, lost[c], C(c))
          /\ \A n : Met(c, U, X, lost[c], C(c), n) => MetBy(c, n)
          /\ Kind(c, t) # "enter" => Placed(c, U, X, lost[c] \cup {m}, C(c))
      BY <1>13, <2>4
    <3>2. CASE Kind(c, t) = "enter"
      BY <2>2, <3>1, <3>2
    <3>3. CASE Kind(c, t) # "enter"
      <4>1. i \in Waits(c, T, m)
        BY <3>3 DEF Waits, Kind
      <4>2. MetBy(c, m)
        <5>1. Met(c, T, X, lost[c], C(c), m)
          BY <4>1 DEF Met
        <5> QED
          BY <1>9, <2>4, <5>1
      <4>3. \A n : Met(c, U, X, lost[c] \cup {m}, C(c), n) =>
              n = m \/ Met(c, U, X, lost[c], C(c), n)
        BY DEF Met
      <4> QED
        BY <2>2, <3>1, <3>3, <4>2, <4>3
    <3> QED
      BY <3>2, <3>3
  <2>5. input' = [input EXCEPT ![w] = X]
    BY <1>12, <2>1
  <2> HIDE DEF T, X
  <2> QED
    BY <1>1, <1>3, <1>5, <2>1, <2>2, <2>3, <2>4, <2>5, FiredSound
\* The second timer of a split message.
<1>18. CASE Enter(w, i)
  <2>1. /\ timers' = [timers EXCEPT ![w] = U] /\ lost' = lost
        /\ input' = [input EXCEPT ![w] = Z(enter)]
    BY <1>18 DEF Enter, Pending, Type, Pressed, U, enter
  <2>2. ASSUME NEW c \in Sockets, WindowOf(c) = w
        PROVE  /\ Placed(c, U, Z(enter), lost'[c], C(c))
               /\ \A n : Met(c, U, Z(enter), lost'[c], C(c), n) => MetBy(c, n)
    <3>1. /\ Placed(c, U, X, lost[c], C(c))
          /\ \A n : Met(c, U, X, lost[c], C(c), n) => MetBy(c, n)
      BY <1>13, <2>2
    <3>2. SameTexts(c, X, Z(enter))
      BY <1>11
    <3> HIDE DEF Z, X, C, T
    <3>3. /\ Placed(c, U, Z(enter), lost[c], C(c))
          /\ \A n : Met(c, U, Z(enter), lost[c], C(c), n) =>
               Met(c, U, X, lost[c], C(c), n)
      BY <1>5, <3>1, <3>2, SameTextsSound
    <3> QED
      BY <2>1, <3>1, <3>3
  <2> HIDE DEF Z, T, X
  <2> QED
    BY <1>1, <1>3, <1>5, <1>11, <2>1, <2>2, FiredSound
<1> QED
  BY <1>2, <1>15, <1>16, <1>17, <1>18

\* Every step keeps the invariant.
LEMMA TerminalsNextKeeps == TerminalsInv /\ [TerminalsNext]_terminalVars => TerminalsInv'
<1> SUFFICES ASSUME TerminalsInv, [TerminalsNext]_terminalVars PROVE TerminalsInv'
  OBVIOUS
<1>1. CASE \/ \E target \in Targets :
                DirectMessage(target) \/ \E c \in Sockets : RelayMessage(c, target)
           \/ Commands
  BY <1>1, SentKeeps
<1>2. ASSUME NEW c \in Sockets,
             ReadLine(c) \/ ReadKill(c) \/ OpenSocket(c) \/ CloseSocket(c)
      PROVE  TerminalsInv'
  BY <1>2, ReadLineKeeps, ReadKillKeeps, SocketKeeps
<1>3. ASSUME NEW w \in Editors,
             Fire(w) \/ Close(w) \/ OpenShell(w) \/ StartCodexTerminal(w)
      PROVE  TerminalsInv'
  BY <1>3, FireKeeps, CloseKeeps, OpenShellKeeps, StartCodexKeeps
<1>4. CASE UNCHANGED terminalVars
  BY <1>4 DEF terminalVars, TerminalsInv, TerminalsTypeOK, WindowSound, SocketSound,
     MetBy, PlacedBy, ChatOf
<1> QED
  BY <1>1, <1>2, <1>3, <1>4 DEF TerminalsNext

\* The terminals, their timers and the sockets keep their types and the
\* invariant of every window and socket.
THEOREM TerminalsInvHolds == TerminalsSpec => []TerminalsInv
  BY InitTerminalsInv, TerminalsNextKeeps, PTL DEF TerminalsSpec

\* The variables keep their types.
THEOREM TerminalsTypeCorrect == TerminalsSpec => []TerminalsTypeOK
<1>1. TerminalsInv => TerminalsTypeOK
  BY DEF TerminalsInv
<1> QED
  BY <1>1, TerminalsInvHolds, PTL

\* A phone that starts a CLI twice, or writes to one that is running, never
\* types its command into the CLI, however many sockets bring the command
\* (extension.ts:140, chatParticipant.ts:196).
THEOREM LaunchAlwaysFirst == TerminalsSpec => []LaunchComesFirst
<1>1. TerminalsInv => LaunchComesFirst
  BY DEF TerminalsInv, WindowSound, TerminalsSound, LaunchComesFirst
<1> QED
  BY <1>1, TerminalsInvHolds, PTL

\* Of what one socket brought, a message is overtaken only when it is the one
\* its terminal was made for (chatParticipant.ts:37).
THEOREM OnlyTheFirstEverWaits == TerminalsSpec => []OnlyTheFirstWaits
<1>1. TerminalsInv => OnlyTheFirstWaits
  BY DEF TerminalsInv, SocketSound, PlacedBy, Placed, Ordered, FirstWaits,
     OnlyTheFirstWaits
<1> QED
  BY <1>1, TerminalsInvHolds, PTL

\* A message a window has read from a socket is in one place, once: it waits
\* for its timer, was typed, is in the chat, or met a terminal that was closed
\* (chatParticipant.ts:178, 201).
THEOREM AlwaysOncePerSocket == TerminalsSpec => []OncePerSocket
<1>1. TerminalsInv => OncePerSocket
  <2> SUFFICES ASSUME TerminalsInv, NEW c \in Sockets, NEW m \in Message
               PROVE  Once(c, timers[WindowOf(c)], input[WindowOf(c)], lost[c],
                           ToSet(chat[c]), m)
    BY DEF OncePerSocket, Once
  <2> QED
    BY DEF TerminalsInv, SocketSound, PlacedBy, Placed, ChatOf
<1> QED
  BY <1>1, TerminalsInvHolds, PTL

\* What types a message twice in one window is a second socket of it: while a
\* window has no more than one, TypedOncePerWindow holds (ipcClient.ts:29).
THEOREM OneSocketTypesOnce ==
  ASSUME \A c, d \in Sockets : WindowOf(c) = WindowOf(d) => c = d
  PROVE  TerminalsSpec => []TypedOncePerWindow
<1>1. TerminalsInv => TypedOncePerWindow
  <2> SUFFICES ASSUME TerminalsInv, NEW w \in Editors, NEW m \in Message,
                      NEW a \in Ids, NEW b \in Ids,
                      NEW i \in DOMAIN input[w][a], NEW j \in DOMAIN input[w][b],
                      input[w][a][i].key = "text", input[w][a][i].msg = m,
                      input[w][b][j].key = "text", input[w][b][j].msg = m
               PROVE  a = b /\ i = j
    BY DEF TypedOncePerWindow
  <2> DEFINE c == input[w][a][i].via
  <2>1. InputType(w, input[w])
    BY DEF TerminalsInv, WindowSound
  <2>2. c \in Sockets /\ WindowOf(c) = w /\ input[w][b][j].via = c
    BY <2>1 DEF InputType
  <2> HIDE DEF c
  <2>3. i \in TypedAt(c, input[w][a], m) /\ j \in TypedAt(c, input[w][b], m)
    BY <2>2 DEF TypedAt, Texts, c
  <2>4. Once(c, timers[w], input[w], lost[c], ChatOf(c), m)
    BY <2>2 DEF TerminalsInv, SocketSound, PlacedBy, Placed
  <2> QED
    BY <2>3, <2>4 DEF Once
<1> QED
  BY <1>1, TerminalsInvHolds, PTL

=============================================================================
