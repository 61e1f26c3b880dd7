----------------------------- MODULE CliRegistry -----------------------------
(***************************************************************************)
(* The agent's list of command-line assistants                             *)
(* (agent/src/cliRegistry.ts): the built-in ones and those the user added, *)
(* which of them are detected, which one is the default, and the file that *)
(* keeps the user's choices.  Two detections write the list: the agent's   *)
(* own, which waits for a command per entry, and the report of the editor. *)
(***************************************************************************)
EXTENDS InsertionMap

CONSTANTS
  Customs,   \* ids of entries a user may add, in lower case
  Local,     \* entries whose command runs where the agent runs
  Host,      \* built-in entries whose command runs where the editor runs
  MaxScans,  \* bound: local detections under way
  None       \* JavaScript null

ASSUME RegistryAssumption ==
  /\ MaxScans \in Nat
  /\ None \notin Customs \cup {"codex", "claude-code", "claude"}
  /\ Customs \cap {"codex", "claude-code", "claude"} = {}

\* Two of the four: each of the others is an entry like "codex".
Builtins == <<"codex", "claude-code">>
Aliases  == [claude |-> "claude-code"]
CliIds   == ToSet(Builtins) \cup Customs
CliNames == CliIds \cup DOMAIN Aliases

VARIABLES
  clis,    \* the Map of entries, in insertion order
  config,  \* agent.config.json; None: there is none, or it is broken
  scans,   \* the entries each detectAll() under way still waits for
  choice   \* history: the default a user chose, while the file has it

registry == <<clis, config, scans, choice>>

Cli == [id : CliIds, detected : BOOLEAN, isDefault : BOOLEAN, isCustom : BOOLEAN]

\* What agent.config.json holds.
Files == [defaultCliId : CliIds \cup {None}, customClis : Seq(Cli)]

ASSUME FileAssumption == None \notin Files

RegistryTypeOK ==
  /\ clis \in Seq(Cli)
  /\ config \in Files \cup {None}
  /\ scans \in Seq(SUBSET CliIds)
  /\ choice \in CliIds \cup {None}

-----------------------------------------------------------------------------
Entry(id, custom) ==
  [id |-> id, detected |-> FALSE, isDefault |-> FALSE, isCustom |-> custom]

\* The constructor.
BuiltinClis == [i \in DOMAIN Builtins |-> Entry(Builtins[i], FALSE)]

\* resolveId
ResolveId(m, name) ==
  CASE name \in DOMAIN Aliases /\ Aliases[name] \in Keys(m) -> Aliases[name]
    [] name \in Keys(m) -> name
    [] OTHER -> None

\* The first of the entries at the places I, as find() gives it.
FindId(m, I) ==
  IF I = {} THEN None ELSE m[CHOOSE i \in I : \A j \in I : i <= j].id

DefaultOf(m) == FindId(m, {i \in DOMAIN m : m[i].isDefault})

MakeDefault(m, id) == [i \in DOMAIN m |-> [m[i] EXCEPT !.isDefault = (m[i].id = id)]]

\* Mutant: the entries a user added come back as they are when added.
LoadPlain(file) ==
  IF file = None THEN BuiltinClis
  ELSE LET id == ResolveId(BuiltinClis, file.defaultCliId)
           built == IF id = None THEN BuiltinClis ELSE MakeDefault(BuiltinClis, id)
       IN built \o [i \in DOMAIN file.customClis |->
                      Entry(file.customClis[i].id, TRUE)]

\* The constructor and load(): the default is looked up before the entries of
\* the user are there; theirs is marked in the entry.
Load(file) ==
  IF file = None THEN BuiltinClis
  ELSE LET id == ResolveId(BuiltinClis, file.defaultCliId)
           built == IF id = None THEN BuiltinClis ELSE MakeDefault(BuiltinClis, id)
       IN built \o file.customClis

Snapshot(m) ==
  [defaultCliId |-> DefaultOf(m),
   customClis   |-> Entries(m, {i \in DOMAIN m : m[i].isCustom})]

\* persist(): what cannot be written is logged.
Persist(m, written) == config' = IF written THEN Snapshot(m) ELSE config

InitRegistry ==
  /\ clis = Load(None)
  /\ config = None
  /\ scans = <<Keys(Load(None))>>
  /\ choice = None

-----------------------------------------------------------------------------
\* setDefault(); false, and nothing happens, for a name nobody has.
SetDefault(name, written) ==
  LET id == ResolveId(clis, name) IN
  IF id = None THEN UNCHANGED registry
  ELSE /\ clis' = MakeDefault(clis, id)
       /\ Persist(clis', written)
       /\ choice' = IF written THEN id ELSE None
       /\ UNCHANGED scans

\* addCustom(): the id ends in the time, so it is a new one.
AddCustom(id, written) ==
  /\ id \notin Keys(clis) \cup UNION ToSet(scans)
  /\ clis' = Append(clis, Entry(id, TRUE))
  /\ Persist(clis', written)
  /\ UNCHANGED <<scans, choice>>

\* removeCustom(); false for an entry that is built in or not there.
RemoveCustom(id, written) ==
  IF id \notin Keys(clis) \cap Customs THEN UNCHANGED registry
  ELSE /\ clis' = MapDelete(clis, id)
       /\ Persist(clis', written)
       /\ choice' = IF choice = id THEN None ELSE choice
       /\ UNCHANGED scans

\* applyExtensionReport: what is not in the report is not detected; without a
\* default the first detected entry is one, which is not persisted.
ApplyExtensionReport(detected) ==
  LET seen == [i \in DOMAIN clis |-> [clis[i] EXCEPT !.detected = (clis[i].id \in detected)]]
      found == FindId(seen, {i \in DOMAIN seen : seen[i].detected})
  IN /\ clis' = IF DefaultOf(seen) = None /\ found # None
                THEN MakeDefault(seen, found) ELSE seen
     /\ UNCHANGED <<config, scans, choice>>

\* detectAll(): a command for each entry there is.
DetectAll ==
  /\ Len(scans) < MaxScans
  /\ scans' = Append(scans, Keys(clis))
  /\ UNCHANGED <<clis, config, choice>>

\* A command of detectAll() ends; the entry may have been removed meanwhile.
Checked(i, id) ==
  /\ id \in scans[i]
  /\ scans' = IF scans[i] = {id} THEN RemoveAt(scans, i)
              ELSE [scans EXCEPT ![i] = @ \ {id}]
  /\ clis' = [j \in DOMAIN clis |->
                IF clis[j].id = id THEN [clis[j] EXCEPT !.detected = (id \in Local)]
                ELSE clis[j]]
  /\ UNCHANGED <<config, choice>>

\* The agent starts again (index.ts) from the file it finds, and looks for
\* the commands once.
RegistryRestart(file) ==
  /\ config' = file
  /\ clis' = Load(file)
  /\ scans' = <<Keys(clis')>>
  /\ choice' = IF file = config THEN choice ELSE None

-----------------------------------------------------------------------------
\* The default a user chose, and nothing else, is marked as the default until
\* it is removed or another one is chosen: through reports, detections, other
\* entries that come and go, and a restart from the file that was written,
\* whose two records of a default load() reads at two times
\* (cliRegistry.ts:65-73).
ChoiceIsKept ==
  choice # None => {c \in ToSet(clis) : c.isDefault} = {At(clis, choice)}

=============================================================================
