------------------------ MODULE AgentAdaptersProofs ------------------------
(***************************************************************************)
(* Theorems about AgentAdapters, for any CLI adapters that are installed,  *)
(* any number of messages, of processes and of addresses they print: a     *)
(* message is typed once and in order.                                     *)
(***************************************************************************)
EXTENDS AgentAdapters, SequenceTheorems, TLAPS

\* What of the types the order of messages rests on.
TextsTyped ==
  /\ sent \in Nat
  /\ pending \in Seq(Message)
  /\ given \in [CliIds -> Seq(Message)]
  /\ typed \in [CliIds -> Seq(Message)]

\* Messages are numbered as they come.
Rising(s) == \A i, j \in DOMAIN s : i < j => s[i] < s[j]
GivenRises ==
  \A c \in CliIds : Rising(given[c]) /\ \A i \in DOMAIN given[c] : given[c][i] <= sent

\* The inductive invariant.  Nothing waits once the prompt was seen: what is
\* typed then may not overtake it (codex-cli.ts:21-25, 42-46).
OrderInv ==
  /\ TextsTyped
  /\ ready => pending = <<>>
  /\ MessagesInOrder
  /\ GivenRises

\* The messages of a sequence are numbers.
LEMMA TextsAreNumbers ==
  ASSUME NEW s \in Seq(Message)
  PROVE  DOMAIN s = 1 .. Len(s) /\ \A i \in DOMAIN s : s[i] \in Nat
<1>1. \A i \in 1 .. Len(s) : s[i] \in Message
  BY ElementOfSeq
<1>2. Message \subseteq Nat
  BY AdaptersAssumption DEF Message
<1> QED
  BY <1>1, <1>2, LenProperties

\* No message has come.
LEMMA InitOrder == Init => OrderInv
<1> SUFFICES ASSUME Init PROVE OrderInv
  OBVIOUS
<1>1. /\ sent = 0 /\ pending = <<>> /\ <<>> \in Seq(Message) /\ DOMAIN <<>> = {}
      /\ given = [c \in CliIds |-> <<>>] /\ typed = [c \in CliIds |-> <<>>]
      /\ <<>> \o <<>> = <<>>
  BY ConcatEmptySeq DEF Init
<1> QED
  BY <1>1 DEF OrderInv, TextsTyped, MessagesInOrder, GivenRises, Rising

\* Steps that do not touch what was given, waits and was typed.
LEMMA TextsUntouched ==
  ASSUME OrderInv, UNCHANGED <<sent, pending, ready, given, typed>>
  PROVE  OrderInv'
  BY DEF OrderInv, TextsTyped, MessagesInOrder, GivenRises, Rising

\* The agent writes texts to the process of one CLI.
LEMMA WriteTypes ==
  ASSUME TextsTyped, NEW c \in CliIds, NEW texts \in Seq(Message), Write(c, texts)
  PROVE  /\ typed' \in [CliIds -> Seq(Message)]
         /\ typed'[c] = typed[c] \o texts
         /\ \A d \in CliIds \ {c} : typed'[d] = typed[d]
<1>1. typed[c] \o texts \in Seq(Message)
  BY ConcatProperties DEF TextsTyped
<1> QED
  BY <1>1 DEF Write, TextsTyped

\* A message more, at the end of what the adapter was given.
LEMMA GivenOneMore ==
  ASSUME OrderInv, NEW c \in CliIds, New, given' = [given EXCEPT ![c] = Append(@, sent + 1)]
  PROVE  /\ sent' \in Nat
         /\ sent + 1 \in Message
         /\ given' \in [CliIds -> Seq(Message)]
         /\ given'[c] = Append(given[c], sent + 1)
         /\ \A d \in CliIds \ {c} : given'[d] = given[d]
         /\ GivenRises'
<1>1. sent \in Nat /\ sent' = sent + 1 /\ sent + 1 \in Message
  BY AdaptersAssumption DEF OrderInv, TextsTyped, New, Message
<1>2. given[c] \in Seq(Message) /\ given \in [CliIds -> Seq(Message)]
  BY DEF OrderInv, TextsTyped
<1> DEFINE g == Append(given[c], sent + 1)
<1>3. /\ g \in Seq(Message)
      /\ DOMAIN g = 1 .. Len(given[c]) + 1 /\ Len(given[c]) \in Nat
      /\ \A i \in 1 .. Len(given[c]) : g[i] = given[c][i]
      /\ g[Len(given[c]) + 1] = sent + 1
  BY <1>1, <1>2, AppendProperties
<1>4. given' = [given EXCEPT ![c] = g]
  OBVIOUS
<1>5. /\ Rising(given[c]) /\ DOMAIN given[c] = 1 .. Len(given[c])
      /\ \A i \in 1 .. Len(given[c]) : given[c][i] <= sent /\ given[c][i] \in Nat
  BY <1>2, TextsAreNumbers DEF OrderInv, GivenRises
<1> HIDE DEF g
<1>6. \A i \in DOMAIN g : g[i] <= sent'
  BY <1>1, <1>3, <1>5
<1>7. Rising(g)
  <2> SUFFICES ASSUME NEW i \in DOMAIN g, NEW j \in DOMAIN g, i < j PROVE g[i] < g[j]
    BY DEF Rising
  <2>1. i \in 1 .. Len(given[c]) /\ g[i] = given[c][i]
    BY <1>3
  <2>2. CASE j = Len(given[c]) + 1
    BY <1>1, <1>3, <1>5, <2>1, <2>2
  <2>3. CASE j # Len(given[c]) + 1
    <3>1. j \in 1 .. Len(given[c]) /\ g[j] = given[c][j]
      BY <1>3, <2>3
    <3> QED
      BY <1>5, <2>1, <3>1 DEF Rising
  <2> QED
    BY <2>2, <2>3
<1>8. /\ given' \in [CliIds -> Seq(Message)]
      /\ given'[c] = g
      /\ \A d \in CliIds \ {c} : given'[d] = given[d]
  BY <1>2, <1>3, <1>4
<1>9. ASSUME NEW d \in CliIds \ {c}
      PROVE  Rising(given[d]) /\ \A i \in DOMAIN given[d] : given[d][i] <= sent'
  <2>1. \A i \in DOMAIN given[d] : given[d][i] \in Nat
    BY <1>2, TextsAreNumbers
  <2> QED
    BY <1>1, <2>1 DEF OrderInv, GivenRises
<1>10. GivenRises'
  BY <1>6, <1>7, <1>8, <1>9 DEF GivenRises
<1> QED
  BY <1>1, <1>8, <1>10 DEF g

\* A message for Codex is typed at once, when nothing waits, or waits behind
\* the others.
LEMMA SendCodexOrder ==
  ASSUME OrderInv, New, SendCodex(sent + 1),
         given' = [given EXCEPT ![Codex] = Append(@, sent + 1)], Codex \in CliIds
  PROVE  OrderInv'
<1>1. /\ sent' \in Nat /\ sent + 1 \in Message
      /\ given' \in [CliIds -> Seq(Message)]
      /\ given'[Codex] = Append(given[Codex], sent + 1)
      /\ \A d \in CliIds \ {Codex} : given'[d] = given[d]
      /\ GivenRises'
  BY GivenOneMore
<1>2. /\ typed \in [CliIds -> Seq(Message)] /\ typed[Codex] \in Seq(Message)
      /\ pending \in Seq(Message) /\ <<sent + 1>> \in Seq(Message)
      /\ given[Codex] = typed[Codex] \o pending
  BY <1>1 DEF OrderInv, TextsTyped, MessagesInOrder
<1>3. CASE ready
  <2>1. Write(Codex, <<sent + 1>>) /\ pending' = pending /\ ready' = ready
    BY <1>3 DEF SendCodex
  <2>2. /\ typed' \in [CliIds -> Seq(Message)]
        /\ typed'[Codex] = typed[Codex] \o <<sent + 1>>
        /\ \A d \in CliIds \ {Codex} : typed'[d] = typed[d]
    BY <1>2, <2>1, WriteTypes DEF OrderInv
  <2>3. pending = <<>> /\ given[Codex] = typed[Codex]
    BY <1>2, <1>3, ConcatEmptySeq DEF OrderInv
  <2>4. typed'[Codex] \o pending' = Append(given[Codex], sent + 1)
    <3>1. typed[Codex] \o <<sent + 1>> = Append(typed[Codex], sent + 1)
      BY <1>1, <1>2, AppendIsConcat
    <3>2. typed'[Codex] \in Seq(Message)
      BY <2>2
    <3> QED
      BY <2>1, <2>2, <2>3, <3>1, <3>2, ConcatEmptySeq
  <2> QED
    BY <1>1, <1>2, <2>1, <2>2, <2>3, <2>4 DEF OrderInv, TextsTyped, MessagesInOrder
<1>4. CASE ~ready
  <2>1. Start(Codex) /\ pending' = Append(pending, sent + 1) /\ ready' = ready
    BY <1>4 DEF SendCodex
  <2>2. typed' = typed /\ pending' \in Seq(Message)
    BY <1>1, <1>2, <2>1, AppendProperties DEF Start
  <2>3. typed[Codex] \o pending' = Append(given[Codex], sent + 1)
    <3>1. pending' = pending \o <<sent + 1>>
      BY <1>1, <1>2, <2>1, AppendIsConcat
    <3>2. typed[Codex] \o (pending \o <<sent + 1>>) = given[Codex] \o <<sent + 1>>
      BY <1>2, ConcatAssociative
    <3>3. given[Codex] \in Seq(Message)
      BY DEF OrderInv, TextsTyped
    <3>4. given[Codex] \o <<sent + 1>> = Append(given[Codex], sent + 1)
      BY <1>1, <3>3, AppendIsConcat
    <3> QED
      BY <3>1, <3>2, <3>4
  <2> QED
    BY <1>1, <1>4, <2>1, <2>2, <2>3 DEF OrderInv, TextsTyped, MessagesInOrder
<1> QED
  BY <1>3, <1>4

\* A message for another CLI is typed at once.
LEMMA SendPtyOrder ==
  ASSUME OrderInv, New, NEW c \in CliIds, c # Codex, SendPty(c, sent + 1),
         given' = [given EXCEPT ![c] = Append(@, sent + 1)]
  PROVE  OrderInv'
<1>1. /\ sent' \in Nat /\ sent + 1 \in Message
      /\ given' \in [CliIds -> Seq(Message)]
      /\ given'[c] = Append(given[c], sent + 1)
      /\ \A d \in CliIds \ {c} : given'[d] = given[d]
      /\ GivenRises'
  BY GivenOneMore
<1>2. /\ Write(c, <<sent + 1>>) /\ pending' = pending /\ ready' = ready
      /\ <<sent + 1>> \in Seq(Message)
  BY <1>1 DEF SendPty, codex
<1>3. /\ typed' \in [CliIds -> Seq(Message)]
      /\ typed'[c] = typed[c] \o <<sent + 1>>
      /\ \A d \in CliIds \ {c} : typed'[d] = typed[d]
  BY <1>2, WriteTypes DEF OrderInv
<1>4. typed'[c] = given'[c]
  <2>1. typed[c] = given[c] /\ typed[c] \in Seq(Message)
    BY DEF OrderInv, TextsTyped, MessagesInOrder
  <2>2. typed[c] \o <<sent + 1>> = Append(typed[c], sent + 1)
    BY <1>1, <2>1, AppendIsConcat
  <2> QED
    BY <1>1, <1>3, <2>1, <2>2
<1> QED
  BY <1>1, <1>2, <1>3, <1>4 DEF OrderInv, TextsTyped, MessagesInOrder

\* A message nobody gets.
LEMMA DroppedOrder ==
  ASSUME OrderInv, New, UNCHANGED <<pending, ready, given, typed>>
  PROVE  OrderInv'
<1>1. sent \in Nat /\ sent' = sent + 1
  BY DEF OrderInv, TextsTyped, New
<1>2. GivenRises'
  <2> SUFFICES ASSUME NEW c \in CliIds, NEW i \in DOMAIN given[c]
               PROVE  given[c][i] <= sent'
    BY DEF OrderInv, GivenRises, Rising
  <2>1. given[c][i] \in Nat /\ given[c][i] <= sent
    <3>1. given[c] \in Seq(Message)
      BY DEF OrderInv, TextsTyped
    <3> QED
      BY <3>1, TextsAreNumbers DEF OrderInv, GivenRises
  <2> QED
    BY <1>1, <2>1
<1> QED
  BY <1>1, <1>2 DEF OrderInv, TextsTyped, MessagesInOrder

\* A message of a phone, whoever gets it.
LEMMA SendOrder ==
  ASSUME OrderInv, New, NEW tool, Send(sent + 1, tool)
  PROVE  OrderInv'
<1> DEFINE c == Receiver(pool, tool)
<1>1. CASE c \in CliIds /\ Known(pool, c) /\ c = Codex
  <2>1. SendCodex(sent + 1) /\ given' = [given EXCEPT ![Codex] = Append(@, sent + 1)]
    BY <1>1 DEF Send
  <2> HIDE DEF c
  <2> QED
    BY <1>1, <2>1, SendCodexOrder
<1>2. CASE c \in CliIds /\ Known(pool, c) /\ c # Codex
  <2>1. SendPty(c, sent + 1) /\ given' = [given EXCEPT ![c] = Append(@, sent + 1)]
    BY <1>2 DEF Send
  <2> HIDE DEF c
  <2> QED
    BY <1>2, <2>1, SendPtyOrder
<1>3. CASE ~(c \in CliIds /\ Known(pool, c))
  BY <1>3, DroppedOrder DEF Send, process, codex
<1> QED
  BY <1>1, <1>2, <1>3

\* What waits is typed when the prompt is seen.
LEMMA DeliverOrder ==
  ASSUME OrderInv, NEW c \in CliIds, Deliver(c)
  PROVE  OrderInv'
<1> DEFINE chunk == Head(out[c])
<1>1. given' = given /\ sent' = sent
  BY DEF Deliver
<1>2. CASE c = Codex /\ AnswerTrust(chunk)
  <2>1. Write(c, <<>>) /\ pending' = pending /\ ready' = ready /\ <<>> \in Seq(Message)
    BY <1>2 DEF AnswerTrust
  <2>2. /\ typed' \in [CliIds -> Seq(Message)]
        /\ typed'[c] = typed[c] \o <<>>
        /\ \A d \in CliIds \ {c} : typed'[d] = typed[d]
    BY <2>1, WriteTypes DEF OrderInv
  <2>3. typed[c] \o <<>> = typed[c]
    BY ConcatEmptySeq DEF OrderInv, TextsTyped
  <2>4. typed' = typed
    BY <2>2, <2>3 DEF OrderInv, TextsTyped
  <2> QED
    BY <1>1, <2>1, <2>4, TextsUntouched
<1>3. CASE c = Codex /\ Flush(chunk)
  <2>1. Write(c, pending) /\ pending' = <<>> /\ pending \in Seq(Message)
    BY <1>3 DEF Flush, OrderInv, TextsTyped
  <2>2. /\ typed' \in [CliIds -> Seq(Message)]
        /\ typed'[c] = typed[c] \o pending
        /\ \A d \in CliIds \ {c} : typed'[d] = typed[d]
    BY <2>1, WriteTypes DEF OrderInv
  <2>3. typed'[c] \o pending' = typed[c] \o pending
    <3>1. typed'[c] \in Seq(Message)
      BY <2>2
    <3> QED
      BY <2>1, <2>2, <3>1, ConcatEmptySeq
  <2>4. <<>> \in Seq(Message)
    OBVIOUS
  <2> QED
    BY <1>1, <1>3, <2>1, <2>2, <2>3, <2>4
    DEF OrderInv, TextsTyped, MessagesInOrder, GivenRises, Rising
<1>4. CASE Ignore(c, chunk)
  BY <1>1, <1>4, TextsUntouched DEF Ignore, process, codex
<1> QED
  BY <1>2, <1>3, <1>4 DEF Deliver

\* The agent starts again with nothing given and nothing typed.
LEMMA EndedOrder ==
  ASSUME OrderInv, Ended, sent' \in Nat
  PROVE  OrderInv'
<1>1. /\ pending' = <<>> /\ <<>> \in Seq(Message) /\ DOMAIN <<>> = {}
      /\ given' = [c \in CliIds |-> <<>>] /\ typed' = [c \in CliIds |-> <<>>]
      /\ <<>> \o <<>> = <<>>
  BY ConcatEmptySeq DEF Ended
<1> QED
  BY <1>1 DEF OrderInv, TextsTyped, MessagesInOrder, GivenRises, Rising

\* Every step keeps the order.
LEMMA NextOrder == OrderInv /\ [Next]_vars => OrderInv'
<1> SUFFICES ASSUME OrderInv, [Next]_vars PROVE OrderInv'
  OBVIOUS
<1>1. ASSUME NEW tool, PhoneMessage(tool) PROVE OrderInv'
  BY <1>1, SendOrder DEF PhoneMessage
<1>2. CASE RelayAction
  <2>1. New /\ sent' \in Nat
    BY <1>2 DEF RelayAction, New, OrderInv, TextsTyped
  <2> QED
    BY <1>2, <2>1, SendOrder, EndedOrder DEF RelayAction
<1>3. CASE Restart
  BY <1>3, EndedOrder DEF Restart, OrderInv, TextsTyped
<1>4. ASSUME NEW id \in AdapterIds, AdapterToggle(id) PROVE OrderInv'
  BY <1>4, TextsUntouched DEF AdapterToggle, process, codex
<1>5. CASE EditorGoes \/ \E p \in Pipe : EditorComes(p)
  BY <1>5, TextsUntouched DEF EditorGoes, EditorComes, process, codex
<1>6. ASSUME NEW c \in CliIds,
             Exit(c) \/ AskTrust(c) \/ ShowPrompt(c) \/ \E u \in Urls : PrintUrl(c, u)
      PROVE  OrderInv'
  BY <1>6, TextsUntouched DEF Exit, AskTrust, ShowPrompt, Show, PrintUrl, process, codex
<1>7. CASE UNCHANGED vars
  BY <1>7, TextsUntouched DEF vars, process, codex
<1>8. CASE Phones
  BY <1>8, <1>1, <1>2, <1>4 DEF Phones, NotifResponse, LocalAction
<1> QED
  BY <1>3, <1>5, <1>6, <1>7, <1>8, DeliverOrder DEF Next

LEMMA OrderHolds == Spec => []OrderInv
<1> QED
  BY InitOrder, NextOrder, PTL DEF Spec

-----------------------------------------------------------------------------
\* Every message handed to a CLI is written to its processes once and in the
\* order it came, or waits in that order behind them (codex-cli.ts:19-48).
THEOREM MessagesAlwaysInOrder == Spec => []MessagesInOrder
<1>1. OrderInv => MessagesInOrder
  BY DEF OrderInv
<1> QED
  BY <1>1, OrderHolds, PTL

\* Messages are typed in the order phones sent them, none twice, through
\* exits, questions and restarts.
THEOREM TypedInOrder == Spec => [](\A c \in CliIds : Rising(typed[c]))
<1>1. OrderInv => \A c \in CliIds : Rising(typed[c])
  <2> SUFFICES ASSUME OrderInv, NEW c \in CliIds PROVE Rising(typed[c])
    OBVIOUS
  <2>1. typed[c] \in Seq(Message) /\ pending \in Seq(Message) /\ Rising(given[c])
    BY DEF OrderInv, TextsTyped, GivenRises
  <2>2. CASE c = Codex
    <3>1. given[c] = typed[c] \o pending
      BY <2>2 DEF OrderInv, MessagesInOrder
    <3>2. /\ Len(typed[c]) \in Nat /\ Len(pending) \in Nat
          /\ DOMAIN typed[c] = 1 .. Len(typed[c])
          /\ DOMAIN given[c] = 1 .. Len(typed[c]) + Len(pending)
          /\ \A i \in 1 .. Len(typed[c]) : given[c][i] = typed[c][i]
      BY <2>1, <3>1, ConcatProperties
    <3> QED
      BY <2>1, <3>2 DEF Rising
  <2>3. CASE c # Codex
    BY <2>1, <2>3 DEF OrderInv, MessagesInOrder
  <2> QED
    BY <2>2, <2>3
<1> QED
  BY <1>1, OrderHolds, PTL

=============================================================================
