----------------------------- MODULE PushService -----------------------------
(***************************************************************************)
(* Web push: the subscriptions the agent keeps (agent/src/push.ts, the     *)
(* endpoints of agent/src/server.ts, the questions of agent/src/ipc.ts)    *)
(* and the phone that makes them                                           *)
(* (nuxt-ui/composables/usePushNotifications.ts).                          *)
(*                                                                         *)
(* The browser and its push service are external: a subscription has an    *)
(* endpoint of its own, and once it is given up or expires the service     *)
(* answers 404 or 410 for it and never accepts it again.                   *)
(***************************************************************************)
EXTENDS Naturals, Sequences, FiniteSets, SequencesExt

CONSTANTS
  Phones,
  MaxEndpoints,  \* bound: subscriptions the browsers make
  MaxSends       \* bound: notifications being sent at a time

ASSUME PushAssumption ==
  /\ MaxEndpoints \in Nat /\ MaxSends \in Nat

Endpoint   == 1 .. MaxEndpoints
NoEndpoint == 0

VARIABLES
  made,     \* endpoints made so far
  live,     \* endpoints the push service accepts
  browser,  \* browser[p]: what pushManager.getSubscription() finds
  step,     \* step[p]: where subscribe() or unsubscribe() of the phone is
  shown,    \* shown[p]: isSubscribed
  subs,     \* PushService.subscriptions
  file,     \* push-subscriptions.json; {} stands for none and for a broken one
  sends,    \* send() under way: the endpoints without an answer, the dead
  kept      \* history: endpoints the agent saved for a phone that has not
            \* taken them back

push == <<made, live, browser, step, shown, subs, file, sends, kept>>

Steps == {"idle", "asking", "posting", "posted", "leaving", "left"}

PushTypeOK ==
  /\ made \in 0 .. MaxEndpoints
  /\ live \subseteq Endpoint
  /\ browser \in [Phones -> Endpoint \cup {NoEndpoint}]
  /\ step \in [Phones -> Steps]
  /\ shown \in [Phones -> BOOLEAN]
  /\ subs \subseteq Endpoint
  /\ file \subseteq Endpoint
  /\ sends \in Seq([left : SUBSET Endpoint, dead : SUBSET Endpoint])
  /\ kept \subseteq Endpoint

InitPush ==
  /\ made = 0
  /\ live = {}
  /\ browser = [p \in Phones |-> NoEndpoint]
  /\ step = [p \in Phones |-> "idle"]
  /\ shown = [p \in Phones |-> FALSE]
  /\ subs = {}
  /\ file = {}
  /\ sends = <<>>
  /\ kept = {}

-----------------------------------------------------------------------------
(* The agent.                                                              *)

\* saveSubscriptions: the whole list; what cannot be written is logged.
Save(m, written) == file' = IF written THEN m ELSE file

\* subscribe()
Subscribe(e, written) ==
  /\ subs' = subs \cup {e}
  /\ Save(subs', written)
  /\ kept' = IF written THEN kept \cup {e} ELSE kept \ {e}

\* unsubscribe()
Unsubscribe(e, written) ==
  /\ subs' = subs \ {e}
  /\ Save(subs', written)
  /\ kept' = kept \ {e}

\* send(): one request per subscription there is.
SendPush ==
  /\ subs # {}
  /\ Len(sends) < MaxSends
  /\ sends' = Append(sends, [left |-> subs, dead |-> {}])
  /\ UNCHANGED <<made, live, browser, step, shown, subs, file, kept>>

\* Mutant: whatever could not be sent is taken for dead.
AnsweredStrictly(s, e, failed) ==
  [left |-> s.left \ {e},
   dead |-> IF e \notin live \/ failed THEN s.dead \cup {e} ELSE s.dead]

\* An answer of the push service: 404 or 410 for a dead endpoint.  Any other
\* failure is logged, and the subscription stays.
Answered(s, e, failed) ==
  [left |-> s.left \ {e},
   dead |-> IF e \notin live THEN s.dead \cup {e} ELSE s.dead]

\* The last answer of a send: the dead are dropped from the list there is now.
Prune(dead, written) ==
  IF dead = {} THEN UNCHANGED <<subs, file>>
  ELSE subs' = subs \ dead /\ Save(subs', written)

PushAnswer(i, e, written, failed) ==
  /\ e \in sends[i].left
  /\ LET s == Answered(sends[i], e, failed) IN
     IF s.left = {} THEN sends' = RemoveAt(sends, i) /\ Prune(s.dead, written)
     ELSE sends' = [sends EXCEPT ![i] = s] /\ UNCHANGED <<subs, file>>
  /\ UNCHANGED <<made, live, browser, step, shown, kept>>

\* The agent starts again: loadSubscriptions of the file it finds.
PushRestart(found) ==
  /\ file' = found
  /\ subs' = found
  /\ sends' = <<>>
  /\ kept' = IF found = file THEN kept ELSE {}
  /\ UNCHANGED <<made, live, browser, step, shown>>

-----------------------------------------------------------------------------
(* The phone.                                                              *)

GoTo(p, s) == step' = [step EXCEPT ![p] = s]
Show(p, b) == shown' = [shown EXCEPT ![p] = b]

\* togglePush; isLoading keeps a second one out.
TogglePush(p) ==
  /\ step[p] = "idle"
  /\ GoTo(p, IF shown[p] THEN "leaving" ELSE "asking")
  /\ UNCHANGED <<made, live, browser, shown, subs, file, sends, kept>>

\* subscribe(): the key is there; the subscription of the browser is used
\* again, or one is made.
PushKey(p) ==
  /\ step[p] = "asking"
  /\ GoTo(p, "posting")
  /\ IF browser[p] # NoEndpoint THEN UNCHANGED <<made, live, browser>>
     ELSE /\ made < MaxEndpoints
          /\ made' = made + 1
          /\ live' = live \cup {made + 1}
          /\ browser' = [browser EXCEPT ![p] = made + 1]
  /\ UNCHANGED <<shown, subs, file, sends, kept>>

\* POST /push/subscribe reaches the agent.
PushPosted(p, written) ==
  /\ step[p] = "posting"
  /\ browser[p] # NoEndpoint
  /\ GoTo(p, "posted")
  /\ Subscribe(browser[p], written)
  /\ UNCHANGED <<made, live, browser, shown, sends>>

PushSubscribed(p) ==
  /\ step[p] = "posted"
  /\ GoTo(p, "idle")
  /\ Show(p, TRUE)
  /\ UNCHANGED <<made, live, browser, subs, file, sends, kept>>

\* No key, no permission, a request or an answer that is lost, a browser that
\* does not give the subscription up: error is set.
PushFailed(p) ==
  /\ step[p] \in {"asking", "posting", "posted", "left"}
  /\ GoTo(p, "idle")
  /\ UNCHANGED <<made, live, browser, shown, subs, file, sends, kept>>

\* unsubscribe(): the browser has nothing.
PushNothing(p) ==
  /\ step[p] = "leaving"
  /\ browser[p] = NoEndpoint
  /\ GoTo(p, "idle")
  /\ Show(p, FALSE)
  /\ UNCHANGED <<made, live, browser, subs, file, sends, kept>>

\* POST /push/unsubscribe reaches the agent.
PushLeft(p, written) ==
  /\ step[p] = "leaving"
  /\ browser[p] # NoEndpoint
  /\ GoTo(p, "left")
  /\ Unsubscribe(browser[p], written)
  /\ UNCHANGED <<made, live, browser, shown, sends>>

\* It is lost, which unsubscribe() ignores.
PushLeftUnheard(p) ==
  /\ step[p] = "leaving"
  /\ browser[p] # NoEndpoint
  /\ GoTo(p, "left")
  /\ UNCHANGED <<made, live, browser, shown, subs, file, sends, kept>>

Forget(p) ==
  /\ live' = live \ {browser[p]}
  /\ browser' = [browser EXCEPT ![p] = NoEndpoint]

\* The browser gives the subscription up.
PushUnsubscribed(p) ==
  /\ step[p] = "left"
  /\ Forget(p)
  /\ GoTo(p, "idle")
  /\ Show(p, FALSE)
  /\ UNCHANGED <<made, subs, file, sends, kept>>

\* The page is loaded: init() and refresh() ask the browser, when its
\* service worker can be registered.
PushReload(p) ==
  /\ \E registered \in BOOLEAN : Show(p, registered /\ browser[p] # NoEndpoint)
  /\ GoTo(p, "idle")
  /\ UNCHANGED <<made, live, browser, subs, file, sends, kept>>

\* The push service ends a subscription, and the browser drops it.
PushExpires(p) ==
  /\ browser[p] # NoEndpoint
  /\ step[p] = "idle"
  /\ Forget(p)
  /\ UNCHANGED <<made, step, shown, subs, file, sends, kept>>

-----------------------------------------------------------------------------
\* What an editor or a user starts.
StartPush == SendPush \/ \E p \in Phones : TogglePush(p)

\* What follows.
GoOnPush(written) ==
  \/ \E i \in DOMAIN sends : \E e \in sends[i].left : \E failed \in BOOLEAN :
       PushAnswer(i, e, written, failed)
  \/ \E p \in Phones :
       \/ PushKey(p) \/ PushPosted(p, written)
       \/ PushSubscribed(p) \/ PushFailed(p) \/ PushNothing(p)
       \/ PushLeft(p, written) \/ PushLeftUnheard(p) \/ PushUnsubscribed(p)
       \/ PushReload(p) \/ PushExpires(p)

-----------------------------------------------------------------------------
\* A subscription the agent has saved for a phone stays in its list while the
\* push service accepts it and the phone has not taken it back, whatever is
\* pruned after a send, whoever else comes and goes, and when the agent is
\* started again from the file it wrote (push.ts:72).
LiveStaysSubscribed == kept \cap live \subseteq subs

\* Violated: a phone that shows itself subscribed has its subscription with
\* the agent; refresh() asks the browser alone (README.md:28).
ShownIsRegistered ==
  \A p \in Phones : step[p] = "idle" /\ shown[p] /\ browser[p] \in live => browser[p] \in subs

=============================================================================
