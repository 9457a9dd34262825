------------------------ MODULE LifecycleBridgeProofs ------------------------
(***************************************************************************)
(* Theorems about LifecycleBridge for any number of hooks, turns and tool  *)
(* calls, any spool capacity, and any number of kills, failed requests and *)
(* overtakings.                                                            *)
(***************************************************************************)
EXTENDS LifecycleBridge, FiniteSetTheorems, TLAPS

Saving == {"saveLease", "saveStop"}

\* Events are recorded under a round_id, and its prompts begin turns.
RoundNamed ==
  /\ state.events # <<>> => state.round # None
  /\ Of(state.events, "user") \subseteq TurnSet

\* Only a Stop hook takes the steps of Stop under the lock.
StopServed ==
  \A h \in Hooks : pc[h] \in {"stop", "saveStop"} => hook[h].kind \in StopKinds

\* One hook at a time is inside a section of _locked_state.
Alone == \A g, h \in Hooks : pc[g] \in Saving /\ pc[h] \in Saving => g = h

\* What a hook that has a new lease is about to write is the state with nothing
\* but the lease changed.
LeaseHolder ==
  \A h \in Hooks : pc[h] = "saveLease" =>
    mem[h].events = state.events /\ mem[h].round = state.round

\* What a Stop is about to clear is in the spool.
StopHolder ==
  \A h \in Hooks : pc[h] = "saveStop" =>
    /\ mem[h] = NoState
    /\ \A t \in Of(state.events, "user") :
         \E i \in DOMAIN spool : t \in spool[i].turns

BridgeType == TypeOK /\ RoundNamed /\ StopServed

\* What the sections under the lock rely on.
Section == Alone /\ LeaseHolder /\ StopHolder

\* The inductive invariant.
BridgeInv == BridgeType /\ Section /\ PromptKept

-----------------------------------------------------------------------------
(* States of the session and the lists of events in them. *)

StatesAt(m, i) == [round : 0 .. m, events : Seq(Events), lease : 0 .. i]

LEMMA StatesGrow ==
  ASSUME NEW m \in Nat, NEW i \in Nat, NEW n \in Nat, NEW j \in Nat,
         m <= n, i <= j, NEW s \in StatesAt(m, i)
  PROVE  s \in StatesAt(n, j)
BY DEF StatesAt

LEMMA NoStateTyped ==
  ASSUME NEW m \in Nat, NEW i \in Nat
  PROVE  NoState \in StatesAt(m, i)
BY DEF StatesAt, NoState, None

LEMMA EventTyped ==
  ASSUME NEW k \in {"user", "call", "result", "final"},
         NEW o \in TurnSet \cup Calls \cup {None}, NEW n \in Nat
  PROVE  Event(k, o, n) \in Events
BY DEF Event, Events

LEMMA AppendedTyped ==
  ASSUME NEW m \in Nat, NEW i \in Nat, NEW s \in StatesAt(m, i),
         NEW k \in {"user", "call", "result", "final"},
         NEW o \in TurnSet \cup Calls \cup {None}
  PROVE  /\ Appended(s, k, o) \in StatesAt(m, i)
         /\ Appended(s, k, o).round = s.round
         /\ Appended(s, k, o).lease = s.lease
         /\ Appended(s, k, o).events
              = Append(s.events, Event(k, o, Len(s.events)))
<1>1. s.events \in Seq(Events) /\ Len(s.events) \in Nat
  BY DEF StatesAt
<1>2. Event(k, o, Len(s.events)) \in Events
  BY <1>1, EventTyped
<1>3. Append(s.events, Event(k, o, Len(s.events))) \in Seq(Events)
  BY <1>1, <1>2
<1> QED BY <1>1, <1>3 DEF Appended, StatesAt

LEMMA AppendedAt ==
  ASSUME NEW S, NEW es \in Seq(S), NEW e
  PROVE  /\ Len(es) \in Nat /\ DOMAIN es = 1 .. Len(es)
         /\ DOMAIN Append(es, e) = DOMAIN es \cup {Len(es) + 1}
         /\ Len(es) + 1 \notin DOMAIN es
         /\ \A i \in DOMAIN es : Append(es, e)[i] = es[i]
         /\ Append(es, e)[Len(es) + 1] = e
OBVIOUS

\* Appending an event adds what it is about to the events of its kind.
LEMMA OfAppended ==
  ASSUME NEW es \in Seq(Events), NEW e, NEW k
  PROVE  Of(Append(es, e), k)
           = Of(es, k) \cup (IF e.kind = k THEN {e.of} ELSE {})
<1>1. /\ DOMAIN Append(es, e) = DOMAIN es \cup {Len(es) + 1}
      /\ \A i \in DOMAIN es : Append(es, e)[i] = es[i]
      /\ Append(es, e)[Len(es) + 1] = e
  BY AppendedAt
<1> QED BY <1>1 DEF Of

LEMMA AppendedUsers ==
  ASSUME NEW es \in Seq(Events), NEW k \in {"user", "call", "result", "final"},
         NEW o \in TurnSet \cup Calls \cup {None}
  PROVE  Of(Append(es, Event(k, o, Len(es))), "user")
           = Of(es, "user") \cup (IF k = "user" THEN {o} ELSE {})
<1> DEFINE e == Event(k, o, Len(es))
<1>1. Len(es) \in Nat
  OBVIOUS
<1>2. e \in Events
  BY <1>1, EventTyped
<1>3. e.kind = k /\ e.of = o
  BY DEF Event
<1> HIDE DEF e
<1>4. Of(Append(es, e), "user")
        = Of(es, "user") \cup (IF e.kind = "user" THEN {e.of} ELSE {})
  BY <1>2, OfAppended
<1> QED BY <1>3, <1>4 DEF e

\* What Stop leaves out of the round or adds to it is no prompt.
LEMMA FinishedUsers ==
  ASSUME NEW s, s.events \in Seq(Events)
  PROVE  Of(Finished(s), "user") = Of(s.events, "user")
<1> DEFINE es == s.events
           ks == Kept(es)
           fs == WithFinal(ks, Len(es))
<1>1. /\ DOMAIN ks \subseteq DOMAIN es
      /\ \A i \in DOMAIN ks : ks[i] = es[i]
      /\ \A i \in DOMAIN es : es[i].kind = "user" => i \in DOMAIN ks
  BY DEF Kept
<1>2. Of(ks, "user") = Of(es, "user")
  BY <1>1 DEF Of
<1>3. /\ DOMAIN fs = DOMAIN ks \cup {Len(es) + 1}
      /\ \A i \in DOMAIN ks : fs[i] = ks[i]
      /\ \A i \in DOMAIN fs : i \notin DOMAIN ks => fs[i].kind = "final"
  BY DEF WithFinal, Event
<1>4. Of(fs, "user") = Of(ks, "user")
  BY <1>3 DEF Of
<1> QED BY <1>2, <1>4 DEF Finished

\* The state before a hook records its event in it.
LEMMA StartedTyped ==
  ASSUME TypeOK, NEW l \in {state.lease, None}
  PROVE  LET s == Started([state EXCEPT !.lease = l])
         IN  /\ s \in StatesAt(minted + 1, issued)
             /\ s.events = state.events
             /\ state.round # None => s.round = state.round
             /\ state.round = None => s.round = minted + 1
             /\ s.lease = l
<1> DEFINE t == [state EXCEPT !.lease = l]
<1>1. /\ state \in [round : 0 .. minted, events : Seq(Events), lease : 0 .. issued]
      /\ minted \in Nat /\ issued \in Nat
  BY DEF TypeOK, States
<1>2. l \in 0 .. issued
  BY <1>1 DEF None
<1>3. /\ t \in [round : 0 .. minted, events : Seq(Events), lease : 0 .. issued]
      /\ t.round = state.round /\ t.events = state.events /\ t.lease = l
  BY <1>1, <1>2
<1> HIDE DEF t
<1>4. t \in StatesAt(minted + 1, issued)
  BY <1>1, <1>3 DEF StatesAt
<1>5. /\ Started(t) \in StatesAt(minted + 1, issued)
      /\ Started(t).events = t.events
      /\ t.round # None => Started(t).round = t.round
      /\ t.round = None => Started(t).round = minted + 1
      /\ Started(t).lease = l
  <2>1. CASE t.round = None
    <3>1. Started(t) = [t EXCEPT !.round = minted + 1]
      BY <2>1 DEF Started
    <3> QED BY <1>1, <1>3, <1>4, <2>1, <3>1 DEF StatesAt
  <2>2. CASE t.round # None
    <3>1. Started(t) = t
      BY <2>2 DEF Started
    <3> QED BY <1>3, <1>4, <2>2, <3>1
  <2> QED BY <2>1, <2>2
<1> QED BY <1>3, <1>5 DEF t

\* The state in which a hook records its event, and the one Stop reads.
LEMMA RecordedTyped ==
  ASSUME TypeOK, NEW l \in {state.lease, None}, NEW h \in Hooks
  PROVE  LET s == Started([state EXCEPT !.lease = l])
             r == Recorded(s, hook[h].kind, hook[h].of)
         IN  /\ r \in StatesAt(minted + 1, issued)
             /\ state.round # None => r.round = state.round
             /\ state.round = None => r.round = minted + 1
             /\ r.lease = l
<1> DEFINE s == Started([state EXCEPT !.lease = l])
           k == hook[h].kind
           o == hook[h].of
<1>1. /\ s \in StatesAt(minted + 1, issued)
      /\ state.round # None => s.round = state.round
      /\ state.round = None => s.round = minted + 1
      /\ s.lease = l
  BY StartedTyped
<1> HIDE DEF s
<1>2. minted + 1 \in Nat /\ issued \in Nat
  BY DEF TypeOK
<1>3. o \in TurnSet \cup Calls \cup {None}
  <2>1. hook[h] \in Invocation \cup {NoHook}
    BY DEF TypeOK
  <2> QED BY <2>1 DEF Invocation, NoHook
<1>4. \A e \in {"user", "call", "result", "final"} :
        \A x \in TurnSet \cup Calls \cup {None} :
          /\ Appended(s, e, x) \in StatesAt(minted + 1, issued)
          /\ Appended(s, e, x).round = s.round
          /\ Appended(s, e, x).lease = s.lease
  BY <1>1, <1>2, AppendedTyped
<1>5. Recorded(s, k, o) = s
      \/ \E e \in {"user", "call", "result", "final"} :
           \E x \in TurnSet \cup Calls \cup {None} :
             Recorded(s, k, o) = Appended(s, e, x)
  <2>1. CASE k = "prompt"
    BY <2>1, <1>3 DEF Recorded
  <2>2. CASE k = "pre"
    BY <2>2, <1>3 DEF Recorded
  <2>3. CASE k = "post"
    BY <2>3, <1>3 DEF Recorded
  <2>4. CASE k \in {"answer", "stopWithAnswer"}
    BY <2>4, <1>3 DEF Recorded
  <2>5. CASE k \notin {"prompt", "pre", "post", "answer", "stopWithAnswer"}
    BY <2>5 DEF Recorded
  <2> QED BY <2>1, <2>2, <2>3, <2>4, <2>5
<1> QED BY <1>1, <1>4, <1>5 DEF s

\* The prompts in a state after a hook recorded its event in it.
LEMMA RecordedUsers ==
  ASSUME TypeOK, NEW l \in {state.lease, None}, NEW h \in Hooks
  PROVE  LET s == Started([state EXCEPT !.lease = l])
             r == Recorded(s, hook[h].kind, hook[h].of)
         IN  Of(r.events, "user")
               = Of(state.events, "user")
                   \cup (IF hook[h].kind = "prompt" THEN {hook[h].of} ELSE {})
<1> DEFINE s == Started([state EXCEPT !.lease = l])
           k == hook[h].kind
           o == hook[h].of
<1>1. s \in StatesAt(minted + 1, issued) /\ s.events = state.events
  BY StartedTyped
<1> HIDE DEF s
<1>2. minted + 1 \in Nat /\ issued \in Nat /\ state.events \in Seq(Events)
      /\ Len(state.events) \in Nat
  BY DEF TypeOK, States
<1>3. o \in TurnSet \cup Calls \cup {None}
  <2>1. hook[h] \in Invocation \cup {NoHook}
    BY DEF TypeOK
  <2> QED BY <2>1 DEF Invocation, NoHook
<1>4. \A e \in {"user", "call", "result", "final"} :
        \A x \in TurnSet \cup Calls \cup {None} :
          Of(Appended(s, e, x).events, "user")
            = Of(state.events, "user") \cup (IF e = "user" THEN {x} ELSE {})
  <2> TAKE e \in {"user", "call", "result", "final"}
  <2> TAKE x \in TurnSet \cup Calls \cup {None}
  <2>1. Appended(s, e, x).events
          = Append(state.events, Event(e, x, Len(state.events)))
    <3>1. Appended(s, e, x).events
            = Append(s.events, Event(e, x, Len(s.events)))
      BY <1>1 DEF Appended, StatesAt
    <3> QED BY <1>1, <3>1
  <2>2. Of(Append(state.events, Event(e, x, Len(state.events))), "user")
          = Of(state.events, "user") \cup (IF e = "user" THEN {x} ELSE {})
    BY <1>2, AppendedUsers
  <2> QED BY <2>1, <2>2
<1>5. Of(Recorded(s, k, o).events, "user")
        = Of(state.events, "user") \cup (IF k = "prompt" THEN {o} ELSE {})
  <2>1. CASE k = "prompt"
    BY <2>1, <1>4, <1>3 DEF Recorded
  <2>2. CASE k = "pre"
    BY <2>2, <1>4, <1>3 DEF Recorded
  <2>3. CASE k = "post"
    BY <2>3, <1>4, <1>3 DEF Recorded
  <2>4. CASE k \in {"answer", "stopWithAnswer"}
    BY <2>4, <1>4, <1>3 DEF Recorded
  <2>5. CASE k \notin {"prompt", "pre", "post", "answer", "stopWithAnswer"}
    BY <2>5, <1>1 DEF Recorded
  <2> QED BY <2>1, <2>2, <2>3, <2>4, <2>5
<1> QED BY <1>5 DEF s

-----------------------------------------------------------------------------
(* What the steps have in common. *)

\* Names and leases are only ever added.
Growth == /\ minted' \in Nat /\ minted <= minted'
          /\ issued' \in Nat /\ issued <= issued'

LEMMA SeqGrows ==
  ASSUME NEW S, NEW T, S \subseteq T, NEW s \in Seq(S)
  PROVE  s \in Seq(T)
OBVIOUS

\* What a step leaves alone is still well typed after it.
LEMMA Grown ==
  ASSUME TypeOK, Growth
  PROVE  /\ States \subseteq States'
         /\ state \in States' /\ mem \in [Hooks -> States']
         /\ lease \in [Hooks -> 0 .. issued']
         /\ spool \in Seq([round : 1 .. minted', turns : SUBSET TurnSet])
         /\ leases \subseteq 1 .. issued'
<1>1. minted \in Nat /\ issued \in Nat
  BY DEF TypeOK
<1>2. States \subseteq States'
  BY <1>1 DEF Growth, States
<1>3. [round : 1 .. minted, turns : SUBSET TurnSet]
        \subseteq [round : 1 .. minted', turns : SUBSET TurnSet]
  BY <1>1 DEF Growth
<1>4. spool \in Seq([round : 1 .. minted', turns : SUBSET TurnSet])
  BY <1>3, SeqGrows DEF TypeOK
<1>5. 0 .. issued \subseteq 0 .. issued' /\ 1 .. issued \subseteq 1 .. issued'
  BY <1>1 DEF Growth
<1> QED BY <1>2, <1>4, <1>5 DEF TypeOK

LEMMA EmptyTyped ==
  ASSUME TypeOK, Growth
  PROVE  NoState \in States'
BY DEF Growth, States, NoState, None

LEMMA NoGrowth ==
  ASSUME TypeOK, UNCHANGED <<minted, issued>>
  PROVE  Growth
BY DEF TypeOK, Growth

LEMMA CountTyped ==
  ASSUME TypeOK, NEW m \in Mishaps, Count(m)
  PROVE  mishaps' \in [Mishaps -> Nat]
BY DEF TypeOK, Count

LEMMA LoseTyped ==
  ASSUME TypeOK, LoseRequest
  PROVE  mishaps' \in [Mishaps -> Nat]
BY CountTyped DEF LoseRequest, Mishaps

\* A hook goes on with a step that is not the first of a Stop.
LEMMA GotoTyped ==
  ASSUME BridgeType, NEW h \in Hooks, NEW step \in Steps, Goto(h, step),
         step \in {"stop", "saveStop"} => hook[h].kind \in StopKinds
  PROVE  /\ pc' \in [Hooks -> Steps]
         /\ hook' \in [Hooks -> Invocation \cup {NoHook}]
         /\ StopServed'
<1>1. /\ pc \in [Hooks -> Steps]
      /\ hook \in [Hooks -> Invocation \cup {NoHook}]
      /\ StopServed
  BY DEF BridgeType, TypeOK
<1>2. /\ pc' = [pc EXCEPT ![h] = step]
      /\ hook' = [hook EXCEPT ![h] = IF step = "idle" THEN NoHook ELSE @]
  BY DEF Goto
<1>3. /\ pc' \in [Hooks -> Steps] /\ pc'[h] = step
      /\ \A g \in Hooks : g # h => pc'[g] = pc[g] /\ hook'[g] = hook[g]
      /\ step # "idle" => hook'[h] = hook[h]
  BY <1>1, <1>2
<1>4. hook' \in [Hooks -> Invocation \cup {NoHook}]
  BY <1>1, <1>2
<1>5. StopServed'
  <2> SUFFICES ASSUME NEW g \in Hooks, pc'[g] \in {"stop", "saveStop"}
               PROVE  hook'[g].kind \in StopKinds
    BY DEF StopServed
  <2>1. CASE g = h
    BY <1>3, <2>1
  <2>2. CASE g # h
    BY <1>1, <1>3, <2>2 DEF StopServed
  <2> QED BY <2>1, <2>2
<1> QED BY <1>3, <1>4, <1>5

-----------------------------------------------------------------------------
(* Every step keeps the types. *)

LEMMA FireType ==
  ASSUME BridgeType, NEW h \in Hooks, NEW v \in Invocation,
         Fire(h, v.kind, v.of)
  PROVE  BridgeType'
<1>1. TypeOK /\ StopServed /\ RoundNamed
  BY DEF BridgeType
<1>2. [kind |-> v.kind, of |-> v.of] = v
  BY DEF Invocation
<1>3. v.kind \in {"prompt", "answer", "pre", "post"} \cup StopKinds
  BY DEF Invocation
<1>4. /\ fired' = fired \cup {v}
      /\ hook' = [hook EXCEPT ![h] = v]
      /\ pc' = [pc EXCEPT ![h] = FirstStep(v.kind)]
      /\ UNCHANGED <<state, mem, lease, spoolVars, coreVars, minted, persisted>>
  BY <1>2 DEF Fire
<1>5. /\ FirstStep(v.kind) \in Steps
      /\ FirstStep(v.kind) \in {"stop", "saveStop"} => v.kind \in StopKinds
  BY <1>3 DEF FirstStep, Steps, StopKinds
<1>6. mishaps' \in [Mishaps -> Nat]
  BY <1>1, CountTyped DEF Fire, Mishaps, TypeOK
<1>7. Growth
  BY <1>1, <1>4, NoGrowth DEF coreVars
<1>8. TypeOK'
  BY <1>1, <1>4, <1>5, <1>6, <1>7, Grown DEF TypeOK, coreVars, spoolVars
<1>9. StopServed'
  BY <1>1, <1>4, <1>5 DEF StopServed, TypeOK
<1> QED BY <1>1, <1>4, <1>8, <1>9 DEF BridgeType, RoundNamed

LEMMA AppendType ==
  ASSUME BridgeType, NEW h \in Hooks, AppendEvent(h)
  PROVE  BridgeType'
<1> DEFINE r == Recorded(Started(state), hook[h].kind, hook[h].of)
<1>1. TypeOK /\ StopServed /\ RoundNamed
  BY DEF BridgeType
<1>2. state = [state EXCEPT !.lease = state.lease]
  BY <1>1 DEF TypeOK, States
<1>3. /\ r \in StatesAt(minted + 1, issued)
      /\ state.round # None => r.round = state.round
      /\ state.round = None => r.round = minted + 1
  BY <1>1, <1>2, RecordedTyped
<1>4. /\ state' = r
      /\ minted' = IF state.round = None THEN minted + 1 ELSE minted
      /\ UNCHANGED <<mem, lease, spoolVars, coreVars, fired, mishaps>>
  BY DEF AppendEvent, Draw
<1>5. Growth
  BY <1>1, <1>4 DEF TypeOK, Growth, coreVars
<1>6. Of(r.events, "user") \subseteq TurnSet
  <2>1. Of(r.events, "user")
          = Of(state.events, "user")
              \cup (IF hook[h].kind = "prompt" THEN {hook[h].of} ELSE {})
    BY <1>1, <1>2, RecordedUsers
  <2>2. hook[h] \in Invocation \cup {NoHook}
    BY <1>1 DEF TypeOK
  <2>3. hook[h].kind = "prompt" => hook[h].of \in TurnSet
    BY <2>2 DEF Invocation, NoHook
  <2> QED BY <1>1, <2>1, <2>3 DEF RoundNamed
<1>7. state' \in States' /\ RoundNamed'
  <2>1. state.round \in 0 .. minted /\ minted \in Nat
    BY <1>1 DEF TypeOK, States
  <2>2. r.round \in 1 .. minted'
    BY <2>1, <1>3, <1>4 DEF None
  <2> HIDE DEF r
  <2>3. r \in [round : 0 .. minted + 1, events : Seq(Events), lease : 0 .. issued]
    BY <1>3 DEF StatesAt
  <2>4. r \in [round : 0 .. minted', events : Seq(Events), lease : 0 .. issued]
    BY <2>2, <2>3
  <2> QED BY <1>4, <1>6, <2>2, <2>4 DEF States, RoundNamed, coreVars, None
<1>8. /\ pc' \in [Hooks -> Steps]
      /\ hook' \in [Hooks -> Invocation \cup {NoHook}]
      /\ StopServed'
  <2>1. Goto(h, "lease") \/ Goto(h, "idle")
    BY DEF AppendEvent
  <2> QED BY <2>1, GotoTyped DEF Steps
<1>9. persisted' \subseteq TurnSet
  <2>1. hook[h] \in Invocation \cup {NoHook}
    BY <1>1 DEF TypeOK
  <2>2. hook[h].kind = "prompt" => hook[h].of \in TurnSet
    BY <2>1 DEF Invocation, NoHook
  <2> QED BY <1>1, <2>2 DEF AppendEvent, TypeOK
<1>10. TypeOK'
  BY <1>1, <1>4, <1>5, <1>7, <1>8, <1>9, Grown
     DEF TypeOK, Growth, spoolVars, coreVars
<1> QED BY <1>7, <1>8, <1>10 DEF BridgeType

LEMMA LeaseType ==
  ASSUME BridgeType, LeaseHolder, NEW h \in Hooks, SessionLease(h)
  PROVE  BridgeType'
<1>1. TypeOK /\ StopServed /\ RoundNamed
  BY DEF BridgeType
<1>2. AfterLease(h) \in Steps \ {"stop", "saveStop"}
  BY DEF AfterLease, Steps
<1>3. CASE KeepLease(h)
  <2>1. /\ UNCHANGED <<state, mem, lease, spoolVars, coreVars, minted, hostVars,
                      mishaps>>
        /\ Goto(h, AfterLease(h))
    BY <1>3 DEF KeepLease
  <2>2. Growth
    BY <1>1, <2>1, NoGrowth DEF coreVars
  <2>3. /\ pc' \in [Hooks -> Steps] /\ StopServed'
        /\ hook' \in [Hooks -> Invocation \cup {NoHook}]
    BY <1>2, <2>1, GotoTyped
  <2>4. TypeOK'
    BY <1>1, <2>1, <2>2, <2>3, Grown
       DEF TypeOK, spoolVars, coreVars, hostVars
  <2> QED BY <1>1, <2>1, <2>3, <2>4 DEF BridgeType, RoundNamed
<1>4. CASE AcquireLease(h)
  <2>1. /\ UNCHANGED <<state, lease, spoolVars, minted, hostVars>>
        /\ Goto(h, "saveLease")
        /\ issued' = issued + 1
        /\ leases' = leases \cup {issued + 1}
        /\ mem' = [mem EXCEPT ![h] = [state EXCEPT !.lease = issued + 1]]
        /\ LoseRequest \/ UNCHANGED mishaps
    BY <1>4 DEF AcquireLease
  <2>2. Growth
    BY <1>1, <2>1 DEF TypeOK, Growth
  <2>3. /\ pc' \in [Hooks -> Steps] /\ StopServed'
        /\ hook' \in [Hooks -> Invocation \cup {NoHook}]
    BY <2>1, GotoTyped DEF Steps
  <2>4. [state EXCEPT !.lease = issued + 1] \in States'
    <3>1. state \in States' /\ issued + 1 \in 0 .. issued'
      BY <1>1, <2>1, <2>2, Grown DEF TypeOK
    <3> QED BY <3>1 DEF States
  <2>5. mem' \in [Hooks -> States']
    BY <1>1, <2>1, <2>2, <2>4, Grown
  <2>6. mishaps' \in [Mishaps -> Nat]
    BY <1>1, <2>1, LoseTyped DEF TypeOK
  <2>7. leases' \subseteq 1 .. issued'
    BY <1>1, <2>1 DEF TypeOK
  <2>8. TypeOK'
    BY <1>1, <2>1, <2>2, <2>3, <2>5, <2>6, <2>7, Grown
       DEF TypeOK, Growth, spoolVars, hostVars
  <2> QED BY <1>1, <2>1, <2>3, <2>8 DEF BridgeType, RoundNamed
<1>5. CASE LeaseFails(h)
  <2>1. /\ UNCHANGED <<state, mem, lease, spoolVars, minted, hostVars>>
        /\ LoseRequest
        /\ \/ issued' = issued /\ leases' = leases
           \/ issued' = issued + 1 /\ leases' = leases \cup {issued + 1}
        /\ Goto(h, "note") \/ Goto(h, "append")
    BY <1>5 DEF LeaseFails
  <2>2. Growth
    BY <1>1, <2>1 DEF TypeOK, Growth
  <2>3. /\ pc' \in [Hooks -> Steps] /\ StopServed'
        /\ hook' \in [Hooks -> Invocation \cup {NoHook}]
    BY <2>1, GotoTyped DEF Steps
  <2>4. mishaps' \in [Mishaps -> Nat]
    BY <1>1, <2>1, LoseTyped
  <2>5. leases' \subseteq 1 .. issued'
    <3>1. leases \subseteq 1 .. issued /\ issued \in Nat
      BY <1>1 DEF TypeOK
    <3>2. CASE issued' = issued /\ leases' = leases
      BY <3>1, <3>2
    <3>3. CASE issued' = issued + 1 /\ leases' = leases \cup {issued + 1}
      BY <3>1, <3>3
    <3> QED BY <2>1, <3>2, <3>3
  <2>6. TypeOK'
    BY <1>1, <2>1, <2>2, <2>3, <2>4, <2>5, Grown
       DEF TypeOK, Growth, spoolVars, hostVars
  <2> QED BY <1>1, <2>1, <2>3, <2>6 DEF BridgeType, RoundNamed
<1>6. CASE SaveLease(h)
  <2>1. /\ UNCHANGED <<lease, spoolVars, coreVars, minted, hostVars, mishaps>>
        /\ Goto(h, AfterLease(h))
        /\ state' = mem[h]
        /\ mem' = [mem EXCEPT ![h] = NoState]
        /\ mem[h].events = state.events /\ mem[h].round = state.round
    BY <1>6 DEF SaveLease, LeaseHolder
  <2>2. Growth
    BY <1>1, <2>1, NoGrowth DEF coreVars
  <2>3. /\ pc' \in [Hooks -> Steps] /\ StopServed'
        /\ hook' \in [Hooks -> Invocation \cup {NoHook}]
    BY <1>2, <2>1, GotoTyped
  <2>4. state' \in States' /\ mem' \in [Hooks -> States']
    BY <1>1, <2>1, <2>2, Grown, EmptyTyped
  <2>5. TypeOK'
    BY <1>1, <2>1, <2>2, <2>3, <2>4, Grown
       DEF TypeOK, spoolVars, coreVars, hostVars
  <2> QED BY <1>1, <2>1, <2>3, <2>5 DEF BridgeType, RoundNamed
<1> QED BY <1>3, <1>4, <1>5, <1>6 DEF SessionLease

LEMMA ContextType ==
  ASSUME BridgeType, NEW h \in Hooks, Context(h)
  PROVE  BridgeType'
<1>1. TypeOK /\ StopServed /\ RoundNamed
  BY DEF BridgeType
<1>2. /\ UNCHANGED <<state, mem, lease, spool, waiting, coreVars, minted,
                    hostVars>>
      /\ Goto(h, "idle") \/ Goto(h, "note")
      /\ noted' \in BOOLEAN
      /\ UNCHANGED mishaps \/ LoseRequest
  BY <1>1 DEF Context, Recall, RecallFails, Note, SeesReady, spoolVars, TypeOK
<1>3. Growth
  BY <1>1, <1>2, NoGrowth DEF coreVars
<1>4. /\ pc' \in [Hooks -> Steps] /\ StopServed'
      /\ hook' \in [Hooks -> Invocation \cup {NoHook}]
  BY <1>2, GotoTyped DEF Steps
<1>5. mishaps' \in [Mishaps -> Nat]
  BY <1>1, <1>2, LoseTyped DEF TypeOK
<1>6. TypeOK'
  BY <1>1, <1>2, <1>3, <1>4, <1>5, Grown DEF TypeOK, coreVars, hostVars
<1> QED BY <1>1, <1>2, <1>4, <1>6 DEF BridgeType, RoundNamed

\* What Stop reads when a prompt is recorded: a round that has its name.
LEMMA StopRead ==
  ASSUME BridgeType, NEW h \in Hooks, StopReads(h)
  PROVE  /\ AtStop(h).round \in 1 .. minted
         /\ Of(Finished(AtStop(h)), "user") = Of(state.events, "user")
<1> DEFINE s == Started([state EXCEPT !.lease = None])
           r == Recorded(s, hook[h].kind, hook[h].of)
<1>1. TypeOK /\ RoundNamed /\ hook[h].kind \in StopKinds
  BY DEF BridgeType, StopServed, StopReads
<1>2. r \in StatesAt(minted + 1, issued) /\ (state.round # None => r.round = state.round)
  BY <1>1, RecordedTyped
<1>3. Of(r.events, "user")
        = Of(state.events, "user")
            \cup (IF hook[h].kind = "prompt" THEN {hook[h].of} ELSE {})
  BY <1>1, RecordedUsers
<1>4. AtStop(h) = r
  BY DEF AtStop
<1> HIDE DEF r
<1>5. Of(r.events, "user") = Of(state.events, "user")
  BY <1>1, <1>3 DEF StopKinds
<1>6. state.events # <<>>
  <2>1. Of(state.events, "user") # {}
    BY <1>4, <1>5 DEF StopReads
  <2> QED BY <2>1 DEF Of
<1>7. r.round \in 1 .. minted
  <2>1. state.round \in 0 .. minted /\ state.round # 0 /\ minted \in Nat
    BY <1>1, <1>6 DEF TypeOK, States, RoundNamed, None
  <2> QED BY <1>2, <2>1 DEF None
<1>8. Of(Finished(r), "user") = Of(r.events, "user")
  BY <1>2, FinishedUsers DEF StatesAt
<1> QED BY <1>4, <1>5, <1>7, <1>8

LEMMA StopEnqueuesType ==
  ASSUME BridgeType, NEW h \in Hooks, StopEnqueues(h)
  PROVE  BridgeType'
<1> DEFINE entry == [round |-> AtStop(h).round,
                     turns |-> Of(Finished(AtStop(h)), "user")]
<1>1. TypeOK /\ StopServed /\ RoundNamed
  BY DEF BridgeType
<1>2. /\ UNCHANGED <<state, noted, coreVars, minted, hostVars, mishaps>>
      /\ spool' = Append(spool, entry)
      /\ waiting' = waiting \cup {Len(spool) + 1}
      /\ lease' = [lease EXCEPT ![h] = state.lease]
      /\ mem' = [mem EXCEPT ![h] = NoState]
      /\ Goto(h, "saveStop")
      /\ StopReads(h)
  BY DEF StopEnqueues
<1>3. Growth
  BY <1>1, <1>2, NoGrowth DEF coreVars
<1>4. entry \in [round : 1 .. minted', turns : SUBSET TurnSet]
  <2>1. /\ AtStop(h).round \in 1 .. minted
        /\ Of(Finished(AtStop(h)), "user") \subseteq TurnSet
    BY <1>1, <1>2, StopRead DEF RoundNamed
  <2> QED BY <1>2, <2>1
<1> HIDE DEF entry
<1>5. spool' \in Seq([round : 1 .. minted', turns : SUBSET TurnSet])
  <2>1. spool \in Seq([round : 1 .. minted', turns : SUBSET TurnSet])
    BY <1>1, <1>3, Grown
  <2> QED BY <1>2, <1>4, <2>1
<1>6. waiting' \subseteq DOMAIN spool'
  <2>1. /\ DOMAIN spool = 1 .. Len(spool) /\ Len(spool) \in Nat
        /\ DOMAIN spool' = 1 .. Len(spool) + 1
    BY <1>1, <1>2 DEF TypeOK
  <2> QED BY <1>1, <1>2, <2>1 DEF TypeOK
<1>7. /\ pc' \in [Hooks -> Steps] /\ StopServed'
      /\ hook' \in [Hooks -> Invocation \cup {NoHook}]
  <2>1. hook[h].kind \in StopKinds
    BY <1>1, <1>2 DEF StopReads, StopServed
  <2> QED BY <1>2, <2>1, GotoTyped DEF Steps
<1>8. mem' \in [Hooks -> States'] /\ lease' \in [Hooks -> 0 .. issued']
  <2>1. state.lease \in 0 .. issued'
    BY <1>1, <1>3, Grown DEF States
  <2> QED BY <1>1, <1>2, <1>3, <2>1, Grown, EmptyTyped
<1>9. TypeOK'
  BY <1>1, <1>2, <1>3, <1>5, <1>6, <1>7, <1>8, Grown
     DEF TypeOK, coreVars, hostVars
<1> QED BY <1>1, <1>2, <1>7, <1>9 DEF BridgeType, RoundNamed

LEMMA StopRefusedType ==
  ASSUME BridgeType, NEW h \in Hooks, StopRefused(h)
  PROVE  BridgeType'
<1>1. TypeOK /\ StopServed /\ RoundNamed
  BY DEF BridgeType
<1>2. /\ UNCHANGED <<state, mem, lease, spoolVars, coreVars, minted, hostVars>>
      /\ Count("full") \/ UNCHANGED mishaps
      /\ Goto(h, "idle")
  BY DEF StopRefused
<1>3. Growth
  BY <1>1, <1>2, NoGrowth DEF coreVars
<1>4. /\ pc' \in [Hooks -> Steps] /\ StopServed'
      /\ hook' \in [Hooks -> Invocation \cup {NoHook}]
  BY <1>2, GotoTyped DEF Steps
<1>5. mishaps' \in [Mishaps -> Nat]
  BY <1>1, <1>2, CountTyped DEF Mishaps, TypeOK
<1>6. TypeOK'
  BY <1>1, <1>2, <1>3, <1>4, <1>5, Grown
     DEF TypeOK, coreVars, hostVars, spoolVars
<1> QED BY <1>1, <1>2, <1>4, <1>6 DEF BridgeType, RoundNamed

LEMMA StopEmptyType ==
  ASSUME BridgeType, NEW h \in Hooks, StopEmpty(h)
  PROVE  BridgeType'
<1>1. TypeOK /\ StopServed /\ RoundNamed
  BY DEF BridgeType
<1>2. /\ UNCHANGED <<mem, spoolVars, coreVars, hostVars, mishaps>>
      /\ lease' = [lease EXCEPT ![h] = state.lease]
      /\ Goto(h, "release")
      /\ \/ AtStop(h).events = <<>> /\ state' = AtStop(h) /\ Draw
         \/ state' = NoState /\ UNCHANGED minted
  BY DEF StopEmpty
<1>3. Growth
  BY <1>1, <1>2 DEF Growth, TypeOK, coreVars, Draw
<1>4. state' \in States' /\ RoundNamed'
  <2>1. CASE state' = NoState /\ UNCHANGED minted
    <3>1. state'.events = <<>>
      BY <2>1 DEF NoState
    <3> QED BY <1>1, <1>3, <2>1, <3>1, EmptyTyped DEF RoundNamed, Of
  <2>2. CASE AtStop(h).events = <<>> /\ state' = AtStop(h) /\ Draw
    <3>1. /\ AtStop(h) \in StatesAt(minted + 1, issued)
          /\ state.round # None => AtStop(h).round = state.round
          /\ state.round = None => AtStop(h).round = minted + 1
      BY <1>1, RecordedTyped DEF AtStop
    <3>2. /\ state.round \in 0 .. minted /\ minted \in Nat
          /\ minted' = IF state.round = None THEN minted + 1 ELSE minted
      BY <1>1, <2>2 DEF TypeOK, States, Draw
    <3>3. AtStop(h).round \in 0 .. minted'
      BY <3>1, <3>2 DEF None
    <3>4. AtStop(h) \in [round : 0 .. minted + 1, events : Seq(Events),
                         lease : 0 .. issued]
      BY <3>1 DEF StatesAt
    <3>5. AtStop(h) \in [round : 0 .. minted', events : Seq(Events),
                         lease : 0 .. issued]
      BY <3>3, <3>4
    <3>6. state' \in States'
      BY <1>2, <2>2, <3>5 DEF States, coreVars
    <3> QED BY <2>2, <3>6 DEF RoundNamed, Of
  <2> QED BY <1>2, <2>1, <2>2
<1>5. /\ pc' \in [Hooks -> Steps] /\ StopServed'
      /\ hook' \in [Hooks -> Invocation \cup {NoHook}]
  BY <1>2, GotoTyped DEF Steps
<1>6. lease' \in [Hooks -> 0 .. issued']
  <2>1. state.lease \in 0 .. issued'
    BY <1>1, <1>3, Grown DEF States
  <2> QED BY <1>1, <1>2, <1>3, <2>1, Grown
<1>7. TypeOK'
  BY <1>1, <1>2, <1>3, <1>4, <1>5, <1>6, Grown
     DEF TypeOK, coreVars, hostVars, spoolVars, Growth
<1> QED BY <1>4, <1>5, <1>7 DEF BridgeType

LEMMA SaveStopType ==
  ASSUME BridgeType, StopHolder, NEW h \in Hooks, SaveStop(h)
  PROVE  BridgeType'
<1>1. TypeOK /\ StopServed /\ RoundNamed
  BY DEF BridgeType
<1>2. /\ UNCHANGED <<mem, lease, spoolVars, coreVars, minted, hostVars, mishaps>>
      /\ Goto(h, "release") \/ Goto(h, "deliver")
      /\ state' = NoState
  BY DEF SaveStop, StopHolder
<1>3. Growth
  BY <1>1, <1>2, NoGrowth DEF coreVars
<1>4. /\ pc' \in [Hooks -> Steps] /\ StopServed'
      /\ hook' \in [Hooks -> Invocation \cup {NoHook}]
  BY <1>2, GotoTyped DEF Steps
<1>5. TypeOK'
  BY <1>1, <1>2, <1>3, <1>4, Grown, EmptyTyped
     DEF TypeOK, coreVars, hostVars, spoolVars
<1>6. RoundNamed'
  <2>1. state'.events = <<>>
    BY <1>2 DEF NoState
  <2> QED BY <2>1 DEF RoundNamed, Of
<1> QED BY <1>4, <1>5, <1>6 DEF BridgeType

LEMMA AfterStopType ==
  ASSUME BridgeType, NEW h \in Hooks,
         EndDelivery(h) \/ Release(h) \/ \E i \in waiting : Deliver(h, i)
  PROVE  BridgeType'
<1>1. TypeOK /\ StopServed /\ RoundNamed
  BY DEF BridgeType
<1>2. /\ UNCHANGED <<state, mem, spool, issued, minted, hostVars>>
      /\ \/ UNCHANGED <<pc, hook>>
         \/ Goto(h, "idle")
         \/ Goto(h, "release")
      /\ lease' = lease \/ lease' = [lease EXCEPT ![h] = None]
      /\ leases' \subseteq leases
      /\ waiting' \subseteq waiting
      /\ noted' \in BOOLEAN
      /\ UNCHANGED mishaps \/ Count("full") \/ LoseRequest
  <2>1. CASE EndDelivery(h)
    BY <1>1, <2>1 DEF EndDelivery, TypeOK, SeesReady, coreVars
  <2>2. CASE Release(h)
    BY <1>1, <2>2 DEF Release, TypeOK, spoolVars
  <2>3. CASE \E i \in waiting : Deliver(h, i)
    BY <1>1, <2>3 DEF Deliver, TypeOK, hookVars, coreVars
  <2> QED BY <2>1, <2>2, <2>3
<1>3. Growth
  BY <1>1, <1>2, NoGrowth
<1>4. /\ pc' \in [Hooks -> Steps] /\ StopServed'
      /\ hook' \in [Hooks -> Invocation \cup {NoHook}]
  <2>1. CASE UNCHANGED <<pc, hook>>
    BY <1>1, <2>1 DEF TypeOK, StopServed
  <2>2. CASE Goto(h, "idle")
    BY <2>2, GotoTyped DEF Steps
  <2>3. CASE Goto(h, "release")
    BY <2>3, GotoTyped DEF Steps
  <2> QED BY <1>2, <2>1, <2>2, <2>3
<1>5. mishaps' \in [Mishaps -> Nat]
  BY <1>1, <1>2, CountTyped, LoseTyped DEF Mishaps, TypeOK
<1>6. lease' \in [Hooks -> 0 .. issued']
  <2>1. None \in 0 .. issued' /\ lease \in [Hooks -> 0 .. issued']
    BY <1>1, <1>3, Grown DEF Growth, None
  <2> QED BY <1>2, <2>1
<1>7. TypeOK'
  BY <1>1, <1>2, <1>3, <1>4, <1>5, <1>6, Grown DEF TypeOK, hostVars
<1> QED BY <1>1, <1>2, <1>4, <1>7 DEF BridgeType, RoundNamed

LEMMA KillType ==
  ASSUME BridgeType, NEW h \in Hooks, Kill(h)
  PROVE  BridgeType'
<1>1. TypeOK /\ StopServed /\ RoundNamed
  BY DEF BridgeType
<1>2. /\ UNCHANGED <<state, spoolVars, coreVars, minted, hostVars>>
      /\ Goto(h, "idle")
      /\ mem' = [mem EXCEPT ![h] = NoState]
      /\ lease' = [lease EXCEPT ![h] = None]
      /\ Count("kill")
  BY DEF Kill
<1>3. Growth
  BY <1>1, <1>2, NoGrowth DEF coreVars
<1>4. /\ pc' \in [Hooks -> Steps] /\ StopServed'
      /\ hook' \in [Hooks -> Invocation \cup {NoHook}]
  BY <1>2, GotoTyped DEF Steps
<1>5. mishaps' \in [Mishaps -> Nat]
  BY <1>1, <1>2, CountTyped DEF Mishaps
<1>6. mem' \in [Hooks -> States'] /\ lease' \in [Hooks -> 0 .. issued']
  <2>1. None \in 0 .. issued' /\ lease \in [Hooks -> 0 .. issued']
    BY <1>1, <1>3, Grown DEF Growth, None
  <2> QED BY <1>1, <1>2, <1>3, <2>1, Grown, EmptyTyped
<1>7. TypeOK'
  BY <1>1, <1>2, <1>3, <1>4, <1>5, <1>6, Grown
     DEF TypeOK, hostVars, spoolVars, coreVars
<1> QED BY <1>1, <1>2, <1>4, <1>7 DEF BridgeType, RoundNamed

LEMMA ExpiryType ==
  ASSUME BridgeType, NEW l \in leases, LeaseExpires(l)
  PROVE  BridgeType'
<1>1. TypeOK /\ StopServed /\ RoundNamed
  BY DEF BridgeType
<1>2. /\ UNCHANGED <<state, hookVars, spoolVars, issued, minted, hostVars>>
      /\ leases' \subseteq leases
      /\ Count("expiry")
  BY DEF LeaseExpires
<1>3. Growth
  BY <1>1, <1>2, NoGrowth
<1>4. mishaps' \in [Mishaps -> Nat]
  BY <1>1, <1>2, CountTyped DEF Mishaps
<1>5. TypeOK'
  BY <1>1, <1>2, <1>3, <1>4, Grown DEF TypeOK, hostVars, spoolVars, hookVars
<1> QED BY <1>1, <1>2, <1>5 DEF BridgeType, RoundNamed, StopServed, hookVars

LEMMA StutterType ==
  ASSUME BridgeType, UNCHANGED vars
  PROVE  BridgeType'
<1>1. TypeOK /\ StopServed /\ RoundNamed
  BY DEF BridgeType
<1>2. Growth
  BY <1>1, NoGrowth DEF vars, coreVars
<1>3. TypeOK'
  BY <1>1, <1>2, Grown DEF TypeOK, vars, hostVars, spoolVars, coreVars, hookVars
<1> QED BY <1>1, <1>3 DEF BridgeType, RoundNamed, StopServed, vars, hookVars

LEMMA TypeStep ==
  ASSUME BridgeInv, [Next]_vars
  PROVE  BridgeType'
<1>1. BridgeType /\ LeaseHolder /\ StopHolder
  BY DEF BridgeInv, Section
<1>2. CASE UNCHANGED vars
  BY <1>1, <1>2, StutterType
<1>3. ASSUME NEW h \in Hooks, NEW v \in Invocation, Fire(h, v.kind, v.of)
      PROVE  BridgeType'
  BY <1>1, <1>3, FireType
<1>4. ASSUME NEW h \in Hooks, HookStep(h)
      PROVE  BridgeType'
  <2>1. CASE AppendEvent(h)
    BY <1>1, <2>1, AppendType
  <2>2. CASE SessionLease(h)
    BY <1>1, <2>2, LeaseType
  <2>3. CASE Context(h)
    BY <1>1, <2>3, ContextType
  <2>4. CASE Stop(h)
    BY <1>1, <2>4, StopEnqueuesType, StopRefusedType, StopEmptyType,
       SaveStopType, AfterStopType DEF Stop
  <2> QED BY <1>4, <2>1, <2>2, <2>3, <2>4 DEF HookStep
<1>5. ASSUME NEW h \in Hooks, Kill(h)
      PROVE  BridgeType'
  BY <1>1, <1>5, KillType
<1>6. ASSUME NEW l \in leases, LeaseExpires(l)
      PROVE  BridgeType'
  BY <1>1, <1>6, ExpiryType
<1> QED BY <1>2, <1>3, <1>4, <1>5, <1>6 DEF Next

-----------------------------------------------------------------------------
(* Every step keeps what holds inside the sections, and the prompts. *)

\* A step after which nobody is inside a section it was not in before, and that
\* leaves the state file alone.
LEMMA QuietStep ==
  ASSUME Section, PromptKept, UNCHANGED <<state, spool, persisted>>,
         \A g \in Hooks :
           pc'[g] \in Saving => pc'[g] = pc[g] /\ mem'[g] = mem[g]
  PROVE  Section' /\ PromptKept'
<1>1. Alone'
  BY DEF Section, Alone
<1>2. LeaseHolder'
  BY DEF Section, LeaseHolder, Saving
<1>3. StopHolder'
  BY DEF Section, StopHolder, Saving
<1>4. PromptKept'
  BY DEF PromptKept
<1> QED BY <1>1, <1>2, <1>3, <1>4 DEF Section

\* A step after which nobody is inside a section.
LEMMA NobodyInside ==
  ASSUME \A g \in Hooks : pc'[g] \notin Saving
  PROVE  Section'
BY DEF Section, Alone, LeaseHolder, StopHolder, Saving

\* Hooks do not enter a section while another is inside one.
LEMMA OthersOutside ==
  ASSUME Section, NEW h \in Hooks, ~Locked \/ pc[h] \in Saving
  PROVE  \A g \in Hooks : g # h => pc[g] \notin Saving
BY DEF Section, Alone, Locked, Saving

LEMMA GotoOthers ==
  ASSUME BridgeType, NEW h \in Hooks, NEW step \in Steps, Goto(h, step)
  PROVE  pc'[h] = step /\ \A g \in Hooks : g # h => pc'[g] = pc[g]
BY DEF BridgeType, TypeOK, Goto

\* The steps that change neither the state file nor the history.
LEMMA QuietSteps ==
  ASSUME BridgeInv, NEW h \in Hooks,
         \/ \E v \in Invocation : Fire(h, v.kind, v.of)
         \/ KeepLease(h) \/ LeaseFails(h) \/ Context(h) \/ StopRefused(h)
         \/ EndDelivery(h) \/ Release(h) \/ \E i \in waiting : Deliver(h, i)
         \/ Kill(h)
  PROVE  Section' /\ PromptKept'
<1>1. BridgeType /\ Section /\ PromptKept
  BY DEF BridgeInv
<1>2. /\ pc \in [Hooks -> Steps] /\ mem \in [Hooks -> States]
      /\ \A v \in Invocation : FirstStep(v.kind) \notin Saving
  <2>1. \A v \in Invocation :
          v.kind \in {"prompt", "answer", "pre", "post"} \cup StopKinds
    BY DEF Invocation
  <2> QED BY <1>1, <2>1
          DEF BridgeType, TypeOK, FirstStep, StopKinds, Saving
<1>3. UNCHANGED <<state, spool, persisted>>
  BY DEF Fire, KeepLease, LeaseFails, Context, Recall, RecallFails, Note,
         StopRefused, EndDelivery, Release, Deliver, Kill, spoolVars, hostVars
<1>4. /\ \A g \in Hooks : g # h => pc'[g] = pc[g] /\ mem'[g] = mem[g]
      /\ pc'[h] \notin Saving \/ UNCHANGED <<pc, mem>>
  <2>1. CASE \E v \in Invocation : Fire(h, v.kind, v.of)
    <3>1. PICK v \in Invocation : Fire(h, v.kind, v.of)
      BY <2>1
    <3> QED BY <1>2, <3>1 DEF Fire
  <2>2. CASE KeepLease(h)
    BY <1>2, <2>2 DEF KeepLease, Goto, AfterLease, Saving
  <2>3. CASE LeaseFails(h)
    BY <1>2, <2>3 DEF LeaseFails, Goto, Saving
  <2>4. CASE Context(h)
    BY <1>2, <2>4 DEF Context, Recall, RecallFails, Note, Goto, Saving
  <2>5. CASE StopRefused(h)
    BY <1>2, <2>5 DEF StopRefused, Goto, Saving
  <2>6. CASE EndDelivery(h)
    BY <1>2, <2>6 DEF EndDelivery, Goto, Saving
  <2>7. CASE Release(h)
    BY <1>2, <2>7 DEF Release, Goto, Saving
  <2>8. CASE \E i \in waiting : Deliver(h, i)
    BY <2>8 DEF Deliver, hookVars
  <2>9. CASE Kill(h)
    BY <1>2, <2>9 DEF Kill, Goto, Saving
  <2> QED BY <2>1, <2>2, <2>3, <2>4, <2>5, <2>6, <2>7, <2>8, <2>9
<1>5. \A g \in Hooks :
        pc'[g] \in Saving => pc'[g] = pc[g] /\ mem'[g] = mem[g]
  BY <1>4
<1> QED BY <1>1, <1>3, <1>5, QuietStep

\* Acquiring a lease opens a section: the state is about to be rewritten.
LEMMA AcquireStep ==
  ASSUME BridgeInv, NEW h \in Hooks, AcquireLease(h)
  PROVE  Section' /\ PromptKept'
<1>1. BridgeType /\ Section /\ PromptKept
  BY DEF BridgeInv
<1>2. /\ UNCHANGED <<state, spool, persisted>>
      /\ mem' = [mem EXCEPT ![h] = [state EXCEPT !.lease = issued + 1]]
      /\ Goto(h, "saveLease")
      /\ ~Locked
  BY DEF AcquireLease, spoolVars, hostVars
<1>3. /\ pc'[h] = "saveLease"
      /\ \A g \in Hooks : g # h => pc'[g] \notin Saving
  BY <1>1, <1>2, GotoOthers, OthersOutside DEF Steps
<1>4. /\ state \in States /\ mem \in [Hooks -> States]
  BY <1>1 DEF BridgeType, TypeOK
<1>5. mem'[h].events = state'.events /\ mem'[h].round = state'.round
  BY <1>2, <1>4 DEF States
<1>6. Section'
  BY <1>3, <1>5 DEF Section, Alone, LeaseHolder, StopHolder, Saving
<1>7. PromptKept'
  BY <1>1, <1>2 DEF PromptKept
<1> QED BY <1>6, <1>7

\* Enqueueing a round opens one: every prompt in the state is in the spool now.
LEMMA EnqueueStep ==
  ASSUME BridgeInv, NEW h \in Hooks, StopEnqueues(h)
  PROVE  Section' /\ PromptKept'
<1> DEFINE entry == [round |-> AtStop(h).round,
                     turns |-> Of(Finished(AtStop(h)), "user")]
<1>1. BridgeType /\ Section /\ PromptKept
  BY DEF BridgeInv
<1>2. /\ UNCHANGED <<state, persisted>>
      /\ spool' = Append(spool, entry)
      /\ mem' = [mem EXCEPT ![h] = NoState]
      /\ Goto(h, "saveStop")
      /\ StopReads(h) /\ ~Locked
  BY DEF StopEnqueues, StopReads, hostVars
<1>3. /\ pc'[h] = "saveStop"
      /\ \A g \in Hooks : g # h => pc'[g] \notin Saving
  BY <1>1, <1>2, GotoOthers, OthersOutside DEF Steps
<1>4. entry.turns = Of(state.events, "user")
  BY <1>1, <1>2, StopRead
<1> HIDE DEF entry
<1>5. /\ spool \in Seq([round : 1 .. minted, turns : SUBSET TurnSet])
      /\ mem \in [Hooks -> States]
  BY <1>1 DEF BridgeType, TypeOK
<1>6. /\ Len(spool) + 1 \in DOMAIN spool' /\ spool'[Len(spool) + 1] = entry
      /\ \A i \in DOMAIN spool : i \in DOMAIN spool' /\ spool'[i] = spool[i]
  BY <1>2, <1>5
<1>7. mem'[h] = NoState
  BY <1>2, <1>5
<1>8. \A t \in Of(state'.events, "user") :
        \E i \in DOMAIN spool' : t \in spool'[i].turns
  BY <1>2, <1>4, <1>6
<1>9. Section'
  BY <1>3, <1>7, <1>8 DEF Section, Alone, LeaseHolder, StopHolder, Saving
<1>10. PromptKept'
  BY <1>1, <1>2, <1>6 DEF PromptKept
<1> QED BY <1>9, <1>10

\* The steps that rewrite the state file: they are the last of their section.
LEMMA RewriteSteps ==
  ASSUME BridgeInv, NEW h \in Hooks,
         AppendEvent(h) \/ SaveLease(h) \/ SaveStop(h) \/ StopEmpty(h)
  PROVE  Section' /\ PromptKept'
<1>1. BridgeType /\ Section /\ PromptKept /\ TypeOK
  BY DEF BridgeInv, BridgeType
<1>2. ~Locked \/ pc[h] \in Saving
  BY DEF AppendEvent, SaveLease, SaveStop, StopEmpty, Saving
<1>3. \E step \in Steps \ Saving : Goto(h, step)
  BY DEF AppendEvent, SaveLease, SaveStop, StopEmpty, AfterLease, Steps, Saving
<1>4. Section'
  BY <1>1, <1>2, <1>3, GotoOthers, OthersOutside, NobodyInside
<1>5. spool' = spool
  BY DEF AppendEvent, SaveLease, SaveStop, StopEmpty, spoolVars
<1>6. ASSUME NEW t \in persisted',
             \A i \in DOMAIN spool : t \notin spool[i].turns
      PROVE  t \in Of(state'.events, "user")
  <2>1. t \in persisted => t \in Of(state.events, "user")
    BY <1>1, <1>6 DEF PromptKept
  <2>2. CASE AppendEvent(h)
    <3>1. state = [state EXCEPT !.lease = state.lease]
      BY <1>1 DEF TypeOK, States
    <3>2. Of(state'.events, "user")
            = Of(state.events, "user")
                \cup (IF hook[h].kind = "prompt" THEN {hook[h].of} ELSE {})
      <4>1. Recorded(Started(state), hook[h].kind, hook[h].of)
              = Recorded(Started([state EXCEPT !.lease = state.lease]),
                         hook[h].kind, hook[h].of)
        BY <3>1
      <4>2. Of(Recorded(Started(state), hook[h].kind, hook[h].of).events, "user")
              = Of(state.events, "user")
                  \cup (IF hook[h].kind = "prompt" THEN {hook[h].of} ELSE {})
        BY <1>1, <4>1, RecordedUsers
      <4> QED BY <2>2, <4>2 DEF AppendEvent
    <3>3. t \in persisted \/ (hook[h].kind = "prompt" /\ t = hook[h].of)
      BY <1>6, <2>2 DEF AppendEvent
    <3> QED BY <2>1, <3>2, <3>3
  <2>3. CASE SaveLease(h)
    <3>1. state' = mem[h] /\ mem[h].events = state.events
      BY <1>1, <2>3 DEF SaveLease, Section, LeaseHolder
    <3>2. t \in persisted
      BY <1>6, <2>3 DEF SaveLease, hostVars
    <3> QED BY <2>1, <3>1, <3>2
  <2>4. CASE SaveStop(h)
    <3>1. \A u \in Of(state.events, "user") :
            \E i \in DOMAIN spool : u \in spool[i].turns
      BY <1>1, <2>4 DEF SaveStop, Section, StopHolder
    <3>2. t \in persisted
      BY <1>6, <2>4 DEF SaveStop, hostVars
    <3> QED BY <1>6, <2>1, <3>1, <3>2
  <2>5. CASE StopEmpty(h)
    <3>1. Of(AtStop(h).events, "user") = {} /\ t \in persisted
      BY <1>6, <2>5 DEF StopEmpty, hostVars
    <3>2. Of(state.events, "user") \subseteq Of(AtStop(h).events, "user")
      BY <1>1, RecordedUsers DEF AtStop
    <3> QED BY <2>1, <3>1, <3>2
  <2> QED BY <2>2, <2>3, <2>4, <2>5
<1>7. PromptKept'
  BY <1>5, <1>6 DEF PromptKept
<1> QED BY <1>4, <1>7

LEMMA BridgeInit == Init => BridgeInv
<1> SUFFICES ASSUME Init PROVE BridgeInv
  OBVIOUS
<1>1. TypeOK
  <2>1. minted = 0 /\ issued = 0 /\ NoState \in States
    BY NoStateTyped DEF Init, States, NoState, None
  <2>2. mem \in [Hooks -> States] /\ state \in States
    BY <2>1 DEF Init
  <2>3. spool = <<>> /\ spool \in Seq([round : 1 .. minted, turns : SUBSET TurnSet])
    BY DEF Init
  <2>4. /\ pc \in [Hooks -> Steps]
        /\ hook \in [Hooks -> Invocation \cup {NoHook}]
        /\ lease \in [Hooks -> 0 .. issued]
        /\ mishaps \in [Mishaps -> Nat]
    BY <2>1 DEF Init, Steps, None
  <2>5. /\ waiting = {} /\ noted = FALSE /\ leases = {}
        /\ fired = {} /\ persisted = {}
    BY DEF Init
  <2> QED BY <2>1, <2>2, <2>3, <2>4, <2>5 DEF TypeOK
<1>2. RoundNamed /\ StopServed
  BY DEF Init, RoundNamed, StopServed, NoState, Of
<1>3. Section /\ PromptKept
  BY DEF Init, Section, Alone, LeaseHolder, StopHolder, PromptKept, Saving
<1> QED BY <1>1, <1>2, <1>3 DEF BridgeInv, BridgeType

LEMMA BridgeStep == BridgeInv /\ [Next]_vars => BridgeInv'
<1> SUFFICES ASSUME BridgeInv, [Next]_vars PROVE BridgeInv'
  OBVIOUS
<1>1. BridgeType'
  BY TypeStep
<1>2. Section' /\ PromptKept'
  <2>1. Section /\ PromptKept
    BY DEF BridgeInv
  <2>2. CASE UNCHANGED vars
    BY <2>1, <2>2, QuietStep DEF vars, hookVars, spoolVars, hostVars
  <2>3. ASSUME NEW h \in Hooks, NEW v \in Invocation, Fire(h, v.kind, v.of)
        PROVE  Section' /\ PromptKept'
    BY <2>3, QuietSteps
  <2>4. ASSUME NEW h \in Hooks, HookStep(h)
        PROVE  Section' /\ PromptKept'
    <3>1. CASE AppendEvent(h)
      BY <3>1, RewriteSteps
    <3>2. CASE SessionLease(h)
      BY <3>2, QuietSteps, AcquireStep, RewriteSteps DEF SessionLease
    <3>3. CASE Context(h)
      BY <3>3, QuietSteps
    <3>4. CASE Stop(h)
      BY <3>4, QuietSteps, EnqueueStep, RewriteSteps DEF Stop
    <3> QED BY <2>4, <3>1, <3>2, <3>3, <3>4 DEF HookStep
  <2>5. ASSUME NEW h \in Hooks, Kill(h)
        PROVE  Section' /\ PromptKept'
    BY <2>5, QuietSteps
  <2>6. ASSUME NEW l \in leases, LeaseExpires(l)
        PROVE  Section' /\ PromptKept'
    BY <2>1, <2>6, QuietStep DEF LeaseExpires, hookVars, spoolVars, hostVars
  <2> QED BY <2>2, <2>3, <2>4, <2>5, <2>6 DEF Next
<1> QED BY <1>1, <1>2 DEF BridgeInv

-----------------------------------------------------------------------------
(* The theorems. *)

\* The state file, the hooks' memory and the spool hold what they are meant to,
\* in every behaviour of the hooks of a session.
THEOREM BridgeTypeCorrect == Spec => []TypeOK
<1>1. BridgeInv => TypeOK
  BY DEF BridgeInv, BridgeType
<1> QED BY <1>1, BridgeInit, BridgeStep, PTL DEF Spec

\* A prompt that a hook recorded is in the state file or in a round of the spool
\* at all times: the lock and the order of _enqueue_finished_round (enqueue,
\* then clear the state) lose none, whatever hooks run side by side, are
\* killed, or find the spool full or the core away.
THEOREM PromptsKept == Spec => []PromptKept
<1>1. BridgeInv => PromptKept
  BY DEF BridgeInv
<1> QED BY <1>1, BridgeInit, BridgeStep, PTL DEF Spec

-----------------------------------------------------------------------------
(* The rounds of one identity. *)

InSection(step) == \E h \in Hooks : pc[h] = step

Entries(x) == {j \in DOMAIN spool : spool[j].round = x}

\* A round is enqueued once, and once more for each hook that was killed.
RoundsCounted == \A x \in Nat : Cardinality(Entries(x)) <= 1 + mishaps["kill"]

\* The round the state names is not enqueued yet, unless a Stop that enqueued it
\* is about to clear the state or was killed before it could.
RoundUnused ==
  state.round # None /\ ~InSection("saveStop")
    => Cardinality(Entries(state.round)) <= mishaps["kill"]

RoundInv == RoundsCounted /\ RoundUnused

LEMMA SeqElement ==
  ASSUME NEW S, NEW s \in Seq(S), NEW i \in DOMAIN s
  PROVE  s[i] \in S
OBVIOUS

LEMMA EntriesFinite ==
  ASSUME TypeOK, NEW x
  PROVE  IsFiniteSet(Entries(x)) /\ Cardinality(Entries(x)) \in Nat
<1>1. DOMAIN spool = 1 .. Len(spool) /\ Len(spool) \in Nat
  BY DEF TypeOK
<1>2. IsFiniteSet(DOMAIN spool)
  BY <1>1, FS_Interval
<1>3. IsFiniteSet(Entries(x))
  BY <1>2, FS_Subset DEF Entries
<1> QED BY <1>3, FS_CardinalityType

\* A name that was never drawn is that of no round.
LEMMA FreshUnused ==
  ASSUME TypeOK
  PROVE  Cardinality(Entries(minted + 1)) = 0
<1>1. \A j \in DOMAIN spool : spool[j].round \in 1 .. minted
  <2>1. spool \in Seq([round : 1 .. minted, turns : SUBSET TurnSet])
    BY DEF TypeOK
  <2>2. \A j \in DOMAIN spool :
          spool[j] \in [round : 1 .. minted, turns : SUBSET TurnSet]
    BY <2>1, SeqElement
  <2> QED BY <2>2
<1>2. minted + 1 \notin 1 .. minted
  BY DEF TypeOK
<1>3. Entries(minted + 1) = {}
  BY <1>1, <1>2 DEF Entries
<1> QED BY <1>3, FS_EmptySet

\* Enqueueing adds an entry to those of its own round.
LEMMA EntriesAdded ==
  ASSUME TypeOK, NEW e, spool' = Append(spool, e), NEW x
  PROVE  /\ e.round # x => Entries(x)' = Entries(x)
         /\ Cardinality(Entries(x)') <= Cardinality(Entries(x)) + 1
<1> DEFINE n == Len(spool)
<1>1. /\ n \in Nat /\ DOMAIN spool = 1 .. n
      /\ DOMAIN spool' = 1 .. n + 1 /\ spool'[n + 1] = e
      /\ \A j \in 1 .. n : spool'[j] = spool[j]
  BY DEF TypeOK
<1>2. Entries(x)' = Entries(x) \cup (IF e.round = x THEN {n + 1} ELSE {})
  <2>1. 1 .. n + 1 = 1 .. n \cup {n + 1} /\ n + 1 \notin 1 .. n
    BY <1>1
  <2> QED BY <1>1, <2>1 DEF Entries
<1>3. IsFiniteSet(Entries(x)) /\ Cardinality(Entries(x)) \in Nat
  BY EntriesFinite
<1>4. Cardinality(Entries(x) \cup {n + 1})
        \in {Cardinality(Entries(x)), Cardinality(Entries(x)) + 1}
  BY <1>3, FS_AddElement
<1>5. CASE e.round = x
  BY <1>2, <1>3, <1>4, <1>5
<1>6. CASE e.round # x
  <2>1. Entries(x)' = Entries(x)
    BY <1>2, <1>6
  <2> QED BY <1>3, <1>6, <2>1
<1> QED BY <1>5, <1>6

\* A step that enqueues nothing: the state keeps its round, forgets it or draws
\* a new one, and a Stop that enqueued leaves its section by clearing the state
\* or by being killed.
RoundRests ==
  /\ spool' = spool
  /\ mishaps'["kill"] \in {mishaps["kill"], mishaps["kill"] + 1}
  /\ state'.round \in {state.round, None, minted + 1}
  /\ \/ InSection("saveStop") => InSection("saveStop")'
     \/ state'.round = None
     \/ mishaps'["kill"] = mishaps["kill"] + 1 /\ state' = state

LEMMA RoundAtRest ==
  ASSUME TypeOK, RoundInv, RoundRests
  PROVE  RoundInv'
<1>1. mishaps["kill"] \in Nat
  BY DEF TypeOK, Mishaps
<1>2. state.round \in Nat /\ minted \in Nat
  BY DEF TypeOK, States
<1>3. \A x \in Nat : Cardinality(Entries(x)) \in Nat
  BY EntriesFinite
<1>4. \A x \in Nat : Entries(x)' = Entries(x)
  BY DEF RoundRests, Entries
<1>5. RoundsCounted'
  <2> SUFFICES ASSUME NEW x \in Nat
               PROVE  Cardinality(Entries(x)') <= 1 + mishaps'["kill"]
    BY DEF RoundsCounted
  <2> QED BY <1>1, <1>3, <1>4 DEF RoundInv, RoundsCounted, RoundRests
<1>6. RoundUnused'
  <2> SUFFICES ASSUME state'.round # None, ~InSection("saveStop")'
               PROVE  Cardinality({j \in DOMAIN spool' :
                                     spool'[j].round = state'.round})
                        <= mishaps'["kill"]
    BY DEF RoundUnused, Entries
  <2>1. {j \in DOMAIN spool' : spool'[j].round = state'.round}
          = Entries(state'.round)
    BY DEF RoundRests, Entries
  <2>2. CASE state'.round = minted + 1
    BY <1>1, <2>1, <2>2, FreshUnused DEF RoundRests
  <2>3. CASE state'.round = state.round /\ ~InSection("saveStop")
    <3>1. Cardinality(Entries(state.round)) <= mishaps["kill"]
      BY <2>3 DEF RoundInv, RoundUnused
    <3>2. Cardinality(Entries(state'.round)) <= mishaps["kill"]
      BY <2>3, <3>1
    <3>3. Cardinality(Entries(state'.round)) \in Nat
      BY <1>2, <1>3, <2>3
    <3> QED BY <1>1, <2>1, <3>2, <3>3 DEF RoundRests
  <2>4. CASE state'.round = state.round /\ InSection("saveStop")
    <3>1. Cardinality(Entries(state.round)) <= 1 + mishaps["kill"]
      BY <1>2 DEF RoundInv, RoundsCounted
    <3>2. mishaps'["kill"] = mishaps["kill"] + 1
      BY <2>4 DEF RoundRests
    <3>3. Cardinality(Entries(state'.round)) <= 1 + mishaps["kill"]
      BY <2>4, <3>1
    <3>4. Cardinality(Entries(state'.round)) \in Nat
      BY <1>2, <1>3, <2>4
    <3> QED BY <1>1, <2>1, <3>2, <3>3, <3>4
  <2> QED BY <2>2, <2>3, <2>4 DEF RoundRests
<1> QED BY <1>5, <1>6 DEF RoundInv

LEMMA RoundEnqueued ==
  ASSUME BridgeInv, RoundInv, NEW h \in Hooks, StopEnqueues(h)
  PROVE  RoundInv'
<1> DEFINE e == [round |-> AtStop(h).round,
                 turns |-> Of(Finished(AtStop(h)), "user")]
<1>1. BridgeType /\ TypeOK /\ ~InSection("saveStop")
  BY DEF BridgeInv, BridgeType, StopEnqueues, StopReads, Locked, InSection
<1>2. /\ spool' = Append(spool, e) /\ UNCHANGED mishaps
      /\ Goto(h, "saveStop") /\ StopReads(h)
  BY DEF StopEnqueues
<1>3. AtStop(h).round = state.round /\ state.round # None
  <2>1. AtStop(h).round \in 1 .. minted
    BY <1>1, <1>2, StopRead
  <2>2. /\ state.round # None => AtStop(h).round = state.round
        /\ state.round = None => AtStop(h).round = minted + 1
    BY <1>1, RecordedTyped DEF AtStop
  <2>3. minted \in Nat
    BY <1>1 DEF TypeOK
  <2> QED BY <2>1, <2>2, <2>3
<1>4. e.round = state.round
  BY <1>3
<1> HIDE DEF e
<1>5. mishaps["kill"] \in Nat /\ state.round \in Nat
  BY <1>1 DEF TypeOK, Mishaps, States
<1>6. RoundsCounted'
  <2> SUFFICES ASSUME NEW x \in Nat
               PROVE  Cardinality(Entries(x)') <= 1 + mishaps'["kill"]
    BY DEF RoundsCounted
  <2>1. Cardinality(Entries(x)) \in Nat
    BY <1>1, EntriesFinite
  <2>2. /\ e.round # x => Entries(x)' = Entries(x)
        /\ Cardinality(Entries(x)') <= Cardinality(Entries(x)) + 1
    BY <1>1, <1>2, EntriesAdded
  <2>3. CASE x = state.round
    <3>1. Cardinality(Entries(x)) <= mishaps["kill"]
      BY <1>1, <1>3, <2>3 DEF RoundInv, RoundUnused
    <3>2. Cardinality(Entries(x)') \in Nat
      <4>1. TypeOK'
        BY <1>1, StopEnqueuesType DEF BridgeType
      <4>2. \A y \in Nat : IsFiniteSet(Entries(y)')
        <5>1. DOMAIN spool' = 1 .. Len(spool') /\ Len(spool') \in Nat
          BY <4>1 DEF TypeOK
        <5>2. IsFiniteSet(DOMAIN spool')
          BY <5>1, FS_Interval
        <5> QED BY <5>2, FS_Subset DEF Entries
      <4> QED BY <4>2, FS_CardinalityType
    <3> QED BY <1>2, <1>5, <2>1, <2>2, <3>1, <3>2
  <2>4. CASE x # state.round
    <3>1. Entries(x)' = Entries(x)
      BY <1>4, <2>2, <2>4
    <3> QED BY <1>2, <3>1 DEF RoundInv, RoundsCounted
  <2> QED BY <2>3, <2>4
<1>7. InSection("saveStop")'
  BY <1>1, <1>2, GotoOthers DEF InSection, Steps
<1> QED BY <1>6, <1>7 DEF RoundInv, RoundUnused

LEMMA RoundInit == Init => RoundInv
<1> SUFFICES ASSUME Init PROVE RoundInv
  OBVIOUS
<1>1. \A x : Entries(x) = {}
  BY DEF Init, Entries
<1>2. \A x : Cardinality(Entries(x)) = 0
  BY <1>1, FS_EmptySet
<1>3. mishaps["kill"] = 0
  BY DEF Init, Mishaps
<1> QED BY <1>2, <1>3 DEF RoundInv, RoundsCounted, RoundUnused

LEMMA CountKept ==
  ASSUME TypeOK, NEW m \in Mishaps, Count(m)
  PROVE  /\ mishaps'[m] = mishaps[m] + 1
         /\ \A n \in Mishaps : n # m => mishaps'[n] = mishaps[n]
BY DEF TypeOK, Count

\* The steps that leave the state, the spool and the kills alone, or are a kill.
LEMMA QuietRounds ==
  ASSUME BridgeInv, NEW h \in Hooks,
         \/ \E v \in Invocation : Fire(h, v.kind, v.of)
         \/ KeepLease(h) \/ AcquireLease(h) \/ LeaseFails(h) \/ Context(h)
         \/ StopRefused(h) \/ EndDelivery(h) \/ Release(h)
         \/ \E i \in waiting : Deliver(h, i)
         \/ Kill(h)
  PROVE  RoundRests
<1>1. BridgeType /\ TypeOK /\ pc \in [Hooks -> Steps]
  BY DEF BridgeInv, BridgeType, TypeOK
<1>2. state' = state /\ spool' = spool
  BY DEF Fire, KeepLease, AcquireLease, LeaseFails, Context, Recall, RecallFails,
         Note, StopRefused, EndDelivery, Release, Deliver, Kill, spoolVars
<1>3. CASE Kill(h)
  <2>1. mishaps'["kill"] = mishaps["kill"] + 1
    BY <1>1, <1>3, CountKept DEF Kill, Mishaps
  <2> QED BY <1>2, <2>1 DEF RoundRests
<1>4. CASE ~Kill(h)
  <2>1. \/ UNCHANGED mishaps
        \/ \E m \in Mishaps \ {"kill"} : Count(m)
    BY <1>4 DEF Fire, KeepLease, AcquireLease, LeaseFails, Context, Recall,
                RecallFails, Note, StopRefused, EndDelivery, Release, Deliver,
                LoseRequest, Mishaps
  <2>2. mishaps'["kill"] = mishaps["kill"]
    BY <1>1, <2>1, CountKept DEF Mishaps
  <2>3. /\ pc[h] # "saveStop"
        /\ \A g \in Hooks : g # h => pc'[g] = pc[g]
    <3>1. CASE \E v \in Invocation : Fire(h, v.kind, v.of)
      BY <1>1, <3>1 DEF Fire
    <3>2. CASE \E i \in waiting : Deliver(h, i)
      BY <3>2 DEF Deliver, hookVars
    <3>3. CASE \E step \in Steps : Goto(h, step) /\ pc[h] # "saveStop"
      BY <1>1, <3>3, GotoOthers
    <3> QED BY <1>4, <3>1, <3>2, <3>3
            DEF KeepLease, AcquireLease, LeaseFails, Context, Recall,
                RecallFails, Note, StopRefused, StopReads, EndDelivery, Release,
                AfterLease, Steps
  <2>4. InSection("saveStop") => InSection("saveStop")'
    BY <2>3 DEF InSection
  <2> QED BY <1>2, <2>2, <2>4 DEF RoundRests
<1> QED BY <1>3, <1>4

\* The steps that rewrite the state.
LEMMA RewrittenRounds ==
  ASSUME BridgeInv, NEW h \in Hooks,
         AppendEvent(h) \/ SaveLease(h) \/ SaveStop(h) \/ StopEmpty(h)
  PROVE  RoundRests
<1>1. BridgeType /\ TypeOK /\ Section /\ state = [state EXCEPT !.lease = state.lease]
  BY DEF BridgeInv, BridgeType, TypeOK, States
<1>2. spool' = spool /\ UNCHANGED mishaps
  BY DEF AppendEvent, SaveLease, SaveStop, StopEmpty, spoolVars
<1>3. CASE SaveStop(h)
  <2>1. state'.round = None
    BY <1>1, <1>3 DEF SaveStop, Section, StopHolder, NoState
  <2> QED BY <1>2, <2>1 DEF RoundRests
<1>4. CASE ~SaveStop(h)
  <2>1. state'.round \in {state.round, None, minted + 1}
    <3>1. CASE AppendEvent(h)
      <4>1. \/ Recorded(Started([state EXCEPT !.lease = state.lease]),
                        hook[h].kind, hook[h].of).round \in {state.round, minted + 1}
        BY <1>1, RecordedTyped
      <4> QED BY <1>1, <3>1, <4>1 DEF AppendEvent
    <3>2. CASE SaveLease(h)
      BY <1>1, <3>2 DEF SaveLease, Section, LeaseHolder
    <3>3. CASE StopEmpty(h)
      <4>1. AtStop(h).round \in {state.round, minted + 1}
        BY <1>1, RecordedTyped DEF AtStop
      <4> QED BY <3>3, <4>1 DEF StopEmpty, NoState
    <3> QED BY <1>4, <3>1, <3>2, <3>3
  <2>2. \E step \in Steps : Goto(h, step) /\ pc[h] # "saveStop"
    BY <1>4 DEF AppendEvent, SaveLease, StopEmpty, AfterLease, Steps
  <2>3. InSection("saveStop") => InSection("saveStop")'
    BY <1>1, <2>2, GotoOthers DEF InSection
  <2> QED BY <1>2, <2>1, <2>3 DEF RoundRests
<1> QED BY <1>3, <1>4

LEMMA RoundStep ==
  BridgeInv /\ RoundInv /\ [Next]_vars => RoundInv'
<1> SUFFICES ASSUME BridgeInv, RoundInv, [Next]_vars PROVE RoundInv'
  OBVIOUS
<1>1. TypeOK
  BY DEF BridgeInv, BridgeType
<1>2. CASE UNCHANGED vars
  BY <1>1, <1>2, RoundAtRest
     DEF RoundRests, InSection, vars, hookVars, spoolVars
<1>3. ASSUME NEW h \in Hooks, NEW v \in Invocation, Fire(h, v.kind, v.of)
      PROVE  RoundInv'
  BY <1>1, <1>3, QuietRounds, RoundAtRest
<1>4. ASSUME NEW h \in Hooks, HookStep(h)
      PROVE  RoundInv'
  <2>1. CASE AppendEvent(h)
    BY <1>1, <2>1, RewrittenRounds, RoundAtRest
  <2>2. CASE SessionLease(h)
    BY <1>1, <2>2, QuietRounds, RewrittenRounds, RoundAtRest DEF SessionLease
  <2>3. CASE Context(h)
    BY <1>1, <2>3, QuietRounds, RoundAtRest
  <2>4. CASE Stop(h)
    BY <1>1, <2>4, QuietRounds, RewrittenRounds, RoundAtRest, RoundEnqueued
       DEF Stop
  <2> QED BY <1>4, <2>1, <2>2, <2>3, <2>4 DEF HookStep
<1>5. ASSUME NEW h \in Hooks, Kill(h)
      PROVE  RoundInv'
  BY <1>1, <1>5, QuietRounds, RoundAtRest
<1>6. ASSUME NEW l \in leases, LeaseExpires(l)
      PROVE  RoundInv'
  <2>1. mishaps'["kill"] = mishaps["kill"]
    BY <1>1, <1>6, CountKept DEF LeaseExpires, Mishaps
  <2>2. RoundRests
    BY <1>6, <2>1 DEF LeaseExpires, RoundRests, InSection, hookVars, spoolVars
  <2> QED BY <1>1, <2>2, RoundAtRest
<1> QED BY <1>2, <1>3, <1>4, <1>5, <1>6 DEF Next

\* A round_id is enqueued at most once more than hooks are killed, whatever the
\* other hooks do: only a Stop killed between its enqueue and the rewriting of
\* the state leaves a round that will be enqueued again.
THEOREM RoundsAreIdentified == Spec => []RoundIdentity
<1>1. TypeOK /\ RoundInv => RoundIdentity
  <2> SUFFICES ASSUME TypeOK, RoundInv, NEW i \in DOMAIN spool
               PROVE  Cardinality({j \in DOMAIN spool :
                                     spool[j].round = spool[i].round})
                        <= 1 + mishaps["kill"]
    BY DEF RoundIdentity
  <2>1. spool[i] \in [round : 1 .. minted, turns : SUBSET TurnSet]
    BY SeqElement DEF TypeOK
  <2>2. spool[i].round \in Nat
    BY <2>1 DEF TypeOK
  <2> QED BY <2>2 DEF RoundInv, RoundsCounted, Entries
<1>2. BridgeInv => TypeOK
  BY DEF BridgeInv, BridgeType
<1> QED
  BY <1>1, <1>2, BridgeInit, BridgeStep, RoundInit, RoundStep, PTL DEF Spec

-----------------------------------------------------------------------------
(* The leases of the core. *)

\* A hook has a state to write back only while it saves a lease.
MemoryUsed == \A h \in Hooks : pc[h] # "saveLease" => mem[h] = NoState

\* A hook has a lease to release only once it took it out of the state.
LeaseTaken ==
  \A h \in Hooks :
    /\ pc[h] \notin {"saveStop", "deliver", "release"} => lease[h] = None
    /\ pc[h] = "saveStop" => lease[h] = state.lease

\* A lease is in the state, unless a hook is about to write another one there,
\* or in a hook's memory.
Held(l) ==
  \/ l = state.lease /\ ~InSection("saveLease")
  \/ \E h \in Hooks : lease[h] = l \/ mem[h].lease = l

Adrift == {l \in leases : ~Held(l)}

Excuses == mishaps["kill"] + mishaps["outage"] + mishaps["full"]

\* The request that fails is counted when the lease it was for is given up, the
\* state that named it rewritten later: hence Held and not the leases of
\* LeaseAccounted.
AdriftCounted == Cardinality(Adrift) <= Excuses

LeaseInv == MemoryUsed /\ LeaseTaken /\ AdriftCounted

LEMMA AdriftFinite ==
  ASSUME TypeOK
  PROVE  IsFiniteSet(Adrift) /\ Cardinality(Adrift) \in Nat
<1>1. issued \in Nat /\ Adrift \subseteq 1 .. issued
  BY DEF TypeOK, Adrift
<1>2. IsFiniteSet(1 .. issued)
  BY <1>1, FS_Interval
<1>3. IsFiniteSet(Adrift)
  BY <1>1, <1>2, FS_Subset
<1> QED BY <1>3, FS_CardinalityType

\* At most one lease is given up by a step, and none without an excuse.
LEMMA AdriftBounded ==
  ASSUME TypeOK, TypeOK', AdriftCounted, NEW x,
         Adrift' \subseteq Adrift \cup {x},
         Excuses' = Excuses + 1 \/ (Excuses' = Excuses /\ x \notin Adrift')
  PROVE  AdriftCounted'
<1>1. IsFiniteSet(Adrift) /\ Cardinality(Adrift) \in Nat
  BY AdriftFinite
<1>2. IsFiniteSet(Adrift') /\ Cardinality(Adrift') \in Nat
  <2>1. issued' \in Nat /\ Adrift' \subseteq 1 .. issued'
    BY DEF TypeOK, Adrift
  <2>2. IsFiniteSet(1 .. issued')
    BY <2>1, FS_Interval
  <2>3. IsFiniteSet(Adrift')
    BY <2>1, <2>2, FS_Subset
  <2> QED BY <2>3, FS_CardinalityType
<1>3. Excuses \in Nat
  <2>1. /\ mishaps["kill"] \in Nat /\ mishaps["outage"] \in Nat
        /\ mishaps["full"] \in Nat
    BY DEF TypeOK, Mishaps
  <2> QED BY <2>1 DEF Excuses
<1>4. CASE Excuses' = Excuses + 1
  <2>1. /\ IsFiniteSet(Adrift \cup {x})
        /\ Cardinality(Adrift \cup {x})
             \in {Cardinality(Adrift), Cardinality(Adrift) + 1}
    BY <1>1, FS_AddElement
  <2>2. Cardinality(Adrift') <= Cardinality(Adrift \cup {x})
    BY <2>1, FS_Subset
  <2> QED BY <1>1, <1>2, <1>3, <1>4, <2>1, <2>2 DEF AdriftCounted
<1>5. CASE Excuses' = Excuses /\ x \notin Adrift'
  <2>1. Cardinality(Adrift') <= Cardinality(Adrift)
    BY <1>1, <1>5, FS_Subset
  <2> QED BY <1>1, <1>2, <1>3, <1>5, <2>1 DEF AdriftCounted
<1> QED BY <1>4, <1>5

\* No lease but x is given up.
LEMMA AllButOne ==
  ASSUME NEW x,
         \A l : Held(l) => l = x \/ Held(l)' \/ l \notin leases',
         \A l \in leases' : l \in leases \/ l = x \/ Held(l)'
  PROVE  Adrift' \subseteq Adrift \cup {x}
BY DEF Adrift

LEMMA NoneAdrift == TypeOK => None \notin Adrift
BY DEF TypeOK, Adrift, None

\* No lease is given up.
LEMMA AllHeld ==
  ASSUME TypeOK, TypeOK', AdriftCounted,
         Excuses' \in {Excuses, Excuses + 1},
         \A l \in leases : Held(l) => Held(l)' \/ l \notin leases',
         \A l \in leases' : l \in leases \/ Held(l)'
  PROVE  AdriftCounted'
<1>1. Adrift' \subseteq Adrift
  BY DEF Adrift
<1>2. None \notin Adrift'
  BY DEF TypeOK, Adrift, None
<1> QED BY <1>1, <1>2, AdriftBounded

\* The excuses a step can add.
LEMMA ExcusesCounted ==
  ASSUME TypeOK
  PROVE  /\ \A m \in Mishaps : Count(m) =>
              Excuses' = IF m \in {"kill", "outage", "full"} THEN Excuses + 1
                                                             ELSE Excuses
         /\ UNCHANGED mishaps => Excuses' = Excuses
<1>1. \A m \in {"kill", "outage", "full"} : mishaps[m] \in Nat
  BY DEF TypeOK, Mishaps
<1>2. ASSUME NEW m \in Mishaps, Count(m)
      PROVE  Excuses' = IF m \in {"kill", "outage", "full"} THEN Excuses + 1
                                                            ELSE Excuses
  <2>1. /\ mishaps'[m] = mishaps[m] + 1
        /\ \A n \in Mishaps : n # m => mishaps'[n] = mishaps[n]
    BY <1>2, CountKept
  <2>2. m = "kill" \/ m = "outage" \/ m = "full" \/ m = "expiry" \/ m = "overlap"
    BY DEF Mishaps
  <2> QED BY <1>1, <2>1, <2>2 DEF Excuses, Mishaps
<1>3. UNCHANGED mishaps => Excuses' = Excuses
  BY DEF Excuses
<1> QED BY <1>2, <1>3

\* What a hook holds as it goes on.
LEMMA HandsKept ==
  ASSUME BridgeType, MemoryUsed, LeaseTaken, NEW h \in Hooks,
         NEW step \in Steps, Goto(h, step),
         \A g \in Hooks : g # h => mem'[g] = mem[g] /\ lease'[g] = lease[g],
         \/ state'.lease = state.lease
         \/ \A g \in Hooks : g # h => pc[g] # "saveStop",
         step # "saveLease" => mem'[h] = NoState,
         step \notin {"saveStop", "deliver", "release"} => lease'[h] = None,
         step = "saveStop" => lease'[h] = state'.lease
  PROVE  MemoryUsed' /\ LeaseTaken'
<1>1. pc'[h] = step /\ \A g \in Hooks : g # h => pc'[g] = pc[g]
  BY GotoOthers
<1> QED BY <1>1 DEF MemoryUsed, LeaseTaken

\* The memory of the hooks and the lease in the state stay.
LEMMA HeldOn ==
  ASSUME UNCHANGED <<mem, lease>>, state'.lease = state.lease,
         InSection("saveLease")' => InSection("saveLease")
  PROVE  \A l : Held(l) => Held(l)'
BY DEF Held

\* A hook that does not enter the section of _session_client.
LEMMA NotEntered ==
  ASSUME BridgeType, NEW h \in Hooks, NEW step \in Steps \ {"saveLease"},
         Goto(h, step)
  PROVE  InSection("saveLease")' => InSection("saveLease")
BY GotoOthers DEF InSection

\* The steps that leave every lease where it is, and grant none, or one that
\* nobody hears of.
LEMMA QuietLeases ==
  ASSUME BridgeInv, BridgeType', LeaseInv, NEW h \in Hooks,
         \/ AppendEvent(h) \/ KeepLease(h) \/ LeaseFails(h) \/ Context(h)
         \/ StopRefused(h)
  PROVE  LeaseInv'
<1>1. /\ BridgeType /\ TypeOK /\ TypeOK'
      /\ MemoryUsed /\ LeaseTaken /\ AdriftCounted
      /\ state = [state EXCEPT !.lease = state.lease]
  BY DEF BridgeInv, BridgeType, LeaseInv, TypeOK, States
<1>2. UNCHANGED <<mem, lease>>
  BY DEF AppendEvent, KeepLease, LeaseFails, Context, Recall, RecallFails, Note,
         StopRefused
<1>3. state'.lease = state.lease
  <2>1. CASE AppendEvent(h)
    <3>1. Recorded(Started([state EXCEPT !.lease = state.lease]),
                   hook[h].kind, hook[h].of).lease = state.lease
      BY <1>1, RecordedTyped
    <3> QED BY <1>1, <2>1, <3>1 DEF AppendEvent
  <2> QED BY <2>1 DEF KeepLease, LeaseFails, Context, Recall, RecallFails, Note,
                      StopRefused
<1>4. PICK step \in Steps \ {"saveLease", "saveStop", "deliver", "release"} :
        Goto(h, step)
  BY DEF AppendEvent, KeepLease, LeaseFails, Context, Recall, RecallFails, Note,
         StopRefused, AfterLease, Steps
<1>5. pc[h] \notin {"saveLease", "saveStop", "deliver", "release"}
  BY DEF AppendEvent, KeepLease, LeaseFails, Context, Recall, RecallFails, Note,
         StopRefused, StopReads
<1>6. MemoryUsed' /\ LeaseTaken'
  BY <1>1, <1>2, <1>3, <1>4, <1>5, HandsKept DEF MemoryUsed, LeaseTaken
<1>7. \A l : Held(l) => Held(l)'
  BY <1>1, <1>2, <1>3, <1>4, NotEntered, HeldOn
<1>8. CASE LeaseFails(h)
  <2>1. Excuses' = Excuses + 1
    BY <1>1, <1>8, ExcusesCounted DEF LeaseFails, LoseRequest, Mishaps
  <2>2. Adrift' \subseteq Adrift \cup {issued + 1}
    <3>1. \A l \in leases' : l \in leases \/ l = issued + 1
      BY <1>8 DEF LeaseFails
    <3> QED BY <1>7, <3>1, AllButOne
  <2>3. AdriftCounted'
    BY <1>1, <2>1, <2>2, AdriftBounded
  <2> QED BY <1>6, <2>3 DEF LeaseInv
<1>9. CASE ~LeaseFails(h)
  <2>1. leases' = leases
    BY <1>9 DEF AppendEvent, KeepLease, Context, Recall, RecallFails, Note,
                StopRefused, coreVars
  <2>2. UNCHANGED mishaps \/ \E m \in Mishaps : Count(m)
    BY <1>9 DEF AppendEvent, KeepLease, Context, Recall, RecallFails, Note,
                StopRefused, LoseRequest, Mishaps
  <2>3. Excuses' \in {Excuses, Excuses + 1}
    BY <1>1, <2>2, ExcusesCounted
  <2>4. AdriftCounted'
    BY <1>1, <1>7, <2>1, <2>3, AllHeld
  <2> QED BY <1>6, <2>4 DEF LeaseInv
<1> QED BY <1>8, <1>9

\* The host invokes a hook.
LEMMA FireLeases ==
  ASSUME BridgeInv, BridgeType', LeaseInv, NEW h \in Hooks,
         NEW v \in Invocation, Fire(h, v.kind, v.of)
  PROVE  LeaseInv'
<1>1. /\ TypeOK /\ TypeOK' /\ pc \in [Hooks -> Steps]
      /\ MemoryUsed /\ LeaseTaken /\ AdriftCounted
  BY DEF BridgeInv, BridgeType, LeaseInv, TypeOK
<1>2. /\ UNCHANGED <<state, mem, lease, leases>>
      /\ pc[h] = "idle" /\ pc' = [pc EXCEPT ![h] = FirstStep(v.kind)]
      /\ UNCHANGED mishaps \/ Count("overlap")
  BY DEF Fire, coreVars
<1>3. FirstStep(v.kind) \in {"append", "lease", "stop"}
  <2>1. v.kind \in {"prompt", "answer", "pre", "post"} \cup StopKinds
    BY DEF Invocation
  <2> QED BY <2>1 DEF FirstStep, StopKinds
<1>4. MemoryUsed' /\ LeaseTaken'
  BY <1>1, <1>2, <1>3 DEF MemoryUsed, LeaseTaken
<1>5. InSection("saveLease")' => InSection("saveLease")
  BY <1>1, <1>2, <1>3 DEF InSection
<1>6. \A l : Held(l) => Held(l)'
  BY <1>2, <1>5, HeldOn
<1>7. Excuses' = Excuses
  BY <1>1, <1>2, ExcusesCounted DEF Mishaps
<1>8. AdriftCounted'
  BY <1>1, <1>2, <1>6, <1>7, AllHeld
<1> QED BY <1>4, <1>8 DEF LeaseInv

\* A delivery cycle, the expiry of a lease, and a stutter.
LEMMA OtherLeases ==
  ASSUME BridgeInv, BridgeType', LeaseInv,
         UNCHANGED <<state, hookVars>>, leases' \subseteq leases,
         UNCHANGED mishaps \/ Count("expiry")
  PROVE  LeaseInv'
<1>1. /\ TypeOK /\ TypeOK' /\ MemoryUsed /\ LeaseTaken /\ AdriftCounted
  BY DEF BridgeInv, BridgeType, LeaseInv
<1>2. MemoryUsed' /\ LeaseTaken'
  BY <1>1 DEF MemoryUsed, LeaseTaken, hookVars
<1>3. \A l : Held(l) => Held(l)'
  BY HeldOn DEF hookVars, InSection
<1>4. Excuses' = Excuses
  BY <1>1, ExcusesCounted DEF Mishaps
<1>5. AdriftCounted'
  BY <1>1, <1>3, <1>4, AllHeld
<1> QED BY <1>2, <1>5 DEF LeaseInv

\* The lease the state names is given up here, and the failed heartbeat counted.
LEMMA AcquireLeases ==
  ASSUME BridgeInv, BridgeType', LeaseInv, NEW h \in Hooks, AcquireLease(h)
  PROVE  LeaseInv'
<1>1. /\ BridgeType /\ TypeOK /\ TypeOK'
      /\ MemoryUsed /\ LeaseTaken /\ AdriftCounted
      /\ mem \in [Hooks -> States] /\ state \in States /\ issued \in Nat
  BY DEF BridgeInv, BridgeType, LeaseInv, TypeOK
<1>2. /\ UNCHANGED <<state, lease>>
      /\ mem' = [mem EXCEPT ![h] = [state EXCEPT !.lease = issued + 1]]
      /\ leases' = leases \cup {issued + 1}
      /\ Goto(h, "saveLease") /\ pc[h] = "lease"
  BY DEF AcquireLease
<1>3. MemoryUsed' /\ LeaseTaken'
  BY <1>1, <1>2, HandsKept DEF LeaseTaken, Steps
<1>4. mem[h].lease = None /\ mem'[h].lease = issued + 1
  BY <1>1, <1>2 DEF MemoryUsed, NoState, States
<1>5. \A l : Held(l) => l \in {state.lease, None} \/ Held(l)'
  BY <1>1, <1>2, <1>4 DEF Held
<1>7. None \notin leases'
  BY <1>1 DEF TypeOK, None
<1>8. \A l \in leases' : l \in leases \/ l = issued + 1
  BY <1>2
<1>9. CASE state.lease \in leases
  <2>1. Excuses' = Excuses + 1
    BY <1>1, <1>9, ExcusesCounted DEF AcquireLease, LoseRequest, Mishaps
  <2>2. Adrift' \subseteq Adrift \cup {state.lease}
    <3> SUFFICES ASSUME NEW l \in leases', ~Held(l)', l # state.lease
                 PROVE  l \in leases /\ ~Held(l)
      BY DEF Adrift
    <3>1. l \in leases
      <4>1. l # issued + 1
        BY <1>4 DEF Held
      <4> QED BY <1>8, <4>1
    <3> QED BY <1>5, <1>7, <3>1
  <2> QED BY <1>1, <1>3, <2>1, <2>2, AdriftBounded DEF LeaseInv
<1>10. CASE state.lease \notin leases
  <2>1. Excuses' = Excuses
    BY <1>1, <1>10, ExcusesCounted DEF AcquireLease
  <2>2. state.lease \notin leases'
    BY <1>1, <1>2, <1>10 DEF States
  <2>3. \A l \in leases : Held(l) => Held(l)' \/ l \notin leases'
    BY <1>5, <1>7, <2>2
  <2>4. \A l \in leases' : l \in leases \/ Held(l)'
    <3> SUFFICES ASSUME NEW l \in leases', l = issued + 1 PROVE Held(l)'
      BY <1>8
    <3> QED BY <1>4 DEF Held
  <2>5. AdriftCounted'
    BY <1>1, <2>1, <2>3, <2>4, AllHeld
  <2> QED BY <1>3, <2>5 DEF LeaseInv
<1> QED BY <1>9, <1>10

LEMMA SaveLeases ==
  ASSUME BridgeInv, BridgeType', LeaseInv, NEW h \in Hooks, SaveLease(h)
  PROVE  LeaseInv'
<1>1. /\ BridgeType /\ TypeOK /\ TypeOK' /\ Section
      /\ MemoryUsed /\ LeaseTaken /\ AdriftCounted
      /\ mem \in [Hooks -> States]
  BY DEF BridgeInv, BridgeType, LeaseInv, TypeOK
<1>2. /\ state' = mem[h] /\ mem' = [mem EXCEPT ![h] = NoState]
      /\ UNCHANGED <<lease, leases, mishaps>>
      /\ Goto(h, AfterLease(h)) /\ pc[h] = "saveLease"
  BY DEF SaveLease, coreVars
<1>3. \A g \in Hooks : g # h => pc[g] \notin Saving
  BY <1>1, <1>2, OthersOutside DEF Saving
<1>4. AfterLease(h) \in Steps \ {"saveLease", "saveStop", "deliver", "release"}
  BY DEF AfterLease, Steps
<1>5. lease[h] = None
  BY <1>1, <1>2 DEF LeaseTaken
<1>6. MemoryUsed' /\ LeaseTaken'
  BY <1>1, <1>2, <1>3, <1>4, <1>5, HandsKept DEF Saving
<1>7. ~InSection("saveLease")' /\ InSection("saveLease")
  BY <1>1, <1>2, <1>3, <1>4, GotoOthers DEF InSection, Saving
<1>8. \A l : Held(l) => Held(l)'
  BY <1>1, <1>2, <1>7 DEF Held
<1>9. Excuses' = Excuses
  BY <1>1, <1>2, ExcusesCounted
<1>10. AdriftCounted'
  BY <1>1, <1>2, <1>8, <1>9, AllHeld
<1> QED BY <1>6, <1>10 DEF LeaseInv

\* Stop takes the lease out of the state: before the section ends it is in both.
LEMMA StopLeases ==
  ASSUME BridgeInv, BridgeType', LeaseInv, NEW h \in Hooks,
         StopEnqueues(h) \/ StopEmpty(h)
  PROVE  LeaseInv'
<1>1. /\ BridgeType /\ TypeOK /\ TypeOK' /\ Section
      /\ MemoryUsed /\ LeaseTaken /\ AdriftCounted
      /\ mem \in [Hooks -> States] /\ lease \in [Hooks -> 0 .. issued]
  BY DEF BridgeInv, BridgeType, LeaseInv, TypeOK
<1>2. /\ lease' = [lease EXCEPT ![h] = state.lease]
      /\ UNCHANGED <<leases, mishaps>>
      /\ pc[h] = "stop" /\ ~Locked
  BY DEF StopEnqueues, StopEmpty, StopReads, coreVars
<1>3. lease[h] = None /\ mem[h] = NoState
  BY <1>1, <1>2 DEF LeaseTaken, MemoryUsed
<1>4. mem' = mem
  BY <1>1, <1>3 DEF StopEnqueues, StopEmpty
<1>5. \/ state' = state /\ Goto(h, "saveStop")
      \/ Goto(h, "release")
  BY DEF StopEnqueues, StopEmpty
<1>6. \A g \in Hooks : g # h => pc[g] # "saveStop"
  BY <1>2 DEF Locked
<1>7. MemoryUsed' /\ LeaseTaken'
  <2>1. CASE state' = state /\ Goto(h, "saveStop")
    BY <1>1, <1>2, <1>3, <1>4, <1>6, <2>1, HandsKept DEF Steps
  <2>2. CASE Goto(h, "release")
    BY <1>1, <1>2, <1>3, <1>4, <1>6, <2>2, HandsKept DEF Steps
  <2> QED BY <1>5, <2>1, <2>2
<1>8. \A l : Held(l) => l = None \/ Held(l)'
  <2> SUFFICES ASSUME NEW l, Held(l), l # None PROVE Held(l)'
    OBVIOUS
  <2>1. CASE l = state.lease
    BY <1>1, <1>2, <2>1 DEF Held
  <2>2. CASE \E g \in Hooks : lease[g] = l \/ mem[g].lease = l
    BY <1>1, <1>2, <1>3, <1>4, <2>2 DEF Held
  <2> QED BY <2>1, <2>2 DEF Held
<1>9. None \notin leases
  BY <1>1 DEF TypeOK, None
<1>10. Excuses' = Excuses
  BY <1>1, <1>2, ExcusesCounted
<1>11. AdriftCounted'
  BY <1>1, <1>2, <1>8, <1>9, <1>10, AllHeld
<1> QED BY <1>7, <1>11 DEF LeaseInv

LEMMA SaveStopLeases ==
  ASSUME BridgeInv, BridgeType', LeaseInv, NEW h \in Hooks, SaveStop(h)
  PROVE  LeaseInv'
<1>1. /\ BridgeType /\ TypeOK /\ TypeOK' /\ Section
      /\ MemoryUsed /\ LeaseTaken /\ AdriftCounted
  BY DEF BridgeInv, BridgeType, LeaseInv
<1>2. /\ UNCHANGED <<mem, lease, leases, mishaps>>
      /\ Goto(h, "deliver") \/ Goto(h, "release")
      /\ pc[h] = "saveStop"
  BY DEF SaveStop, coreVars
<1>3. \A g \in Hooks : g # h => pc[g] \notin Saving
  BY <1>1, <1>2, OthersOutside DEF Saving
<1>4. mem[h] = NoState /\ lease[h] = state.lease
  BY <1>1, <1>2 DEF MemoryUsed, LeaseTaken
<1>5. PICK step \in {"deliver", "release"} : Goto(h, step)
  BY <1>2
<1>6. MemoryUsed' /\ LeaseTaken'
  BY <1>1, <1>2, <1>3, <1>4, <1>5, HandsKept DEF Saving, Steps
<1>7. \A l : Held(l) => Held(l)'
  BY <1>2, <1>4 DEF Held
<1>8. Excuses' = Excuses
  BY <1>1, <1>2, ExcusesCounted
<1>9. AdriftCounted'
  BY <1>1, <1>2, <1>7, <1>8, AllHeld
<1> QED BY <1>6, <1>9 DEF LeaseInv

\* A hook is over with a lease it has taken out of the state or was granted: the
\* core no longer has it, or a mishap is counted.
LEMMA ForgetLeases ==
  ASSUME BridgeInv, BridgeType', LeaseInv, NEW h \in Hooks,
         EndDelivery(h) \/ Release(h) \/ Kill(h)
  PROVE  LeaseInv'
<1>1. /\ BridgeType /\ TypeOK /\ TypeOK' /\ Section
      /\ MemoryUsed /\ LeaseTaken /\ AdriftCounted
      /\ mem \in [Hooks -> States] /\ lease \in [Hooks -> 0 .. issued]
  BY DEF BridgeInv, BridgeType, LeaseInv, TypeOK
<1>2. state' = state
  BY DEF EndDelivery, Release, Kill
<1>3. CASE EndDelivery(h) /\ Goto(h, "release") /\ UNCHANGED <<lease, mishaps>>
  <2>1. mem' = mem /\ leases' = leases /\ pc[h] = "deliver"
    BY <1>3 DEF EndDelivery, coreVars
  <2>2. MemoryUsed' /\ LeaseTaken'
    BY <1>1, <1>2, <1>3, <2>1, HandsKept DEF MemoryUsed, Steps
  <2>3. \A l : Held(l) => Held(l)'
    BY <1>1, <1>2, <1>3, <2>1, NotEntered, HeldOn DEF Steps
  <2>4. Excuses' = Excuses
    BY <1>1, <1>3, ExcusesCounted
  <2>5. AdriftCounted'
    BY <1>1, <2>1, <2>3, <2>4, AllHeld
  <2> QED BY <2>2, <2>5 DEF LeaseInv
<1>4. ASSUME Goto(h, "idle"), mem'[h] = NoState, lease'[h] = None,
             \A g \in Hooks : g # h => mem'[g] = mem[g] /\ lease'[g] = lease[g],
             NEW x, {lease[h], mem[h].lease} \subseteq {x, None},
             leases' \subseteq leases,
             \/ Excuses' = Excuses + 1
             \/ Excuses' = Excuses /\ x \notin leases'
      PROVE  LeaseInv'
  <2>1. MemoryUsed' /\ LeaseTaken'
    BY <1>1, <1>2, <1>4, HandsKept DEF Steps
  <2>2. InSection("saveLease")' => InSection("saveLease")
    BY <1>1, <1>4, NotEntered DEF Steps
  <2>3. \A l : Held(l) => l \in {x, None} \/ Held(l)'
    BY <1>2, <1>4, <2>2 DEF Held
  <2>4. None \notin leases'
    BY <1>1 DEF TypeOK, None
  <2>5. Adrift' \subseteq Adrift \cup {x}
    BY <1>4, <2>3, <2>4 DEF Adrift
  <2>6. x \notin leases' => x \notin Adrift'
    BY DEF Adrift
  <2> QED BY <1>1, <1>4, <2>1, <2>5, <2>6, AdriftBounded DEF LeaseInv
<1>5. CASE EndDelivery(h) /\ Goto(h, "idle") /\ Count("full")
  <2>1. /\ mem' = mem /\ leases' = leases /\ pc[h] = "deliver"
        /\ lease' = [lease EXCEPT ![h] = None]
    <3>1. pc'[h] = "idle"
      BY <1>1, <1>5, GotoOthers DEF Steps
    <3>2. ~Goto(h, "release")
      BY <1>1, <3>1, GotoOthers DEF Steps
    <3> QED BY <1>5, <3>2 DEF EndDelivery, coreVars
  <2>2. mem[h] = NoState
    BY <1>1, <2>1 DEF MemoryUsed
  <2>3. Excuses' = Excuses + 1
    BY <1>1, <1>5, ExcusesCounted DEF Mishaps
  <2>4. lease'[h] = None /\ {lease[h], mem[h].lease} \subseteq {lease[h], None}
    BY <1>1, <2>1, <2>2 DEF NoState
  <2>5. /\ Goto(h, "idle") /\ mem'[h] = NoState /\ leases' \subseteq leases
        /\ \A g \in Hooks : g # h => mem'[g] = mem[g] /\ lease'[g] = lease[g]
    BY <1>1, <1>5, <2>1, <2>2
  <2> QED BY <1>4, <2>3, <2>4, <2>5
<1>6. CASE Release(h)
  <2>1. /\ mem' = mem /\ pc[h] = "release" /\ Goto(h, "idle")
        /\ lease' = [lease EXCEPT ![h] = None]
        /\ \/ leases' = leases \ {lease[h]} /\ UNCHANGED mishaps
           \/ leases' = leases /\ Count("outage")
    BY <1>6 DEF Release, LoseRequest
  <2>2. mem[h] = NoState
    BY <1>1, <2>1 DEF MemoryUsed
  <2>3. /\ leases' \subseteq leases
        /\ \/ Excuses' = Excuses + 1
           \/ Excuses' = Excuses /\ lease[h] \notin leases'
    <3>1. UNCHANGED mishaps => Excuses' = Excuses
      BY <1>1, ExcusesCounted
    <3>2. Count("outage") => Excuses' = Excuses + 1
      BY <1>1, ExcusesCounted DEF Mishaps
    <3> QED BY <2>1, <3>1, <3>2
  <2>4. lease'[h] = None /\ {lease[h], mem[h].lease} \subseteq {lease[h], None}
    BY <1>1, <2>1, <2>2 DEF NoState
  <2>5. /\ Goto(h, "idle") /\ mem'[h] = NoState
        /\ \A g \in Hooks : g # h => mem'[g] = mem[g] /\ lease'[g] = lease[g]
    BY <1>1, <2>1, <2>2
  <2> QED BY <1>4, <2>3, <2>4, <2>5
<1>7. CASE Kill(h)
  <2>1. /\ mem' = [mem EXCEPT ![h] = NoState] /\ Goto(h, "idle")
        /\ lease' = [lease EXCEPT ![h] = None] /\ leases' = leases
    BY <1>7 DEF Kill, coreVars
  <2>2. Excuses' = Excuses + 1
    BY <1>1, <1>7, ExcusesCounted DEF Kill, Mishaps
  <2>3. lease[h] = None \/ mem[h].lease = None
    BY <1>1 DEF MemoryUsed, LeaseTaken, NoState
  <2>4. PICK x : {lease[h], mem[h].lease} \subseteq {x, None}
    BY <2>3
  <2>5. /\ mem'[h] = NoState /\ lease'[h] = None /\ leases' \subseteq leases
        /\ \A g \in Hooks : g # h => mem'[g] = mem[g] /\ lease'[g] = lease[g]
    BY <1>1, <2>1
  <2> QED BY <1>4, <2>1, <2>2, <2>4, <2>5
<1> QED BY <1>3, <1>5, <1>6, <1>7 DEF EndDelivery

LEMMA LeaseInit == Init => LeaseInv
<1> SUFFICES ASSUME Init PROVE LeaseInv
  OBVIOUS
<1>1. Adrift = {}
  BY DEF Init, Adrift
<1>2. Cardinality(Adrift) = 0
  BY <1>1, FS_EmptySet
<1>3. Excuses = 0
  BY DEF Init, Excuses, Mishaps
<1>4. MemoryUsed /\ LeaseTaken
  BY DEF Init, MemoryUsed, LeaseTaken
<1> QED BY <1>2, <1>3, <1>4 DEF LeaseInv, AdriftCounted

LEMMA LeaseStep ==
  BridgeInv /\ BridgeType' /\ LeaseInv /\ [Next]_vars => LeaseInv'
<1> SUFFICES ASSUME BridgeInv, BridgeType', LeaseInv, [Next]_vars
             PROVE  LeaseInv'
  OBVIOUS
<1>1. CASE UNCHANGED vars
  BY <1>1, OtherLeases DEF vars, coreVars
<1>2. ASSUME NEW h \in Hooks, NEW v \in Invocation, Fire(h, v.kind, v.of)
      PROVE  LeaseInv'
  BY <1>2, FireLeases
<1>3. ASSUME NEW h \in Hooks, HookStep(h)
      PROVE  LeaseInv'
  <2>1. CASE AppendEvent(h) \/ Context(h)
    BY <2>1, QuietLeases
  <2>2. CASE SessionLease(h)
    BY <2>2, QuietLeases, AcquireLeases, SaveLeases DEF SessionLease
  <2>3. CASE Stop(h)
    <3>1. CASE \E i \in waiting : Deliver(h, i)
      BY <3>1, OtherLeases DEF Deliver, coreVars
    <3> QED BY <2>3, <3>1, StopLeases, QuietLeases, SaveStopLeases, ForgetLeases
            DEF Stop
  <2> QED BY <1>3, <2>1, <2>2, <2>3 DEF HookStep
<1>4. ASSUME NEW h \in Hooks, Kill(h)
      PROVE  LeaseInv'
  BY <1>4, ForgetLeases
<1>5. ASSUME NEW l \in leases, LeaseExpires(l)
      PROVE  LeaseInv'
  BY <1>5, OtherLeases DEF LeaseExpires
<1> QED BY <1>1, <1>2, <1>3, <1>4, <1>5 DEF Next

\* The leases the session leaves to their TTL are no more than the hooks killed,
\* the requests failed and the spool's refusals: a lease is in the state, about
\* to be written there, or about to be released.
THEOREM LeasesOfSession == Spec => []LeaseAccounted
<1>1. TypeOK /\ LeaseInv => LeaseAccounted
  <2> SUFFICES ASSUME TypeOK, LeaseInv PROVE LeaseAccounted
    OBVIOUS
  <2> DEFINE left == leases \ ({state.lease} \cup {lease[h] : h \in Hooks}
                                             \cup {mem[h].lease : h \in Hooks})
  <2>1. left \subseteq Adrift
    BY DEF Adrift, Held
  <2>2. IsFiniteSet(Adrift) /\ Cardinality(Adrift) \in Nat
    BY AdriftFinite
  <2>3. /\ IsFiniteSet(left) /\ Cardinality(left) \in Nat
        /\ Cardinality(left) <= Cardinality(Adrift)
    BY <2>1, <2>2, FS_Subset, FS_CardinalityType
  <2>4. /\ mishaps["kill"] \in Nat /\ mishaps["outage"] \in Nat
        /\ mishaps["full"] \in Nat
    BY DEF TypeOK, Mishaps
  <2>5. Cardinality(Adrift)
          <= mishaps["kill"] + mishaps["outage"] + mishaps["full"]
    BY DEF LeaseInv, AdriftCounted, Excuses
  <2> HIDE DEF left
  <2>6. Cardinality(left)
          <= mishaps["kill"] + mishaps["outage"] + mishaps["full"]
    BY <2>2, <2>3, <2>4, <2>5
  <2> QED BY <2>6 DEF LeaseAccounted, left
<1>2. BridgeInv => TypeOK /\ BridgeType
  BY DEF BridgeInv, BridgeType
<1> QED
  BY <1>1, <1>2, BridgeInit, BridgeStep, LeaseInit, LeaseStep, PTL DEF Spec

-----------------------------------------------------------------------------
(* The lists of events of which a round can be made. *)

Tidy(es) ==
  /\ \A i \in DOMAIN es : es[i].id = i - 1
  /\ \A i, j \in Finals(es) : i = j
  /\ Unique(es, "call")
  /\ Of(es, "result") \subseteq Of(es, "call")

LEMMA FinalsAppended ==
  ASSUME NEW es \in Seq(Events), NEW e
  PROVE  Finals(Append(es, e))
           = Finals(es) \cup (IF e.kind = "final" THEN {Len(es) + 1} ELSE {})
<1>1. /\ DOMAIN Append(es, e) = DOMAIN es \cup {Len(es) + 1}
      /\ \A i \in DOMAIN es : Append(es, e)[i] = es[i]
      /\ Append(es, e)[Len(es) + 1] = e
  BY AppendedAt
<1> QED BY <1>1 DEF Finals

LEMMA TidyEmpty == Tidy(<< >>)
BY DEF Tidy, Finals, Unique, Of

\* What is appended names itself after its position: the list stays in order if
\* it has no other answer, not that call yet, and the call of that result.
LEMMA TidyAppend ==
  ASSUME NEW es \in Seq(Events), Tidy(es), NEW k, NEW o,
         k = "final" => Finals(es) = {},
         k = "call" => o \notin Of(es, "call"),
         k = "result" => o \in Of(es, "call")
  PROVE  Tidy(Append(es, Event(k, o, Len(es))))
<1> DEFINE n == Len(es)
           fs == Append(es, Event(k, o, n))
<1>1. /\ n \in Nat /\ DOMAIN es = 1 .. n
      /\ DOMAIN fs = DOMAIN es \cup {n + 1} /\ n + 1 \notin DOMAIN es
      /\ \A i \in DOMAIN es : fs[i] = es[i]
      /\ fs[n + 1] = Event(k, o, n)
  BY AppendedAt
<1>2. fs[n + 1].kind = k /\ fs[n + 1].of = o /\ fs[n + 1].id = n
  BY <1>1 DEF Event
<1>3. Event(k, o, n).kind = k /\ Event(k, o, n).of = o
  BY DEF Event
<1>4. \A i \in DOMAIN fs : fs[i].id = i - 1
  BY <1>1, <1>2 DEF Tidy
<1>5. \A i, j \in Finals(fs) : i = j
  <2>1. Finals(fs) = Finals(es) \cup (IF k = "final" THEN {n + 1} ELSE {})
    BY <1>3, FinalsAppended
  <2> QED BY <2>1 DEF Tidy
<1>6. Unique(fs, "call")
  <2> SUFFICES ASSUME NEW i \in DOMAIN fs, NEW j \in DOMAIN fs,
                      fs[i].kind = "call", fs[j].kind = "call", i # j
               PROVE  fs[i].of # fs[j].of
    BY DEF Unique
  <2>1. CASE i \in DOMAIN es /\ j \in DOMAIN es
    BY <1>1, <2>1 DEF Tidy, Unique
  <2>2. \A x \in DOMAIN es : es[x].kind = "call" => es[x].of \in Of(es, "call")
    BY DEF Of
  <2> QED BY <1>1, <1>2, <2>1, <2>2
<1>7. Of(fs, "result") \subseteq Of(fs, "call")
  <2>1. /\ Of(fs, "result") = Of(es, "result") \cup (IF k = "result" THEN {o} ELSE {})
        /\ Of(fs, "call") = Of(es, "call") \cup (IF k = "call" THEN {o} ELSE {})
    BY <1>3, OfAppended
  <2> QED BY <2>1 DEF Tidy
<1> QED BY <1>4, <1>5, <1>6, <1>7 DEF Tidy

\* Such a list is one round with the answer Stop gives it, if it has a prompt.
LEMMA TidyValid ==
  ASSUME NEW s, s.events \in Seq(Events), Tidy(s.events),
         Of(s.events, "user") # {}
  PROVE  Valid(Finished(s))
<1> DEFINE es == s.events
           ks == Kept(es)
           n  == Len(es)
           fs == WithFinal(ks, n)
<1>1. n \in Nat /\ DOMAIN es = 1 .. n
  OBVIOUS
<1>2. DOMAIN ks = 1 .. n /\ \A i \in 1 .. n : ks[i] = es[i]
  <2>1. \A j \in DOMAIN es : es[j].kind = "result" => es[j].of \in Of(es, "call")
    BY DEF Tidy, Of
  <2> QED BY <1>1, <2>1 DEF Kept
<1>3. /\ \A k : Of(ks, k) = Of(es, k)
      /\ Finals(ks) = Finals(es)
      /\ Unique(ks, "call")
  BY <1>1, <1>2 DEF Of, Finals, Tidy, Unique
<1>4. \A i, j \in DOMAIN ks : i # j => ks[i].id # ks[j].id
  BY <1>1, <1>2 DEF Tidy
<1>5. CASE Finals(ks) # {}
  <2>1. PICK f : Finals(ks) = {f}
    BY <1>3, <1>5 DEF Tidy
  <2>2. Cardinality(Finals(ks)) = 1
    BY <2>1, FS_Singleton
  <2>3. Valid(ks)
    BY <1>3, <1>4, <2>2 DEF Valid, Tidy
  <2> QED BY <1>5, <2>3 DEF Finished
<1>6. CASE Finals(ks) = {}
  <2>1. Cardinality(DOMAIN ks) = n
    <3>1. Cardinality(1 .. n) = n
      <4>1. 1 \in Int /\ n \in Int
        BY <1>1
      <4>2. Cardinality(1 .. n) = IF 1 > n THEN 0 ELSE n - 1 + 1
        BY <4>1, FS_Interval
      <4> QED BY <1>1, <4>2
    <3> QED BY <1>2, <3>1
  <2>2. /\ DOMAIN fs = 1 .. n \cup {n + 1}
        /\ \A i \in 1 .. n : fs[i] = es[i]
        /\ fs[n + 1] = Event("final", None, n)
    <3>1. n + 1 \notin 1 .. n
      BY <1>1
    <3> QED BY <1>2, <2>1, <3>1 DEF WithFinal
  <2>3. fs[n + 1].kind = "final" /\ fs[n + 1].id = n
    BY <2>2 DEF Event
  <2> HIDE DEF fs
  <2>4. \A i, j \in DOMAIN fs : i # j => fs[i].id # fs[j].id
    <3>1. \A i \in DOMAIN fs : fs[i].id = i - 1
      BY <1>1, <2>2, <2>3 DEF Tidy
    <3> QED BY <1>1, <2>2, <3>1
  <2>5. \A k : k # "final" => Of(fs, k) = Of(es, k)
    BY <1>1, <2>2, <2>3 DEF Of
  <2>6. Cardinality(Finals(fs)) = 1
    <3>1. Finals(fs) = {n + 1}
      BY <1>1, <1>3, <1>6, <2>2, <2>3 DEF Finals
    <3> QED BY <3>1, FS_Singleton
  <2>7. Unique(fs, "call")
    BY <1>1, <2>2, <2>3 DEF Tidy, Unique
  <2>8. Valid(fs)
    BY <2>4, <2>5, <2>6, <2>7 DEF Valid, Tidy
  <2> QED BY <1>6, <2>8 DEF Finished, fs
<1> QED BY <1>5, <1>6

\* What a hook records in the list.
LEMMA RecordedEvents ==
  ASSUME TypeOK, NEW l \in {state.lease, None}, NEW h \in Hooks
  PROVE  LET es == state.events
             k  == hook[h].kind
             o  == hook[h].of
             r  == Recorded(Started([state EXCEPT !.lease = l]), k, o)
         IN  /\ k = "prompt" =>
                  r.events = Append(es, Event("user", o, Len(es)))
             /\ k = "pre" =>
                  r.events = Append(es, Event("call", o, Len(es)))
             /\ k = "post" =>
                  r.events = Append(es, Event("result",
                               IF o \in Anonymous THEN None ELSE o, Len(es)))
             /\ k \in {"answer", "stopWithAnswer"} =>
                  r.events = Append(es, Event("final", None, Len(es)))
             /\ k \in {"stop", "sessionEnd"} => r.events = es
<1> DEFINE s == Started([state EXCEPT !.lease = l])
<1>1. s \in StatesAt(minted + 1, issued) /\ s.events = state.events
  BY StartedTyped
<1> HIDE DEF s
<1>2. \A k, o : Appended(s, k, o).events
                  = Append(state.events, Event(k, o, Len(state.events)))
  BY <1>1 DEF Appended, StatesAt
<1> QED BY <1>1, <1>2 DEF Recorded, s

-----------------------------------------------------------------------------
(* The order in which the host invokes the hooks. *)

Turning == {"prompt", "pre", "post", "answer"}

\* Which steps a hook of each kind takes.
KindAt ==
  \A h \in Hooks :
    /\ pc[h] = "idle" <=> hook[h] = NoHook
    /\ pc[h] \in {"append", "lease", "saveLease", "recall", "note"}
         => hook[h].kind \in Turning
    /\ pc[h] \in {"stop", "saveStop", "deliver", "release"}
         => hook[h].kind \in StopKinds
    /\ pc[h] \in {"recall", "note"} => hook[h].kind = "prompt"
    /\ hook[h].kind = "answer" => pc[h] = "append"

\* An invocation is made once.
ServedOnce ==
  \A h \in Hooks : hook[h] # NoHook =>
    /\ hook[h] \in fired
    /\ \A g \in Hooks : hook[g] = hook[h] => g = h

\* A turn begins when those before it are over, and ends after it began.
TurnsInOrder ==
  \A t \in TurnSet :
    /\ Fired("prompt", t) => \A u \in 1 .. t - 1 : Closed(u)
    /\ Closed(t) => Fired("prompt", t)

HostInv == KindAt /\ ServedOnce /\ TurnsInOrder

SomeOpen == \E t \in TurnSet : Open(t)

LEMMA KindsApart ==
  /\ Turning \cap StopKinds = {}
  /\ NoHook.kind \notin Turning \cup StopKinds
BY DEF Turning, StopKinds, NoHook

\* The open turn is the last one.
LEMMA OpenIsLast ==
  ASSUME HostInv, NEW t \in TurnSet, Open(t), NEW u \in TurnSet,
         Fired("prompt", u)
  PROVE  u <= t
<1>1. t \in Nat /\ u \in Nat /\ t >= 1
  BY BridgeConstants DEF TurnSet
<1>2. ASSUME u > t PROVE FALSE
  <2>1. t \in 1 .. u - 1
    BY <1>1, <1>2
  <2> QED BY <2>1 DEF HostInv, TurnsInOrder, Open
<1> QED BY <1>1, <1>2

LEMMA OneOpen ==
  ASSUME HostInv, NEW t \in TurnSet, Open(t), NEW u \in TurnSet, Open(u)
  PROVE  t = u
<1>1. u <= t /\ t <= u
  BY OpenIsLast DEF Open
<1>2. t \in Nat /\ u \in Nat
  BY BridgeConstants DEF TurnSet
<1> QED BY <1>1, <1>2

LEMMA TurnsKept ==
  ASSUME TurnsInOrder, fired' = fired
  PROVE  TurnsInOrder'
BY DEF TurnsInOrder, Fired, Closed

\* A hook goes on, or is over.
LEMMA GotoHosted ==
  ASSUME BridgeType, HostInv, NEW h \in Hooks, NEW step \in Steps,
         Goto(h, step), fired' = fired, pc[h] # "idle",
         step \in {"append", "lease", "saveLease", "recall", "note"}
           => hook[h].kind \in Turning,
         step \in {"stop", "saveStop", "deliver", "release"}
           => hook[h].kind \in StopKinds,
         step \in {"recall", "note"} => hook[h].kind = "prompt",
         hook[h].kind = "answer" => step \in {"append", "idle"}
  PROVE  /\ HostInv'
         /\ pc'[h] = step /\ hook'[h] \in {hook[h], NoHook}
         /\ step # "idle" => hook' = hook
         /\ step = "idle" => hook'[h] = NoHook
         /\ \A g \in Hooks : g # h => pc'[g] = pc[g] /\ hook'[g] = hook[g]
<1>1. /\ pc \in [Hooks -> Steps] /\ hook \in [Hooks -> Invocation \cup {NoHook}]
      /\ KindAt /\ ServedOnce /\ TurnsInOrder
  BY DEF BridgeType, TypeOK, HostInv
<1>2. /\ pc' = [pc EXCEPT ![h] = step]
      /\ hook' = [hook EXCEPT ![h] = IF step = "idle" THEN NoHook ELSE @]
  BY DEF Goto
<1>3. /\ pc'[h] = step /\ hook'[h] = IF step = "idle" THEN NoHook ELSE hook[h]
      /\ \A g \in Hooks : g # h => pc'[g] = pc[g] /\ hook'[g] = hook[g]
  BY <1>1, <1>2
<1>4. step # "idle" => hook' = hook
  BY <1>1, <1>2
<1>5. hook[h] # NoHook
  BY <1>1 DEF KindAt
<1>6. KindAt'
  BY <1>1, <1>3, <1>5 DEF KindAt, NoHook
<1>7. ServedOnce'
  BY <1>1, <1>3 DEF ServedOnce
<1>8. TurnsInOrder'
  BY <1>1, TurnsKept
<1> QED BY <1>3, <1>4, <1>6, <1>7, <1>8 DEF HostInv

LEMMA FireHosted ==
  ASSUME BridgeType, HostInv, NEW h \in Hooks, NEW v \in Invocation,
         Fire(h, v.kind, v.of)
  PROVE  /\ HostInv'
         /\ fired' = fired \cup {v} /\ v \notin fired
         /\ hook[h] = NoHook /\ hook'[h] = v
         /\ pc[h] = "idle" /\ pc'[h] = FirstStep(v.kind)
         /\ \A g \in Hooks : g # h => pc'[g] = pc[g] /\ hook'[g] = hook[g]
         /\ v.kind \in Turning \cup StopKinds
         /\ v.kind \in {"prompt", "answer"} \cup StopKinds => v.of \in TurnSet
<1>1. /\ pc \in [Hooks -> Steps] /\ hook \in [Hooks -> Invocation \cup {NoHook}]
      /\ KindAt /\ ServedOnce /\ TurnsInOrder
  BY DEF BridgeType, TypeOK, HostInv
<1>2. /\ v.kind \in Turning \cup StopKinds
      /\ v.kind \in {"prompt", "answer"} \cup StopKinds => v.of \in TurnSet
      /\ [kind |-> v.kind, of |-> v.of] = v
      /\ v # NoHook
  BY DEF Invocation, Turning, StopKinds, NoHook
<1>3. /\ pc[h] = "idle" /\ v \notin fired /\ MayFire(v.kind, v.of)
      /\ fired' = fired \cup {v}
      /\ hook' = [hook EXCEPT ![h] = v]
      /\ pc' = [pc EXCEPT ![h] = FirstStep(v.kind)]
  BY <1>2 DEF Fire, Fired
<1>4. hook[h] = NoHook
  BY <1>1, <1>3 DEF KindAt
<1>5. /\ pc'[h] = FirstStep(v.kind) /\ hook'[h] = v
      /\ \A g \in Hooks : g # h => pc'[g] = pc[g] /\ hook'[g] = hook[g]
  BY <1>1, <1>3
<1>6. KindAt'
  <2>1. /\ v.kind \in StopKinds => FirstStep(v.kind) = "stop"
        /\ v.kind \in {"pre", "post"} => FirstStep(v.kind) = "lease"
        /\ v.kind \in {"prompt", "answer"} => FirstStep(v.kind) = "append"
    BY DEF FirstStep, StopKinds
  <2> QED BY <1>1, <1>2, <1>5, <2>1 DEF KindAt, Turning, StopKinds
<1>7. ServedOnce'
  BY <1>1, <1>2, <1>3, <1>5 DEF ServedOnce
<1>8. TurnsInOrder'
  <2> SUFFICES ASSUME NEW t \in TurnSet
               PROVE  /\ Fired("prompt", t)' => \A u \in 1 .. t - 1 : Closed(u)'
                      /\ Closed(t)' => Fired("prompt", t)'
    BY DEF TurnsInOrder
  <2>1. \A k, x : Fired(k, x)' <=> Fired(k, x) \/ v = [kind |-> k, of |-> x]
    BY <1>3 DEF Fired
  <2>2. \A u : Closed(u) => Closed(u)'
    BY <2>1 DEF Closed
  <2>3. Fired("prompt", t)' => \A u \in 1 .. t - 1 : Closed(u)'
    <3>1. CASE v = [kind |-> "prompt", of |-> t]
      <4>1. v.kind = "prompt" /\ v.of = t
        BY <3>1
      <4>2. \A u \in 1 .. t - 1 : Closed(u)
        BY <1>3, <4>1 DEF MayFire, StopKinds
      <4> QED BY <2>2, <4>2
    <3> QED BY <1>1, <2>1, <2>2, <3>1 DEF TurnsInOrder
  <2>4. Closed(t)' => Fired("prompt", t)'
    <3>1. ASSUME NEW k \in StopKinds, v = [kind |-> k, of |-> t]
          PROVE  Fired("prompt", t)
      <4>1. v.kind = k /\ v.of = t
        BY <3>1
      <4>2. Open(t) \/ Closed(t)
        BY <1>3, <3>1, <4>1 DEF MayFire, StopKinds
      <4> QED BY <1>1, <4>2 DEF Open, TurnsInOrder
    <3> QED BY <1>1, <2>1, <3>1 DEF Closed, TurnsInOrder
  <2> QED BY <2>3, <2>4
<1> QED BY <1>2, <1>3, <1>4, <1>5, <1>6, <1>7, <1>8 DEF HostInv

LEMMA HostInit == Init => HostInv
BY DEF Init, HostInv, KindAt, ServedOnce, TurnsInOrder, Fired, Closed, NoHook

\* What a hook does next depends on its kind.
LEMMA HookHosted ==
  ASSUME BridgeType, HostInv, NEW h \in Hooks, HookStep(h) \/ Kill(h)
  PROVE  HostInv'
<1>1. /\ KindAt /\ ServedOnce /\ TurnsInOrder
  BY DEF HostInv
<1>2. CASE \E i \in waiting : Deliver(h, i)
  <2>1. UNCHANGED <<pc, hook, fired>>
    BY <1>2 DEF Deliver, hookVars, hostVars
  <2> QED BY <1>1, <2>1, TurnsKept DEF HostInv, KindAt, ServedOnce
<1>3. CASE ~\E i \in waiting : Deliver(h, i)
  <2>1. fired' = fired /\ pc[h] # "idle"
    BY <1>3 DEF HookStep, AppendEvent, SessionLease, KeepLease, AcquireLease,
         SaveLease, LeaseFails, Context, Recall, RecallFails, Note, Stop,
         StopReads, StopEnqueues, StopRefused, StopEmpty, SaveStop,
         EndDelivery, Release, Kill, hostVars
  <2>2. CASE Goto(h, "idle")
    BY <2>1, <2>2, GotoHosted DEF Steps
  <2>3. CASE ~Goto(h, "idle") /\ AppendEvent(h)
    <3>1. pc[h] = "append" /\ Goto(h, "lease") /\ hook[h].kind = "prompt"
      BY <2>3 DEF AppendEvent
    <3> QED BY <2>1, <3>1, GotoHosted DEF Steps, Turning
  <2>4. CASE ~Goto(h, "idle") /\ SessionLease(h)
    <3>1. /\ pc[h] \in {"lease", "saveLease"}
          /\ \/ Goto(h, "saveLease")
             \/ hook[h].kind = "prompt" /\ Goto(h, "recall")
             \/ hook[h].kind = "prompt" /\ Goto(h, "note")
             \/ Goto(h, "append")
      BY <2>4 DEF SessionLease, KeepLease, AcquireLease, SaveLease, LeaseFails,
                  AfterLease
    <3>2. hook[h].kind \in Turning /\ hook[h].kind # "answer"
      BY <1>1, <3>1 DEF KindAt
    <3> QED BY <2>1, <3>1, <3>2, GotoHosted DEF Steps
  <2>5. CASE ~Goto(h, "idle") /\ Context(h)
    <3>1. pc[h] = "recall" /\ Goto(h, "note")
      BY <2>5 DEF Context, Recall, RecallFails, Note
    <3>2. hook[h].kind = "prompt"
      BY <1>1, <3>1 DEF KindAt
    <3> QED BY <2>1, <3>1, <3>2, GotoHosted DEF Steps, Turning
  <2>6. CASE ~Goto(h, "idle") /\ Stop(h)
    <3>1. /\ pc[h] \in {"stop", "saveStop", "deliver"}
          /\ \E step \in {"saveStop", "deliver", "release"} : Goto(h, step)
      BY <1>3, <2>6 DEF Stop, StopReads, StopEnqueues, StopRefused, StopEmpty,
                        SaveStop, EndDelivery, Release
    <3>2. hook[h].kind \in StopKinds /\ hook[h].kind # "answer"
      BY <1>1, <3>1 DEF KindAt, StopKinds
    <3> QED BY <2>1, <3>1, <3>2, GotoHosted DEF Steps
  <2>7. Kill(h) => Goto(h, "idle")
    BY DEF Kill
  <2> QED BY <2>2, <2>3, <2>4, <2>5, <2>6, <2>7 DEF HookStep
<1> QED BY <1>2, <1>3

LEMMA HostStep == BridgeType /\ HostInv /\ [Next]_vars => HostInv'
<1> SUFFICES ASSUME BridgeType, HostInv, [Next]_vars PROVE HostInv'
  OBVIOUS
<1>1. CASE UNCHANGED <<pc, hook, fired>>
  BY <1>1, TurnsKept DEF HostInv, KindAt, ServedOnce
<1>2. CASE \E h \in Hooks, v \in Invocation : Fire(h, v.kind, v.of)
  BY <1>2, FireHosted
<1>3. CASE \E h \in Hooks : HookStep(h) \/ Kill(h)
  BY <1>3, HookHosted
<1>4. CASE \E l \in leases : LeaseExpires(l)
  BY <1>1, <1>4 DEF LeaseExpires, hookVars, hostVars
<1> QED BY <1>1, <1>2, <1>3, <1>4 DEF Next, vars, hookVars, hostVars

-----------------------------------------------------------------------------
(* The turns of a session whose hooks come in time. *)

\* The host gives every call a tool_use_id.
AllNamed == Anonymous = {}

\* A hook that has something to record has an open turn to record it in.
OpenServed ==
  \A h \in Hooks :
    /\ hook[h].kind \in {"prompt", "answer"} => Open(hook[h].of)
    /\ hook[h].kind \in {"pre", "post"} => SomeOpen

\* A turn is over when its Stop is invoked, and nothing is recorded when that
\* Stop has left its section.
HandedOver ==
  /\ Stopping => ~SomeOpen
  /\ ~Stopping /\ ~SomeOpen => state.events = <<>>

\* The prompt recorded is that of the last turn.
UsersCurrent ==
  \A t \in Of(state.events, "user") :
    /\ Fired("prompt", t)
    /\ \A u \in TurnSet : Fired("prompt", u) => u <= t

\* An answer that is recorded is the only one there will be.
AnswersOnce ==
  Finals(state.events) # {} =>
    /\ \A h \in Hooks :
         /\ hook[h].kind # "answer"
         /\ pc[h] = "stop" => hook[h].kind # "stopWithAnswer"
    /\ \A t \in TurnSet : Open(t) => Fired("answer", t)

CallsOnce ==
  \A c \in Of(state.events, "call") :
    /\ Fired("pre", c)
    /\ \A h \in Hooks : hook[h] # [kind |-> "pre", of |-> c]

ResultsCalled ==
  \A h \in Hooks :
    hook[h].kind = "post" => hook[h].of \in Of(state.events, "call")

OneTurnEach == \A i \in DOMAIN spool : \A t, u \in spool[i].turns : t = u

InOrder ==
  /\ OpenServed /\ HandedOver /\ OneTurnEach
  /\ UsersCurrent /\ AnswersOnce /\ CallsOnce /\ ResultsCalled
  /\ Tidy(state.events)

\* The inductive invariant.
TurnInv == BridgeInv /\ HostInv /\ (InTime => InOrder)

\* What is not in time now will not be later.
LEMMA InTimeBefore ==
  ASSUME TypeOK,
         UNCHANGED mishaps \/ \E m \in Mishaps : Count(m),
         InTime'
  PROVE  /\ InTime
         /\ ~Count("kill") /\ ~Count("full") /\ ~Count("overlap")
<1>1. \A m \in {"kill", "full", "overlap"} : m \in Mishaps /\ mishaps[m] \in Nat
  BY DEF TypeOK, Mishaps
<1>2. CASE UNCHANGED mishaps
  <2>1. \A m \in {"kill", "full", "overlap"} : ~Count(m)
    BY <1>1, <1>2, CountKept
  <2> QED BY <1>2, <2>1 DEF InTime
<1>3. ASSUME NEW m \in Mishaps, Count(m)
      PROVE  /\ InTime
             /\ ~Count("kill") /\ ~Count("full") /\ ~Count("overlap")
  <2>1. /\ mishaps'[m] = mishaps[m] + 1
        /\ \A n \in Mishaps : n # m => mishaps'[n] = mishaps[n]
    BY <1>3, CountKept
  <2>2. m \notin {"kill", "full", "overlap"}
    BY <1>1, <2>1 DEF InTime
  <2>3. \A n \in {"kill", "full", "overlap"} : mishaps'[n] = mishaps[n]
    BY <1>1, <2>1, <2>2
  <2>4. \A n \in {"kill", "full", "overlap"} : ~Count(n)
    BY <1>1, <2>3, CountKept
  <2> QED BY <2>3, <2>4 DEF InTime
<1> QED BY <1>2, <1>3

\* A step of a hook that is neither in a section of Stop nor enters one, and
\* records nothing.
LEMMA AsideInOrder ==
  ASSUME InOrder, NEW h \in Hooks,
         state'.events = state.events, spool' = spool, fired' = fired,
         pc[h] \notin {"stop", "saveStop"}, pc'[h] \notin {"stop", "saveStop"},
         hook'[h] \in {hook[h], NoHook},
         \A g \in Hooks : g # h => pc'[g] = pc[g] /\ hook'[g] = hook[g]
  PROVE  InOrder'
<1>1. /\ \A t : Open(t)' <=> Open(t)
      /\ SomeOpen' <=> SomeOpen
      /\ Stopping' <=> Stopping
  BY DEF Open, SomeOpen, Closed, Fired, Stopping
<1>2. OpenServed'
  BY <1>1 DEF InOrder, OpenServed, NoHook
<1>3. HandedOver' /\ OneTurnEach'
  BY <1>1 DEF InOrder, HandedOver, OneTurnEach
<1>4. UsersCurrent'
  BY DEF InOrder, UsersCurrent, Fired
<1>5. AnswersOnce'
  <2>1. \A g \in Hooks : /\ hook'[g].kind \in {hook[g].kind, "none"}
                         /\ pc'[g] = "stop" => pc[g] = "stop"
    BY DEF NoHook
  <2> QED BY <1>1, <2>1 DEF InOrder, AnswersOnce, Fired
<1>6. CallsOnce' /\ ResultsCalled'
  BY DEF InOrder, CallsOnce, ResultsCalled, NoHook, Fired
<1> QED BY <1>2, <1>3, <1>4, <1>5, <1>6 DEF InOrder

\* A Stop leaves its section, and nothing is recorded.
LEMMA ClearInOrder ==
  ASSUME InOrder, NEW h \in Hooks, pc[h] \in {"stop", "saveStop"},
         state'.events = <<>>, spool' = spool, fired' = fired, hook' = hook,
         \A g \in Hooks : g # h => pc'[g] = pc[g],
         pc'[h] \notin {"stop", "saveStop"}
  PROVE  InOrder'
<1>1. ~SomeOpen
  BY DEF InOrder, HandedOver, Stopping
<1>2. /\ \A t : Open(t)' <=> Open(t)
      /\ SomeOpen' <=> SomeOpen
  BY DEF Open, SomeOpen, Closed, Fired
<1>3. OpenServed' /\ HandedOver' /\ OneTurnEach'
  BY <1>1, <1>2 DEF InOrder, OpenServed, HandedOver, OneTurnEach
<1>4. Finals(state'.events) = {} /\ \A k : Of(state'.events, k) = {}
  BY DEF Finals, Of
<1>5. UsersCurrent' /\ AnswersOnce' /\ CallsOnce'
  BY <1>4 DEF UsersCurrent, AnswersOnce, CallsOnce
<1>6. ResultsCalled'
  BY <1>1 DEF InOrder, OpenServed, ResultsCalled
<1> QED BY <1>3, <1>5, <1>6, TidyEmpty DEF InOrder

\* A Stop that reads a prompt can build its round.
LEMMA StopBuilds ==
  ASSUME BridgeInv, HostInv, InOrder, NEW h \in Hooks, StopReads(h)
  PROVE  Valid(Finished(AtStop(h)))
<1> DEFINE es == state.events
<1>1. /\ TypeOK /\ pc[h] = "stop" /\ Tidy(es)
      /\ Of(AtStop(h).events, "user") # {}
  BY DEF BridgeInv, BridgeType, InOrder, StopReads
<1>2. hook[h].kind \in StopKinds /\ es \in Seq(Events)
  BY <1>1 DEF HostInv, KindAt, TypeOK, States
<1>3. /\ hook[h].kind = "stopWithAnswer" =>
           AtStop(h).events = Append(es, Event("final", None, Len(es)))
      /\ hook[h].kind # "stopWithAnswer" => AtStop(h).events = es
  BY <1>1, <1>2, RecordedEvents DEF AtStop, StopKinds
<1>4. hook[h].kind = "stopWithAnswer" => Finals(es) = {}
  BY <1>1 DEF InOrder, AnswersOnce
<1>5. Tidy(AtStop(h).events)
  <2>1. CASE hook[h].kind = "stopWithAnswer"
    <3>1. Tidy(Append(es, Event("final", None, Len(es))))
      BY <1>1, <1>2, <1>4, <2>1, TidyAppend
    <3> QED BY <1>3, <2>1, <3>1
  <2> QED BY <1>1, <1>3, <2>1
<1>6. AtStop(h).events \in Seq(Events)
  BY <1>1, RecordedTyped DEF AtStop, StatesAt
<1> QED BY <1>1, <1>5, <1>6, TidyValid

LEMMA EnqueueInOrder ==
  ASSUME BridgeInv, HostInv, InOrder, NEW h \in Hooks, StopEnqueues(h)
  PROVE  InOrder'
<1> DEFINE e == [round |-> AtStop(h).round,
                 turns |-> Of(Finished(AtStop(h)), "user")]
<1>1. BridgeType /\ TypeOK
  BY DEF BridgeInv, BridgeType
<1>2. /\ UNCHANGED <<state, fired>> /\ spool' = Append(spool, e)
      /\ Goto(h, "saveStop") /\ StopReads(h) /\ pc[h] = "stop"
  BY DEF StopEnqueues, StopReads, hostVars
<1>3. e.turns = Of(state.events, "user")
  BY <1>1, <1>2, StopRead
<1> HIDE DEF e
<1>4. hook[h].kind \in StopKinds /\ hook[h].kind # "answer"
  BY <1>2 DEF HostInv, KindAt, StopKinds
<1>5. /\ pc'[h] = "saveStop" /\ hook' = hook
      /\ \A g \in Hooks : g # h => pc'[g] = pc[g]
  BY <1>1, <1>2, <1>4, GotoHosted DEF Steps
<1>6. \A t, u \in e.turns : t = u
  <2>1. \A t \in e.turns : t \in TurnSet
    BY <1>1, <1>3 DEF BridgeInv, BridgeType, RoundNamed
  <2>2. \A t, u \in e.turns : t <= u /\ u <= t
    BY <1>3, <2>1 DEF InOrder, UsersCurrent
  <2>3. TurnSet \subseteq Nat
    BY BridgeConstants DEF TurnSet
  <2> SUFFICES ASSUME NEW t \in e.turns, NEW u \in e.turns PROVE t = u
    OBVIOUS
  <2>4. t \in Nat /\ u \in Nat /\ t <= u /\ u <= t
    BY <2>1, <2>2, <2>3
  <2> QED BY <2>4
<1>7. OneTurnEach'
  <2>1. /\ DOMAIN spool' = DOMAIN spool \cup {Len(spool) + 1}
        /\ \A i \in DOMAIN spool : spool'[i] = spool[i]
        /\ spool'[Len(spool) + 1] = e
    <3>1. spool \in Seq([round : 1 .. minted, turns : SUBSET TurnSet])
      BY <1>1 DEF TypeOK
    <3> QED BY <1>2, <3>1, AppendedAt
  <2> QED BY <1>6, <2>1 DEF InOrder, OneTurnEach
<1>8. /\ \A t : Open(t)' <=> Open(t)
      /\ SomeOpen' <=> SomeOpen
      /\ Stopping /\ Stopping'
  BY <1>2, <1>5 DEF Open, SomeOpen, Closed, Fired, Stopping
<1>9. OpenServed' /\ HandedOver'
  BY <1>5, <1>8 DEF InOrder, OpenServed, HandedOver
<1>10. UsersCurrent' /\ AnswersOnce' /\ CallsOnce' /\ ResultsCalled'
  BY <1>2, <1>5, <1>8
     DEF InOrder, UsersCurrent, AnswersOnce, CallsOnce, ResultsCalled, Fired
<1> QED BY <1>2, <1>7, <1>9, <1>10 DEF InOrder

\* A hook records its event in the open turn.
LEMMA AppendInOrder ==
  ASSUME AllNamed, BridgeInv, HostInv, InOrder, NEW h \in Hooks, AppendEvent(h)
  PROVE  InOrder'
<1> DEFINE es == state.events
           k  == hook[h].kind
           o  == hook[h].of
<1>1. /\ BridgeType /\ TypeOK /\ es \in Seq(Events)
      /\ state = [state EXCEPT !.lease = state.lease]
      /\ KindAt /\ ServedOnce /\ k \in Turning
      /\ hook[h] \in Invocation \cup {NoHook}
  BY DEF BridgeInv, BridgeType, TypeOK, States, HostInv, KindAt, AppendEvent
<1>2. /\ state' = Recorded(Started(state), k, o)
      /\ spool' = spool /\ fired' = fired /\ pc[h] = "append"
      /\ IF k = "prompt" THEN Goto(h, "lease") ELSE Goto(h, "idle")
  BY DEF AppendEvent, spoolVars
<1>3. /\ pc'[h] \in {"lease", "idle"}
      /\ hook'[h] \in {hook[h], NoHook}
      /\ k # "prompt" => hook'[h] = NoHook
      /\ \A g \in Hooks : g # h => pc'[g] = pc[g] /\ hook'[g] = hook[g]
  <2>1. CASE k = "prompt"
    BY <1>1, <1>2, <2>1, GotoHosted DEF Steps
  <2>2. CASE k # "prompt"
    BY <1>1, <1>2, <2>2, GotoHosted DEF Steps
  <2> QED BY <2>1, <2>2
<1>4. PICK kind, x :
        /\ kind \in {"user", "call", "result", "final"}
        /\ state'.events = Append(es, Event(kind, x, Len(es)))
        /\ kind = "user"   => k = "prompt" /\ x = o
        /\ kind = "call"   => k = "pre" /\ x = o
        /\ kind = "result" => k = "post" /\ x = o
        /\ kind = "final"  => k = "answer"
        /\ k = "answer" => kind = "final"
        /\ k = "pre" => kind = "call"
  <2>1. Recorded(Started([state EXCEPT !.lease = state.lease]), k, o)
          = Recorded(Started(state), k, o)
    BY <1>1
  <2>2. o \notin Anonymous
    BY DEF AllNamed
  <2>3. CASE k = "prompt"
    BY <1>1, <1>2, <2>1, <2>3, RecordedEvents
  <2>4. CASE k = "pre"
    BY <1>1, <1>2, <2>1, <2>4, RecordedEvents
  <2>5. CASE k = "post"
    BY <1>1, <1>2, <2>1, <2>2, <2>5, RecordedEvents
  <2>6. CASE k = "answer"
    BY <1>1, <1>2, <2>1, <2>6, RecordedEvents
  <2> QED BY <1>1, <2>3, <2>4, <2>5, <2>6 DEF Turning
<1>5. /\ Event(kind, x, Len(es)).kind = kind
      /\ Event(kind, x, Len(es)).of = x
  BY DEF Event
<1>6. /\ \A c : Of(state'.events, c)
                  = Of(es, c) \cup (IF kind = c THEN {x} ELSE {})
      /\ Finals(state'.events)
           = Finals(es) \cup (IF kind = "final" THEN {Len(es) + 1} ELSE {})
  BY <1>1, <1>4, <1>5, OfAppended, FinalsAppended
<1>7. /\ hook[h] \in fired /\ hook[h] # NoHook
      /\ \A g \in Hooks : hook[g] = hook[h] => g = h
      /\ hook[h] = [kind |-> k, of |-> o]
  <2>1. hook[h] # NoHook
    BY <1>1, KindsApart
  <2>2. hook[h] \in Invocation
    BY <1>1, <2>1
  <2>3. hook[h] = [kind |-> k, of |-> o]
    BY <2>2 DEF Invocation
  <2> QED BY <1>1, <2>1, <2>3 DEF ServedOnce
<1>8. SomeOpen /\ ~Stopping
  <2>1. k \in {"prompt", "answer"} => o \in TurnSet
    BY <1>1, <1>7 DEF Invocation, StopKinds
  <2>2. SomeOpen
    BY <1>1, <2>1 DEF InOrder, OpenServed, SomeOpen, Turning
  <2> QED BY <2>2 DEF InOrder, HandedOver
<1>9. /\ \A t : Open(t)' <=> Open(t)
      /\ SomeOpen' <=> SomeOpen
      /\ ~Stopping'
  BY <1>2, <1>3, <1>8 DEF Open, SomeOpen, Closed, Fired, Stopping
<1>10. OpenServed' /\ HandedOver' /\ OneTurnEach'
  BY <1>2, <1>3, <1>8, <1>9
     DEF InOrder, OpenServed, HandedOver, OneTurnEach, NoHook
<1>11. k \in {"prompt", "answer"} => o \in TurnSet /\ Open(o)
  BY <1>1, <1>7 DEF InOrder, OpenServed, Invocation, StopKinds
<1>12. UsersCurrent'
  <2> SUFFICES ASSUME NEW t \in Of(state'.events, "user")
               PROVE  /\ Fired("prompt", t)'
                      /\ \A u \in TurnSet : Fired("prompt", u)' => u <= t
    BY DEF UsersCurrent
  <2>1. CASE t \in Of(es, "user")
    BY <1>2, <2>1 DEF InOrder, UsersCurrent, Fired
  <2>2. CASE kind = "user" /\ t = x
    <3>1. t \in TurnSet /\ Open(t)
      BY <1>4, <1>11, <2>2
    <3>2. Fired("prompt", t) /\ \A u \in TurnSet : Fired("prompt", u) => u <= t
      BY <3>1, OpenIsLast DEF Open
    <3> QED BY <1>2, <3>2 DEF Fired
  <2> QED BY <1>6, <2>1, <2>2
<1>13. AnswersOnce'
  <2>1. CASE kind = "final"
    <3>1. o \in TurnSet /\ Open(o) /\ Fired("answer", o)
      BY <1>4, <1>7, <1>11, <2>1 DEF Fired
    <3>2. \A t \in TurnSet : Open(t) => t = o
      BY <3>1, OneOpen
    <3>3. ASSUME NEW g \in Hooks, g # h, hook[g].kind = "answer"
          PROVE  FALSE
      <4>1. hook[g] \in Invocation
        BY <1>1, <3>3 DEF TypeOK, NoHook
      <4>2. hook[g].of \in TurnSet /\ Open(hook[g].of)
             /\ hook[g] = [kind |-> "answer", of |-> hook[g].of]
        BY <3>3, <4>1 DEF InOrder, OpenServed, Invocation, StopKinds
      <4>3. hook[g] = hook[h]
        BY <1>4, <1>7, <2>1, <3>2, <4>2
      <4> QED BY <1>7, <3>3, <4>3
    <3>4. \A g \in Hooks : hook'[g].kind # "answer"
      BY <1>3, <1>4, <2>1, <3>3 DEF NoHook
    <3>5. \A g \in Hooks : pc'[g] # "stop"
      BY <1>9 DEF Stopping
    <3> QED BY <1>2, <1>9, <3>1, <3>2, <3>4, <3>5 DEF AnswersOnce, Fired
  <2>2. CASE kind # "final"
    <3>1. Finals(state'.events) = Finals(es)
      BY <1>6, <2>2
    <3>2. \A g \in Hooks : hook'[g].kind = "answer" => hook[g].kind = "answer"
      BY <1>3 DEF NoHook
    <3>3. \A g \in Hooks : pc'[g] # "stop"
      BY <1>9 DEF Stopping
    <3> QED BY <1>2, <1>9, <3>1, <3>2, <3>3 DEF InOrder, AnswersOnce, Fired
  <2> QED BY <2>1, <2>2
<1>14. CallsOnce'
  <2> SUFFICES ASSUME NEW c \in Of(state'.events, "call")
               PROVE  /\ Fired("pre", c)'
                      /\ \A g \in Hooks : hook'[g] # [kind |-> "pre", of |-> c]
    BY DEF CallsOnce
  <2>1. CASE c \in Of(es, "call")
    BY <1>2, <1>3, <2>1 DEF InOrder, CallsOnce, Fired, NoHook
  <2>2. CASE kind = "call" /\ c = x
    <3>1. hook[h] = [kind |-> "pre", of |-> c] /\ hook'[h] = NoHook
      BY <1>3, <1>4, <1>7, <2>2
    <3> QED BY <1>2, <1>3, <1>7, <3>1 DEF Fired, NoHook
  <2> QED BY <1>6, <2>1, <2>2
<1>15. ResultsCalled'
  BY <1>3, <1>6 DEF InOrder, ResultsCalled, NoHook
<1>16. Tidy(state'.events)
  <2>1. kind = "final" => Finals(es) = {}
    BY <1>4 DEF InOrder, AnswersOnce
  <2>2. kind = "call" => x \notin Of(es, "call")
    BY <1>4, <1>7 DEF InOrder, CallsOnce
  <2>3. kind = "result" => x \in Of(es, "call")
    BY <1>4 DEF InOrder, ResultsCalled
  <2>4. Tidy(es)
    BY DEF InOrder
  <2>5. Tidy(Append(es, Event(kind, x, Len(es))))
    BY <1>1, <2>1, <2>2, <2>3, <2>4, TidyAppend
  <2> QED BY <1>4, <2>5
<1> QED BY <1>10, <1>12, <1>13, <1>14, <1>15, <1>16 DEF InOrder

\* The host invokes a hook that overtakes none.
LEMMA FireInOrder ==
  ASSUME BridgeInv, HostInv, InOrder, NEW h \in Hooks, NEW v \in Invocation,
         Fire(h, v.kind, v.of), ~Overtakes(v.kind, v.of)
  PROVE  InOrder'
<1> DEFINE k == v.kind
           o == v.of
<1>1. /\ HostInv'
      /\ fired' = fired \cup {v} /\ v \notin fired
      /\ hook[h] = NoHook /\ hook'[h] = v
      /\ pc[h] = "idle" /\ pc'[h] = FirstStep(k)
      /\ \A g \in Hooks : g # h => pc'[g] = pc[g] /\ hook'[g] = hook[g]
      /\ k \in Turning \cup StopKinds
      /\ k \in {"prompt", "answer"} \cup StopKinds => o \in TurnSet
  BY FireHosted DEF BridgeInv
<1>2. /\ UNCHANGED <<state, spool>> /\ MayFire(k, o) /\ ~Fired(k, o)
      /\ v = [kind |-> k, of |-> o]
  BY DEF Fire, spoolVars, Invocation
<1>3. \A c, x : Fired(c, x)' <=> Fired(c, x) \/ (c = k /\ x = o)
  BY <1>1, <1>2 DEF Fired
<1>4. OneTurnEach' /\ Tidy(state'.events)
  BY <1>2 DEF InOrder, OneTurnEach
<1>5. CASE k \in StopKinds
  <2>1. pc'[h] = "stop" /\ Stopping'
    BY <1>1, <1>5 DEF FirstStep, Stopping, StopKinds
  <2>2. \A t : Open(t)' => Open(t) /\ t # o
    BY <1>3, <1>5 DEF Open, Closed, StopKinds
  <2>3. ~SomeOpen'
    <3> SUFFICES ASSUME NEW t \in TurnSet, Open(t)' PROVE FALSE
      BY DEF SomeOpen
    <3>1. Open(t) /\ t # o
      BY <2>2
    <3>2. Open(o)
      BY <1>2, <1>5, <3>1 DEF MayFire, StopKinds
    <3> QED BY <1>1, <1>5, <3>1, <3>2, OneOpen
  <2>4. \A g \in Hooks : hook[g].kind \notin {"prompt", "pre", "post", "answer"}
    BY <1>2, <1>5 DEF MayFire, Overtakes, Busy, StopKinds
  <2>5. \A g \in Hooks : hook'[g].kind \notin {"prompt", "pre", "post", "answer"}
    BY <1>1, <1>5, <2>4 DEF StopKinds
  <2>6. OpenServed' /\ HandedOver' /\ ResultsCalled'
    BY <2>1, <2>3, <2>5 DEF OpenServed, HandedOver, ResultsCalled
  <2>7. UsersCurrent'
    BY <1>2, <1>3, <1>5 DEF InOrder, UsersCurrent, StopKinds
  <2>8. AnswersOnce'
    <3>1. k = "stopWithAnswer" => Finals(state.events) = {}
      BY <1>1, <1>2 DEF MayFire, StopKinds, InOrder, AnswersOnce
    <3>2. \A t \in TurnSet : ~Open(t)'
      BY <2>3 DEF SomeOpen
    <3>3. ASSUME Finals(state'.events) # {}, NEW g \in Hooks
          PROVE  pc'[g] = "stop" => hook'[g].kind # "stopWithAnswer"
      BY <1>1, <1>2, <3>1, <3>3 DEF InOrder, AnswersOnce
    <3> QED BY <2>5, <3>2, <3>3 DEF AnswersOnce
  <2>9. CallsOnce'
    BY <1>1, <1>2, <1>3, <1>5, <2>5 DEF InOrder, CallsOnce, StopKinds
  <2> QED BY <1>4, <2>6, <2>7, <2>8, <2>9 DEF InOrder
<1>6. CASE k \in Turning
  <2>1. /\ pc'[h] \notin {"stop", "saveStop"}
        /\ Stopping' <=> Stopping
    <3>1. pc'[h] \in {"append", "lease"}
      BY <1>1, <1>6 DEF FirstStep, Turning, StopKinds
    <3> QED BY <1>1, <3>1 DEF Stopping
  <2>2. \A t : Closed(t)' <=> Closed(t)
    BY <1>3, <1>6 DEF Closed, Turning, StopKinds
  <2>3. CASE k = "prompt"
    <3>1. ~Stopping /\ ~Fired("prompt", o) /\ \A t \in 1 .. o - 1 : Closed(t)
      BY <1>2, <2>3 DEF MayFire, Overtakes, StopKinds
    <3>2. ~SomeOpen
      <4> SUFFICES ASSUME NEW t \in TurnSet, Open(t) PROVE FALSE
        BY DEF SomeOpen
      <4>1. o \in TurnSet /\ t # o /\ ~Closed(o)
        BY <1>1, <2>3, <3>1 DEF Open, HostInv, TurnsInOrder
      <4>2. o \notin 1 .. t - 1
        BY <4>1 DEF HostInv, TurnsInOrder, Open
      <4>3. t \notin 1 .. o - 1
        BY <3>1 DEF Open
      <4>4. o \in Nat \ {0} /\ t \in Nat \ {0}
        BY <4>1, BridgeConstants DEF TurnSet
      <4> QED BY <4>1, <4>2, <4>3, <4>4
    <3>3. state.events = <<>>
      BY <3>1, <3>2 DEF InOrder, HandedOver
    <3>4. \A g \in Hooks : hook[g].kind \notin {"prompt", "pre", "post", "answer"}
      <4> SUFFICES ASSUME NEW g \in Hooks,
                          hook[g].kind \in {"prompt", "pre", "post", "answer"}
                   PROVE  FALSE
        OBVIOUS
      <4>1. hook[g] \in Invocation
        BY DEF BridgeInv, BridgeType, TypeOK, NoHook
      <4>2. hook[g].kind \in {"prompt", "answer"} => hook[g].of \in TurnSet
        BY <4>1 DEF Invocation, StopKinds
      <4> QED BY <3>2, <4>2 DEF InOrder, OpenServed, SomeOpen
    <3>5. o \in TurnSet /\ Open(o)' /\ SomeOpen'
      <4>1. o \in TurnSet /\ Fired("prompt", o)'
        BY <1>1, <1>3, <2>3
      <4>2. ~Closed(o)'
        BY <2>2, <3>1, <4>1 DEF HostInv, TurnsInOrder
      <4> QED BY <4>1, <4>2 DEF Open, SomeOpen
    <3>6. OpenServed'
      BY <1>1, <2>3, <3>4, <3>5 DEF OpenServed
    <3>7. HandedOver'
      BY <2>1, <3>1, <3>5 DEF HandedOver
    <3>8. Finals(state'.events) = {} /\ \A c : Of(state'.events, c) = {}
      BY <1>2, <3>3 DEF Finals, Of
    <3>9. UsersCurrent' /\ AnswersOnce' /\ CallsOnce'
      BY <3>8 DEF UsersCurrent, AnswersOnce, CallsOnce
    <3>10. ResultsCalled'
      BY <1>1, <2>3, <3>4 DEF ResultsCalled
    <3> QED BY <1>4, <3>6, <3>7, <3>9, <3>10 DEF InOrder
  <2>4. CASE k # "prompt"
    <3>1. \A t : Open(t)' <=> Open(t)
      BY <1>3, <2>2, <2>4 DEF Open
    <3>2. SomeOpen' <=> SomeOpen
      BY <3>1 DEF SomeOpen
    <3>3. /\ k = "answer" => Open(o)
          /\ k \in {"pre", "post"} => SomeOpen
      BY <1>2, <2>4 DEF MayFire, StopKinds, SomeOpen
    <3>4. OpenServed'
      BY <1>1, <1>6, <2>4, <3>1, <3>2, <3>3 DEF InOrder, OpenServed, Turning
    <3>5. HandedOver'
      BY <1>2, <2>1, <3>2 DEF InOrder, HandedOver
    <3>6. UsersCurrent'
      BY <1>2, <1>3, <2>4 DEF InOrder, UsersCurrent
    <3>7. AnswersOnce'
      <4>1. k = "answer" => Finals(state.events) = {}
        BY <1>1, <1>2, <3>3 DEF InOrder, AnswersOnce
      <4>2. ASSUME Finals(state'.events) # {}, NEW g \in Hooks
            PROVE  /\ hook'[g].kind # "answer"
                   /\ pc'[g] = "stop" => hook'[g].kind # "stopWithAnswer"
        BY <1>1, <1>2, <2>1, <4>1, <4>2 DEF InOrder, AnswersOnce
      <4>3. ASSUME Finals(state'.events) # {}, NEW t \in TurnSet, Open(t)'
            PROVE  Fired("answer", t)'
        BY <1>2, <1>3, <3>1, <4>3 DEF InOrder, AnswersOnce
      <4> QED BY <4>2, <4>3 DEF AnswersOnce
    <3>8. CallsOnce'
      BY <1>1, <1>2, <1>3 DEF InOrder, CallsOnce
    <3>9. ResultsCalled'
      <4>1. k = "post" => o \in Of(state.events, "call")
        BY DEF Overtakes
      <4> QED BY <1>1, <1>2, <4>1 DEF InOrder, ResultsCalled
    <3> QED BY <1>4, <3>4, <3>5, <3>6, <3>7, <3>8, <3>9 DEF InOrder
  <2> QED BY <2>3, <2>4
<1> QED BY <1>1, <1>5, <1>6

LEMMA HookInOrder ==
  ASSUME AllNamed, BridgeInv, HostInv, InOrder, InTime', NEW h \in Hooks,
         HookStep(h)
  PROVE  InOrder'
<1>1. BridgeType /\ TypeOK /\ KindAt /\ Section
  BY DEF BridgeInv, BridgeType, HostInv
<1>2. CASE AppendEvent(h)
  BY <1>2, AppendInOrder
<1>3. CASE StopEnqueues(h)
  BY <1>3, EnqueueInOrder
<1>4. CASE StopRefused(h)
  <2>1. Valid(Finished(AtStop(h)))
    BY <1>4, StopBuilds DEF StopRefused
  <2>2. Count("full")
    BY <1>4, <2>1 DEF StopRefused
  <2> QED BY <1>1, <2>2, InTimeBefore DEF Mishaps
<1>5. CASE StopEmpty(h) \/ SaveStop(h)
  <2>1. /\ pc[h] \in {"stop", "saveStop"} /\ spool' = spool /\ fired' = fired
        /\ Goto(h, "release") \/ Goto(h, "deliver")
        /\ state' = NoState \/ state'.events = <<>>
    BY <1>1, <1>5 DEF StopEmpty, SaveStop, spoolVars, hostVars, Section, StopHolder
  <2>2. state'.events = <<>>
    BY <2>1 DEF NoState
  <2>3. hook[h].kind \in StopKinds /\ hook[h].kind # "answer"
    BY <1>1, <2>1 DEF KindAt, StopKinds
  <2>4. PICK step \in {"release", "deliver"} : Goto(h, step)
    BY <2>1
  <2>5. /\ pc'[h] = step /\ hook' = hook
        /\ \A g \in Hooks : g # h => pc'[g] = pc[g]
    BY <1>1, <2>1, <2>3, <2>4, GotoHosted DEF Steps
  <2> QED BY <2>1, <2>2, <2>4, <2>5, ClearInOrder
<1>6. CASE SessionLease(h) \/ Context(h) \/ EndDelivery(h) \/ Release(h)
  <2>1. spool' = spool /\ fired' = fired
    BY <1>6 DEF SessionLease, KeepLease, AcquireLease, SaveLease, LeaseFails,
         Context, Recall, RecallFails, Note, EndDelivery, Release, spoolVars,
         hostVars
  <2>2. state'.events = state.events
    BY <1>1, <1>6
       DEF SessionLease, KeepLease, AcquireLease, SaveLease, LeaseFails, Context,
           Recall, RecallFails, Note, EndDelivery, Release, Section, LeaseHolder
  <2>3. /\ pc[h] \notin {"stop", "saveStop"}
        /\ \E step \in Steps \ {"stop", "saveStop"} : Goto(h, step)
    BY <1>6 DEF SessionLease, KeepLease, AcquireLease, SaveLease, LeaseFails,
         AfterLease, Context, Recall, RecallFails, Note, EndDelivery, Release,
         Steps
  <2>4. PICK step \in Steps \ {"stop", "saveStop"} : Goto(h, step)
    BY <2>3
  <2>5. /\ pc'[h] = step /\ \A g \in Hooks : g # h => pc'[g] = pc[g]
    BY <1>1, <2>4, GotoOthers
  <2>6. /\ hook'[h] \in {hook[h], NoHook}
        /\ \A g \in Hooks : g # h => hook'[g] = hook[g]
    BY <1>1, <2>4 DEF Goto, TypeOK
  <2> QED BY <2>1, <2>2, <2>3, <2>4, <2>5, <2>6, AsideInOrder
<1>7. CASE \E i \in waiting : Deliver(h, i)
  <2>1. UNCHANGED <<state, spool, fired, pc, hook>>
    BY <1>7 DEF Deliver, hookVars, hostVars
  <2> QED BY <2>1 DEF InOrder, OpenServed, HandedOver, OneTurnEach, UsersCurrent,
         AnswersOnce, CallsOnce, ResultsCalled, SomeOpen, Open, Closed, Fired,
         Stopping
<1> QED BY <1>2, <1>3, <1>4, <1>5, <1>6, <1>7 DEF HookStep, Stop

LEMMA TurnInit == Init => TurnInv
<1> SUFFICES ASSUME Init PROVE TurnInv
  OBVIOUS
<1>1. state.events = <<>> /\ spool = <<>> /\ fired = {}
  BY DEF Init, NoState
<1>2. /\ Finals(state.events) = {} /\ \A k : Of(state.events, k) = {}
      /\ \A t : ~Open(t)
      /\ \A h \in Hooks : hook[h].kind = "none" /\ pc[h] = "idle"
  BY <1>1 DEF Init, Finals, Of, Open, Fired, NoHook
<1>3. InOrder
  BY <1>1, <1>2, TidyEmpty
     DEF InOrder, OpenServed, HandedOver, Stopping, OneTurnEach, UsersCurrent,
         AnswersOnce, CallsOnce, ResultsCalled
<1> QED BY <1>3, BridgeInit, HostInit DEF TurnInv

LEMMA TurnStep ==
  ASSUME AllNamed, TurnInv, [Next]_vars
  PROVE  TurnInv'
<1>1. BridgeInv /\ BridgeType /\ TypeOK /\ HostInv /\ (InTime => InOrder)
  BY DEF TurnInv, BridgeInv, BridgeType
<1>2. BridgeInv' /\ HostInv'
  BY <1>1, BridgeStep, HostStep
<1>3. ASSUME InTime' PROVE InOrder'
  <2>1. UNCHANGED mishaps \/ \E m \in Mishaps : Count(m)
    BY DEF Next, Fire, HookStep, AppendEvent, SessionLease, KeepLease,
           AcquireLease, SaveLease, LeaseFails, Context, Recall, RecallFails,
           Note, Stop, StopEnqueues, StopRefused, StopEmpty, SaveStop, Deliver,
           EndDelivery, Release, Kill, LeaseExpires, LoseRequest, Mishaps, vars
  <2>2. InOrder /\ ~Count("kill") /\ ~Count("overlap")
    BY <1>1, <1>3, <2>1, InTimeBefore
  <2>3. CASE UNCHANGED <<state, spool, fired, pc, hook>>
    BY <2>2, <2>3 DEF InOrder, OpenServed, HandedOver, OneTurnEach,
         UsersCurrent, AnswersOnce, CallsOnce, ResultsCalled, SomeOpen, Open,
         Closed, Fired, Stopping
  <2>4. ASSUME NEW h \in Hooks, NEW v \in Invocation, Fire(h, v.kind, v.of)
        PROVE  InOrder'
    BY <1>1, <2>2, <2>4, FireInOrder DEF Fire
  <2>5. ASSUME NEW h \in Hooks, HookStep(h) PROVE InOrder'
    BY <1>1, <1>3, <2>2, <2>5, HookInOrder
  <2>6. \A h \in Hooks : ~Kill(h)
    BY <2>2 DEF Kill
  <2>7. UNCHANGED vars \/ (\E l \in leases : LeaseExpires(l))
          => UNCHANGED <<state, spool, fired, pc, hook>>
    BY DEF LeaseExpires, vars, hookVars, spoolVars, hostVars
  <2> QED BY <2>3, <2>4, <2>5, <2>6, <2>7 DEF Next
<1> QED BY <1>2, <1>3 DEF TurnInv

\* In a session in which no hook was killed or overtaken and the spool was never
\* full, turns do not share a round.  Calls without ids are excluded: two of them
\* can make Stop build a round that validation refuses.
THEOREM TurnsOfSessionApart == AllNamed => (Spec => []TurnsApart)
<1> SUFFICES ASSUME AllNamed PROVE Spec => []TurnsApart
  OBVIOUS
<1>1. TurnInv /\ [Next]_vars => TurnInv'
  BY TurnStep
<1>2. TurnInv => TurnsApart
  <2> SUFFICES ASSUME TurnInv, InTime, NEW i \in DOMAIN spool
               PROVE  Cardinality(spool[i].turns) <= 1
    BY DEF TurnsApart
  <2>1. \A t, u \in spool[i].turns : t = u
    BY DEF TurnInv, InOrder, OneTurnEach
  <2>2. spool[i].turns = {} \/ \E t : spool[i].turns = {t}
    BY <2>1
  <2>3. Cardinality(spool[i].turns) \in {0, 1}
    <3>1. CASE spool[i].turns = {}
      BY <3>1, FS_EmptySet
    <3>2. ASSUME NEW t, spool[i].turns = {t}
          PROVE  Cardinality(spool[i].turns) = 1
      BY <3>2, FS_Singleton
    <3> QED BY <2>2, <3>1, <3>2
  <2> QED BY <2>3
<1> QED BY <1>1, <1>2, TurnInit, PTL DEF Spec

\* In such a session a Stop that came now would not be refused for the sake of
\* what is recorded: the bridge itself never makes a session stop handing over.
THEOREM TurnsCompletable == AllNamed => (Spec => []CompletableInTime)
<1> SUFFICES ASSUME AllNamed PROVE Spec => []CompletableInTime
  OBVIOUS
<1>1. TurnInv /\ [Next]_vars => TurnInv'
  BY TurnStep
<1>2. TurnInv => CompletableInTime
  <2> SUFFICES ASSUME TurnInv, InTime, Of(state.events, "user") # {}
               PROVE  Valid(Finished(state))
    BY DEF CompletableInTime, Completable
  <2>1. state.events \in Seq(Events)
    BY DEF TurnInv, BridgeInv, BridgeType, TypeOK, States
  <2> QED BY <2>1, TidyValid DEF TurnInv, InOrder
<1> QED BY <1>1, <1>2, TurnInit, PTL DEF Spec

==============================================================================
