-------------------------- MODULE HermesRoundsProofs --------------------------
(***************************************************************************)
(* Theorems about HermesRounds for any number of threads and turns, named  *)
(* or not, and hooks that overlap in any way.                              *)
(***************************************************************************)
EXTENDS HermesRounds, SequenceTheorems, TLAPS

\* The spool has the round, or refused it.
Written(n) == Captures(n) # {} \/ n \in refused

RoundsShaped ==
  /\ \E S : rounds \in Seq(S)
  /\ \A n \in DOMAIN rounds : {"turn", "events", "refs", "completed"} \subseteq DOMAIN rounds[n]

\* The session has the one round that is not closed, or none.
CurrentOpen ==
  /\ active \in 0 .. Len(rounds)
  /\ \A n \in DOMAIN rounds : rounds[n].completed <=> active # n

Locals == {"at", "kind", "turn", "round", "gen", "name", "copy", "refs"}

\* Where a hook has a round, and where it has handed it in.
Knowing == {"prompt", "context", "append", "write", "snapshot", "capture", "complete"}

HookKnows(t) ==
  /\ Locals \subseteq DOMAIN hook[t]
  /\ hook[t].at \in Knowing => hook[t].round \in DOMAIN rounds
  /\ hook[t].at = "complete" => Written(hook[t].round)

HooksKnow == DOMAIN hook = Threads /\ \A t \in Threads : HookKnows(t)

IInv == RoundsShaped /\ CurrentOpen /\ ClosedIsCaptured /\ HooksKnow

LEMMA InitInv == Init => IInv
  <1> SUFFICES ASSUME Init PROVE IInv
    OBVIOUS
  <1>1. RoundsShaped /\ CurrentOpen /\ ClosedIsCaptured
    <2>1. rounds \in Seq({}) /\ Len(rounds) = 0 /\ DOMAIN rounds = {}
      BY EmptySeq DEF Init
    <2> QED BY <2>1 DEF Init, RoundsShaped, CurrentOpen, ClosedIsCaptured
  <1>2. HooksKnow
    BY DEF Init, HooksKnow, HookKnows, Idle, Knowing, Locals
  <1> QED BY <1>1, <1>2 DEF IInv

-----------------------------------------------------------------------------
(* Sequences of rounds. *)

LEMMA Indices == IInv => Len(rounds) \in Nat /\ DOMAIN rounds = 1 .. Len(rounds)
  BY LenProperties DEF IInv, RoundsShaped

\* One round is replaced.
LEMMA OneReplaced ==
  ASSUME NEW s, NEW S, s \in Seq(S), NEW n \in DOMAIN s, NEW c,
         DOMAIN c = DOMAIN s, c = [i \in DOMAIN c |-> c[i]],
         \A m \in DOMAIN s : m # n => c[m] = s[m]
  PROVE  Len(c) = Len(s) /\ \E T : c \in Seq(T)
  <1>1. DOMAIN s = 1 .. Len(s) /\ s = [i \in DOMAIN s |-> s[i]]
    OBVIOUS
  <1>2. c = [s EXCEPT ![n] = c[n]]
    BY <1>1
  <1>3. PICK v : v = c[n]
    OBVIOUS
  <1>4. s \in Seq(S \cup {v})
    BY SeqMonotonic
  <1>5. /\ [s EXCEPT ![n] = v] \in Seq(S \cup {v})
        /\ Len([s EXCEPT ![n] = v]) = Len(s)
    BY <1>1, <1>4, ExceptSeq
  <1> QED BY <1>2, <1>3, <1>5

\* A round is closed: the others are as they were.
LEMMA Closes ==
  ASSUME IInv, NEW n \in DOMAIN rounds, NEW c,
         c = [rounds EXCEPT ![n].completed = TRUE, ![n].refs = 0]
  PROVE  /\ Len(c) = Len(rounds) /\ \E T : c \in Seq(T)
         /\ DOMAIN c = DOMAIN rounds
         /\ c[n].completed /\ DOMAIN c[n] = DOMAIN rounds[n]
         /\ \A m \in DOMAIN rounds : m # n => c[m] = rounds[m]
  <1>1. {"completed", "refs"} \subseteq DOMAIN rounds[n]
    BY DEF IInv, RoundsShaped
  <1>2. /\ DOMAIN c = DOMAIN rounds
        /\ c[n].completed /\ DOMAIN c[n] = DOMAIN rounds[n]
        /\ \A m \in DOMAIN rounds : m # n => c[m] = rounds[m]
    BY <1>1
  <1>3. c = [i \in DOMAIN c |-> c[i]]
    OBVIOUS
  <1>4. PICK S : rounds \in Seq(S)
    BY DEF IInv, RoundsShaped
  <1>5. ASSUME NEW d, DOMAIN d = DOMAIN rounds, d = [i \in DOMAIN d |-> d[i]],
               \A m \in DOMAIN rounds : m # n => d[m] = rounds[m]
        PROVE  Len(d) = Len(rounds) /\ \E T : d \in Seq(T)
    BY <1>4, <1>5, OneReplaced
  <1>6. Len(c) = Len(rounds) /\ \E T : c \in Seq(T)
    BY <1>2, <1>3, <1>5
  <1> QED BY <1>2, <1>6

-----------------------------------------------------------------------------
(* What the steps do to the rounds. *)

LEMMA Kept ==
  ASSUME IInv, spool \subseteq spool', refused \subseteq refused'
  PROVE  \A n : Written(n) => Written(n)'
  BY DEF Written, Captures

\* Events or references of a round change.
LEMMA Filled ==
  ASSUME IInv, NEW n \in DOMAIN rounds, UNCHANGED <<active, spool, refused>>,
         DOMAIN rounds' = DOMAIN rounds, rounds' = [i \in DOMAIN rounds' |-> rounds'[i]],
         DOMAIN rounds'[n] = DOMAIN rounds[n],
         rounds'[n].completed = rounds[n].completed,
         \A m \in DOMAIN rounds : m # n => rounds'[m] = rounds[m]
  PROVE  /\ RoundsShaped' /\ CurrentOpen' /\ ClosedIsCaptured'
         /\ Len(rounds') = Len(rounds)
  <1>1. PICK S : rounds \in Seq(S)
    BY DEF IInv, RoundsShaped
  <1>2. Len(rounds') = Len(rounds) /\ \E T : rounds' \in Seq(T)
    BY <1>1, OneReplaced
  <1>3. RoundsShaped'
    BY <1>2 DEF IInv, RoundsShaped
  <1>4. CurrentOpen'
    BY <1>2 DEF IInv, CurrentOpen
  <1>5. ClosedIsCaptured'
    BY DEF IInv, ClosedIsCaptured, Captures
  <1> QED BY <1>2, <1>3, <1>4, <1>5

\* A round that was handed in is closed.
LEMMA ClosedOne ==
  ASSUME IInv, NEW n \in DOMAIN rounds, Close(n), Written(n)',
         spool \subseteq spool', refused \subseteq refused'
  PROVE  /\ RoundsShaped' /\ CurrentOpen' /\ ClosedIsCaptured'
         /\ Len(rounds') = Len(rounds)
  <1>1. /\ Len(rounds') = Len(rounds) /\ \E T : rounds' \in Seq(T)
        /\ DOMAIN rounds' = DOMAIN rounds
        /\ rounds'[n].completed /\ DOMAIN rounds'[n] = DOMAIN rounds[n]
        /\ \A m \in DOMAIN rounds : m # n => rounds'[m] = rounds[m]
    BY Closes DEF Close
  <1>2. RoundsShaped'
    BY <1>1 DEF IInv, RoundsShaped
  <1>3. CurrentOpen'
    <2>1. DOMAIN rounds = 1 .. Len(rounds) /\ Len(rounds) \in Nat
      BY Indices
    <2>2. active' \in 0 .. Len(rounds')
      BY <1>1, <2>1 DEF Close, IInv, CurrentOpen
    <2>3. ASSUME NEW m \in DOMAIN rounds PROVE rounds'[m].completed <=> active' # m
      <3>1. CASE m = n
        BY <1>1, <2>1, <3>1 DEF Close
      <3>2. CASE m # n
        BY <1>1, <2>1, <3>2 DEF Close, IInv, CurrentOpen
      <3> QED BY <3>1, <3>2
    <2> QED BY <1>1, <2>2, <2>3 DEF CurrentOpen
  <1>4. ClosedIsCaptured'
    <2>1. ASSUME NEW m \in DOMAIN rounds, rounds'[m].completed PROVE Written(m)'
      <3>1. CASE m = n
        BY <3>1
      <3>2. CASE m # n
        BY <1>1, <2>1, <3>2, Kept DEF IInv, ClosedIsCaptured, Written
      <3> QED BY <3>1, <3>2
    <2> QED BY <1>1, <2>1 DEF ClosedIsCaptured, Written
  <1> QED BY <1>1, <1>2, <1>3, <1>4

\* enqueue_pending takes the round or refuses it.
LEMMA DeferWrites ==
  ASSUME NEW n, Deferred(n)
  PROVE  Written(n)' /\ spool \subseteq spool' /\ refused \subseteq refused'
  <1>1. CASE /\ spool' = spool \cup {Note(n, "pending", rounds[n].events, rounds[n].refs)}
             /\ UNCHANGED refused
    <2>1. PICK c : c = Note(n, "pending", rounds[n].events, rounds[n].refs)
      OBVIOUS
    <2>2. c.round = n
      BY <2>1 DEF Note
    <2> QED BY <1>1, <2>1, <2>2 DEF Written, Captures
  <1>2. CASE refused' = refused \cup {n} /\ UNCHANGED spool
    BY <1>2 DEF Written
  <1> QED BY <1>1, <1>2 DEF Deferred

LEMMA DeferKeeps ==
  ASSUME IInv, Defer(active)
  PROVE  /\ RoundsShaped' /\ CurrentOpen' /\ ClosedIsCaptured'
         /\ Len(rounds') = Len(rounds)
         /\ spool \subseteq spool' /\ refused \subseteq refused'
  <1>1. CASE Live(active)
    <2>1. active \in DOMAIN rounds
      BY <1>1, Indices DEF IInv, CurrentOpen, Live
    <2>2. Deferred(active) /\ Close(active)
      BY <1>1 DEF Defer
    <2> QED BY <2>1, <2>2, DeferWrites, ClosedOne
  <1>2. CASE ~Live(active)
    BY <1>2 DEF Defer, IInv, RoundsShaped, CurrentOpen, ClosedIsCaptured, Captures
  <1> QED BY <1>1, <1>2

\* get_or_create_active_round returns a round that is in the table.
LEMMA JoinedKeeps ==
  ASSUME IInv, NEW turn, Joined(turn)
  PROVE  /\ RoundsShaped' /\ CurrentOpen' /\ ClosedIsCaptured'
         /\ Round(turn) \in DOMAIN rounds'
         /\ Len(rounds) \in Nat /\ Len(rounds') \in Nat /\ Len(rounds) <= Len(rounds')
         /\ spool \subseteq spool' /\ refused \subseteq refused'
  <1>0. Len(rounds) \in Nat /\ DOMAIN rounds = 1 .. Len(rounds)
    BY Indices
  <1>1. CASE Matches(active, turn)
    <2>1. active \in DOMAIN rounds
      BY <1>0, <1>1 DEF Matches, Live, IInv, CurrentOpen
    <2> QED BY <1>0, <1>1, <2>1
            DEF Joined, Round, IInv, RoundsShaped, CurrentOpen, ClosedIsCaptured, Captures
  <1>2. CASE ~Matches(active, turn)
    <2> DEFINE new == [turn |-> Told(turn), events |-> <<>>, refs |-> 0,
                       completed |-> FALSE]
    <2>1. PICK base :
            /\ base = IF active = 0 THEN rounds ELSE
                        [rounds EXCEPT ![active].completed = TRUE, ![active].refs = 0]
            /\ rounds' = Append(base, new) /\ active' = Len(rounds) + 1
      BY <1>2 DEF Joined
    <2>2. /\ Len(base) = Len(rounds) /\ \E T : base \in Seq(T)
          /\ DOMAIN base = DOMAIN rounds
          /\ \A m \in DOMAIN rounds :
               base[m].completed /\ DOMAIN base[m] = DOMAIN rounds[m]
      <3>1. CASE active = 0
        BY <1>0, <2>1, <3>1 DEF IInv, RoundsShaped, CurrentOpen
      <3>2. CASE active # 0
        <4>1. active \in DOMAIN rounds
          BY <1>0, <3>2 DEF IInv, CurrentOpen
        <4>2. /\ Len(base) = Len(rounds) /\ \E T : base \in Seq(T)
              /\ DOMAIN base = DOMAIN rounds
              /\ base[active].completed /\ DOMAIN base[active] = DOMAIN rounds[active]
              /\ \A m \in DOMAIN rounds : m # active => base[m] = rounds[m]
          BY <2>1, <3>2, <4>1, Closes
        <4> QED BY <4>2 DEF IInv, CurrentOpen
      <3> QED BY <3>1, <3>2
    <2>3. PICK T : base \in Seq(T)
      BY <2>2
    <2>4. PICK v : v = new
      OBVIOUS
    <2>5. base \in Seq(T \cup {v})
      BY <2>3, SeqMonotonic
    <2>6. /\ rounds' \in Seq(T \cup {v}) /\ Len(rounds') = Len(rounds) + 1
          /\ rounds'[Len(rounds) + 1] = v
          /\ \A m \in DOMAIN rounds : rounds'[m] = base[m]
      BY <1>0, <2>1, <2>2, <2>4, <2>5, AppendProperties
    <2>7. DOMAIN rounds' = 1 .. Len(rounds) + 1
      BY <2>6, LenProperties
    <2>8. v.completed = FALSE /\ {"turn", "events", "refs", "completed"} \subseteq DOMAIN v
      BY <2>4
    <2>9. RoundsShaped'
      BY <1>0, <2>2, <2>6, <2>7, <2>8 DEF IInv, RoundsShaped
    <2>10. CurrentOpen'
      BY <1>0, <2>1, <2>2, <2>6, <2>7, <2>8 DEF CurrentOpen
    <2>11. spool \subseteq spool' /\ refused \subseteq refused'
      BY <1>2, DeferWrites DEF Joined
    <2>12. ClosedIsCaptured'
      <3>1. ASSUME NEW m \in DOMAIN rounds PROVE Written(m)'
        <4>1. CASE m = active
          BY <1>0, <1>2, <4>1, DeferWrites DEF Joined
        <4>2. CASE m # active
          BY <2>11, <4>2, Kept DEF IInv, CurrentOpen, ClosedIsCaptured, Written
        <4> QED BY <4>1, <4>2
      <3>2. ASSUME NEW m \in DOMAIN rounds', rounds'[m].completed PROVE m \in DOMAIN rounds
        BY <1>0, <2>6, <2>7, <2>8, <3>2
      <3> QED BY <3>1, <3>2 DEF ClosedIsCaptured, Written
    <2>13. Round(turn) \in DOMAIN rounds'
      BY <1>0, <1>2, <2>7 DEF Round
    <2> QED BY <1>0, <2>6, <2>9, <2>10, <2>11, <2>12, <2>13
  <1> QED BY <1>1, <1>2

-----------------------------------------------------------------------------
(* What the steps do to the hooks: one thread goes on, with a round it has    *)
(* looked up.                                                                 *)

OneHook(t) ==
  /\ DOMAIN hook' = Threads
  /\ \A u \in Threads : u # t => hook'[u] = hook[u]

LEMMA Goes ==
  ASSUME IInv, NEW t \in Threads, OneHook(t), HookKnows(t)',
         RoundsShaped', CurrentOpen', ClosedIsCaptured', Len(rounds) <= Len(rounds'),
         spool \subseteq spool', refused \subseteq refused'
  PROVE  IInv'
  <1>1. /\ Len(rounds) \in Nat /\ DOMAIN rounds = 1 .. Len(rounds)
        /\ Len(rounds') \in Nat /\ DOMAIN rounds' = 1 .. Len(rounds')
    BY Indices, LenProperties DEF RoundsShaped
  <1>2. DOMAIN rounds \subseteq DOMAIN rounds'
    BY <1>1
  <1>3. ASSUME NEW u \in Threads, u # t PROVE HookKnows(u)'
    <2>1. hook'[u] = hook[u] /\ HookKnows(u)
      BY <1>3 DEF OneHook, IInv, HooksKnow
    <2> QED BY <1>2, <2>1, Kept DEF HookKnows
  <1> QED BY <1>3 DEF IInv, HooksKnow, OneHook

LEMMA Idles == Locals \subseteq DOMAIN Idle /\ Idle.at = "idle"
  BY DEF Idle, Locals

LEMMA Returns ==
  ASSUME IInv, NEW t \in Threads, Return(t)
  PROVE  OneHook(t) /\ HookKnows(t)'
  <1>1. DOMAIN hook = Threads
    BY DEF IInv, HooksKnow
  <1>2. OneHook(t) /\ hook'[t] = Idle
    BY <1>1 DEF Return, OneHook
  <1> QED BY <1>2, Idles DEF HookKnows, Knowing

\* The hook goes on with the round it has.
LEMMA GoesOn ==
  ASSUME IInv, NEW t \in Threads, NEW step, Go(t, step),
         hook[t].at \in Knowing \/ step \notin Knowing, step # "complete",
         DOMAIN rounds \subseteq DOMAIN rounds'
  PROVE  OneHook(t) /\ HookKnows(t)'
  <1>1. DOMAIN hook = Threads /\ HookKnows(t)
    BY DEF IInv, HooksKnow
  <1>2. /\ OneHook(t) /\ hook'[t].at = step /\ hook'[t].round = hook[t].round
        /\ DOMAIN hook'[t] = DOMAIN hook[t]
    BY <1>1 DEF Go, OneHook, HookKnows
  <1> QED BY <1>1, <1>2 DEF HookKnows

-----------------------------------------------------------------------------
(* The steps. *)

LEMMA FireStep ==
  ASSUME IInv, NEW t \in Threads, NEW kind, kind \notin Knowing,
         NEW turn, NEW call, NEW orderly, Fire(t, kind, turn, call, orderly)
  PROVE  IInv'
  <1>1. UNCHANGED <<rounds, active, spool, refused>>
    BY DEF Fire
  <1>2. /\ OneHook(t) /\ hook'[t].at = kind
        /\ DOMAIN hook'[t] = DOMAIN Idle
    <2>1. DOMAIN hook = Threads
      BY DEF IInv, HooksKnow
    <2>2. PICK h : /\ h = [Idle EXCEPT !.at = kind, !.kind = kind, !.turn = turn,
                                       !.call = call]
                   /\ hook' = [hook EXCEPT ![t] = h]
      BY DEF Fire
    <2>3. h.at = kind /\ DOMAIN h = DOMAIN Idle
      BY <2>2, Idles
    <2> QED BY <2>1, <2>2, <2>3 DEF OneHook
  <1>3. HookKnows(t)'
    BY <1>2, Idles DEF HookKnows, Knowing
  <1>4. RoundsShaped' /\ CurrentOpen' /\ ClosedIsCaptured' /\ Len(rounds) <= Len(rounds')
    BY <1>1, Indices DEF IInv, RoundsShaped, CurrentOpen, ClosedIsCaptured, Captures
  <1> QED BY <1>1, <1>2, <1>3, <1>4, Goes

LEMMA HostStep == IInv /\ (\E t \in Threads : Host(t)) => IInv'
  <1> SUFFICES ASSUME IInv, NEW t \in Threads, Host(t) PROVE IInv'
    OBVIOUS
  <1>1. {"defer", "call", "result", "answer", "finish"} \cap Knowing = {}
    BY DEF Knowing
  <1>2. CASE FirePre(t)
    BY <1>1, <1>2, FireStep DEF FirePre
  <1>3. CASE FirePost(t)
    BY <1>1, <1>3, FireStep DEF FirePost
  <1>4. CASE FireEnd(t)
    BY <1>1, <1>4, FireStep DEF FireEnd
  <1>5. CASE \E c \in Calls : FireCall(t, c)
    BY <1>1, <1>5, FireStep DEF FireCall
  <1>6. CASE \E c \in Calls : FireResult(t, c)
    BY <1>1, <1>6, FireStep DEF FireResult
  <1> QED BY <1>2, <1>3, <1>4, <1>5, <1>6 DEF Host

LEMMA PreDefersStep == IInv /\ (\E t \in Threads : PreDefers(t)) => IInv'
  <1> SUFFICES ASSUME IInv, NEW t \in Threads, PreDefers(t) PROVE IInv'
    OBVIOUS
  <1>1. /\ RoundsShaped' /\ CurrentOpen' /\ ClosedIsCaptured'
        /\ Len(rounds') = Len(rounds)
        /\ spool \subseteq spool' /\ refused \subseteq refused'
    <2>1. CASE Defer(active)
      BY <2>1, DeferKeeps
    <2>2. CASE UNCHANGED <<rounds, active, spool, refused>>
      BY <2>2 DEF IInv, RoundsShaped, CurrentOpen, ClosedIsCaptured, Captures
    <2> QED BY <2>1, <2>2 DEF PreDefers
  <1>2. Len(rounds) \in Nat /\ DOMAIN rounds = DOMAIN rounds'
    BY <1>1, Indices, LenProperties DEF RoundsShaped
  <1>3. OneHook(t) /\ HookKnows(t)'
    <2>1. Go(t, "create") /\ "create" \notin Knowing /\ "create" # "complete"
      BY DEF PreDefers, Knowing
    <2> QED BY <1>2, <2>1, GoesOn
  <1> QED BY <1>1, <1>2, <1>3, Goes

\* A hook that has looked up its round.
LEMMA Enters ==
  ASSUME IInv, NEW t \in Threads, Joined(hook[t].turn), OneHook(t),
         DOMAIN hook'[t] = DOMAIN hook[t], hook'[t].at \in Knowing \ {"complete"},
         hook'[t].round = Round(hook[t].turn)
  PROVE  IInv'
  <1>1. /\ RoundsShaped' /\ CurrentOpen' /\ ClosedIsCaptured'
        /\ Round(hook[t].turn) \in DOMAIN rounds'
        /\ Len(rounds) <= Len(rounds')
        /\ spool \subseteq spool' /\ refused \subseteq refused'
    BY JoinedKeeps
  <1>2. HookKnows(t)'
    BY <1>1 DEF HookKnows, IInv, HooksKnow
  <1> QED BY <1>1, <1>2, Goes

LEMMA PreCreatesStep == IInv /\ (\E t \in Threads : PreCreates(t)) => IInv'
  <1> SUFFICES ASSUME IInv, NEW t \in Threads, PreCreates(t) PROVE IInv'
    OBVIOUS
  <1>1. DOMAIN hook = Threads /\ {"at", "round"} \subseteq DOMAIN hook[t]
    BY DEF IInv, HooksKnow, HookKnows, Locals
  <1>2. PICK n : n = Round(hook[t].turn)
    OBVIOUS
  <1>3. hook' = [hook EXCEPT ![t].at = "prompt", ![t].round = n]
    BY <1>2 DEF PreCreates
  <1>4. /\ OneHook(t) /\ DOMAIN hook'[t] = DOMAIN hook[t]
        /\ hook'[t].at = "prompt" /\ hook'[t].round = n
    BY <1>1, <1>3 DEF OneHook
  <1> QED BY <1>2, <1>4, Enters DEF PreCreates, Knowing

LEMMA ToolEntersStep == IInv /\ (\E t \in Threads : ToolEnters(t)) => IInv'
  <1> SUFFICES ASSUME IInv, NEW t \in Threads, ToolEnters(t) PROVE IInv'
    OBVIOUS
  <1>1. DOMAIN hook = Threads /\ {"at", "round", "name"} \subseteq DOMAIN hook[t]
    BY DEF IInv, HooksKnow, HookKnows, Locals
  <1>2. PICK n, name : /\ n = Round(hook[t].turn)
                       /\ hook' = [hook EXCEPT ![t].at = "append", ![t].round = n,
                                               ![t].name = name]
    BY DEF ToolEnters
  <1>3. /\ OneHook(t) /\ DOMAIN hook'[t] = DOMAIN hook[t]
        /\ hook'[t].at = "append" /\ hook'[t].round = n
    BY <1>1, <1>2 DEF OneHook
  <1> QED BY <1>2, <1>3, Enters DEF ToolEnters, Knowing

LEMMA PostEntersStep == IInv /\ (\E t \in Threads : PostEnters(t)) => IInv'
  <1> SUFFICES ASSUME IInv, NEW t \in Threads, PostEnters(t) PROVE IInv'
    OBVIOUS
  <1>1. DOMAIN hook = Threads /\ {"at", "round"} \subseteq DOMAIN hook[t]
    BY DEF IInv, HooksKnow, HookKnows, Locals
  <1>2. PICK n : n = Round(hook[t].turn)
    OBVIOUS
  <1>3. hook' = [hook EXCEPT ![t].at = "write", ![t].round = n]
    BY <1>2 DEF PostEnters
  <1>4. /\ OneHook(t) /\ DOMAIN hook'[t] = DOMAIN hook[t]
        /\ hook'[t].at = "write" /\ hook'[t].round = n
    BY <1>1, <1>3 DEF OneHook
  <1> QED BY <1>2, <1>4, Enters DEF PostEnters, Knowing

\* A hook adds to the round it has looked up, closed or not.
LEMMA Fills ==
  ASSUME IInv, NEW t \in Threads, hook[t].at \in Knowing, NEW new,
         \/ rounds' = [rounds EXCEPT ![hook[t].round].events = new]
         \/ rounds' = [rounds EXCEPT ![hook[t].round].refs = new],
         UNCHANGED <<active, spool, refused>>
  PROVE  /\ RoundsShaped' /\ CurrentOpen' /\ ClosedIsCaptured'
         /\ Len(rounds) <= Len(rounds') /\ DOMAIN rounds \subseteq DOMAIN rounds'
  <1>1. PICK n : n = hook[t].round /\ n \in DOMAIN rounds
    BY DEF IInv, HooksKnow, HookKnows
  <1>2. {"turn", "events", "refs", "completed"} \subseteq DOMAIN rounds[n]
    BY <1>1 DEF IInv, RoundsShaped
  <1>3. /\ DOMAIN rounds' = DOMAIN rounds /\ DOMAIN rounds'[n] = DOMAIN rounds[n]
        /\ rounds'[n].completed = rounds[n].completed
        /\ \A m \in DOMAIN rounds : m # n => rounds'[m] = rounds[m]
        /\ rounds' = [i \in DOMAIN rounds' |-> rounds'[i]]
    <2>1. CASE rounds' = [rounds EXCEPT ![n].events = new]
      BY <1>1, <1>2, <2>1
    <2>2. CASE rounds' = [rounds EXCEPT ![n].refs = new]
      BY <1>1, <1>2, <2>2
    <2> QED BY <1>1, <2>1, <2>2
  <1>4. /\ RoundsShaped' /\ CurrentOpen' /\ ClosedIsCaptured'
        /\ Len(rounds') = Len(rounds)
    BY <1>1, <1>3, Filled
  <1> QED BY <1>3, <1>4, Indices

LEMMA PreRecordsStep == IInv /\ (\E t \in Threads : PreRecords(t)) => IInv'
  <1> SUFFICES ASSUME IInv, NEW t \in Threads, PreRecords(t) PROVE IInv'
    OBVIOUS
  <1>1. DOMAIN hook = Threads /\ HookKnows(t) /\ hook[t].at = "prompt"
    BY DEF IInv, HooksKnow, PreRecords, At
  <1>2. PICK events : rounds' = [rounds EXCEPT ![hook[t].round].events = events]
    BY DEF PreRecords
  <1>3. UNCHANGED <<active, spool, refused>>
    BY DEF PreRecords
  <1>4. /\ RoundsShaped' /\ CurrentOpen' /\ ClosedIsCaptured'
        /\ Len(rounds) <= Len(rounds') /\ DOMAIN rounds \subseteq DOMAIN rounds'
    BY <1>1, <1>2, <1>3, Fills DEF Knowing
  <1>5. OneHook(t) /\ HookKnows(t)'
    <2>1. CASE Return(t)
      BY <2>1, Returns
    <2>2. CASE hook' = [hook EXCEPT ![t].at = "context", ![t].gen = session.gen]
      <3>1. /\ OneHook(t) /\ hook'[t].at = "context" /\ hook'[t].round = hook[t].round
            /\ DOMAIN hook'[t] = DOMAIN hook[t]
        BY <1>1, <2>2 DEF OneHook, HookKnows
      <3> QED BY <1>1, <1>4, <3>1 DEF HookKnows, Knowing
    <2> QED BY <2>1, <2>2 DEF PreRecords
  <1> QED BY <1>3, <1>4, <1>5, Goes

LEMMA PreContextStep == IInv /\ (\E t \in Threads : PreContext(t)) => IInv'
  <1> SUFFICES ASSUME IInv, NEW t \in Threads, PreContext(t) PROVE IInv'
    OBVIOUS
  <1>1. hook[t].at \in Knowing
    BY DEF PreContext, At, Knowing
  <1>2. PICK refs : rounds' = [rounds EXCEPT ![hook[t].round].refs = refs]
    BY DEF PreContext, Refer
  <1>3. OneHook(t) /\ HookKnows(t)' /\ UNCHANGED <<active, spool, refused>>
    BY Returns DEF PreContext
  <1>4. RoundsShaped' /\ CurrentOpen' /\ ClosedIsCaptured' /\ Len(rounds) <= Len(rounds')
    BY <1>1, <1>2, <1>3, Fills
  <1> QED BY <1>3, <1>4, Goes

\* Nothing but the hook changes.
LEMMA Alone ==
  ASSUME IInv, NEW t \in Threads, OneHook(t), HookKnows(t)',
         UNCHANGED <<rounds, active, spool, refused>>
  PROVE  IInv'
  <1>1. RoundsShaped' /\ CurrentOpen' /\ ClosedIsCaptured' /\ Len(rounds) <= Len(rounds')
    BY Indices DEF IInv, RoundsShaped, CurrentOpen, ClosedIsCaptured, Captures
  <1> QED BY <1>1, Goes

LEMMA PreWithoutStep == IInv /\ (\E t \in Threads : PreWithout(t)) => IInv'
  BY Returns, Alone DEF PreWithout

LEMMA ToolAppendsStep == IInv /\ (\E t \in Threads : ToolAppends(t)) => IInv'
  <1> SUFFICES ASSUME IInv, NEW t \in Threads, ToolAppends(t) PROVE IInv'
    OBVIOUS
  <1>1. hook[t].at \in Knowing
    BY DEF ToolAppends, At, Knowing
  <1>2. PICK events : rounds' = [rounds EXCEPT ![hook[t].round].events = events]
    BY DEF ToolAppends
  <1>3. OneHook(t) /\ HookKnows(t)' /\ UNCHANGED <<active, spool, refused>>
    BY Returns DEF ToolAppends
  <1>4. RoundsShaped' /\ CurrentOpen' /\ ClosedIsCaptured' /\ Len(rounds) <= Len(rounds')
    BY <1>1, <1>2, <1>3, Fills
  <1> QED BY <1>3, <1>4, Goes

LEMMA PostAppendsStep == IInv /\ (\E t \in Threads : PostAppends(t)) => IInv'
  <1> SUFFICES ASSUME IInv, NEW t \in Threads, PostAppends(t) PROVE IInv'
    OBVIOUS
  <1>1. hook[t].at \in Knowing
    BY DEF PostAppends, At, Knowing
  <1>2. PICK events : rounds' = [rounds EXCEPT ![hook[t].round].events = events]
    BY DEF PostAppends
  <1>3. UNCHANGED <<active, spool, refused>>
    BY DEF PostAppends
  <1>4. /\ RoundsShaped' /\ CurrentOpen' /\ ClosedIsCaptured'
        /\ Len(rounds) <= Len(rounds') /\ DOMAIN rounds \subseteq DOMAIN rounds'
    BY <1>1, <1>2, <1>3, Fills
  <1>5. Go(t, "snapshot")
    BY DEF PostAppends
  <1>6. OneHook(t) /\ HookKnows(t)'
    BY <1>1, <1>4, <1>5, GoesOn
  <1> QED BY <1>3, <1>4, <1>6, Goes

LEMMA PostCopiesStep == IInv /\ (\E t \in Threads : PostCopies(t)) => IInv'
  <1> SUFFICES ASSUME IInv, NEW t \in Threads, PostCopies(t) PROVE IInv'
    OBVIOUS
  <1>1. DOMAIN hook = Threads /\ HookKnows(t) /\ hook[t].at \in Knowing
    BY DEF IInv, HooksKnow, PostCopies, At, Knowing
  <1>2. PICK copy, refs : hook' = [hook EXCEPT ![t].at = "capture", ![t].copy = copy,
                                               ![t].refs = refs]
    BY DEF PostCopies
  <1>3. /\ OneHook(t) /\ hook'[t].at = "capture" /\ hook'[t].round = hook[t].round
        /\ DOMAIN hook'[t] = DOMAIN hook[t]
    BY <1>1, <1>2 DEF OneHook, HookKnows
  <1>4. UNCHANGED <<rounds, active, spool, refused>>
    BY DEF PostCopies
  <1>5. HookKnows(t)'
    BY <1>1, <1>3, <1>4 DEF HookKnows
  <1> QED BY <1>3, <1>4, <1>5, Alone

\* Whatever capture_or_defer comes to, the round is written or refused.
LEMMA PostCapturesStep == IInv /\ (\E t \in Threads : PostCaptures(t)) => IInv'
  <1> SUFFICES ASSUME IInv, NEW t \in Threads, PostCaptures(t) PROVE IInv'
    OBVIOUS
  <1>1. DOMAIN hook = Threads /\ HookKnows(t) /\ hook[t].at \in Knowing
    BY DEF IInv, HooksKnow, PostCaptures, At, Knowing
  <1>2. /\ OneHook(t) /\ hook'[t].at = "complete" /\ hook'[t].round = hook[t].round
        /\ DOMAIN hook'[t] = DOMAIN hook[t]
    BY <1>1 DEF PostCaptures, Go, OneHook, HookKnows
  <1>3. UNCHANGED <<rounds, active>>
    BY DEF PostCaptures
  <1>4. /\ spool \subseteq spool' /\ refused \subseteq refused'
        /\ Written(hook[t].round)'
    <2>1. PICK h, n, note : /\ h = hook[t] /\ n = h.round
                            /\ note = Note(h.round, "pending", h.copy, h.refs)
      OBVIOUS
    <2>2. note.round = n /\ [note EXCEPT !.to = "ready"].round = n
      BY <2>1 DEF Note
    <2>3. CASE spool' = spool \cup {[note EXCEPT !.to = "ready"]} /\ UNCHANGED refused
      BY <1>2, <2>1, <2>2, <2>3 DEF Written, Captures
    <2>4. CASE spool' = spool \cup {note} /\ UNCHANGED refused
      BY <1>2, <2>1, <2>2, <2>4 DEF Written, Captures
    <2>5. CASE refused' = refused \cup {n} /\ UNCHANGED spool
      BY <1>2, <2>1, <2>5 DEF Written
    <2> QED BY <2>1, <2>3, <2>4, <2>5 DEF PostCaptures
  <1>5. RoundsShaped' /\ CurrentOpen' /\ Len(rounds) <= Len(rounds')
    BY <1>3, Indices DEF IInv, RoundsShaped, CurrentOpen
  <1>6. ClosedIsCaptured'
    BY <1>3, <1>4, Kept DEF IInv, ClosedIsCaptured, Written
  <1>7. HookKnows(t)'
    BY <1>1, <1>2, <1>3, <1>4 DEF HookKnows
  <1> QED BY <1>2, <1>4, <1>5, <1>6, <1>7, Goes

LEMMA PostCompletesStep == IInv /\ (\E t \in Threads : PostCompletes(t)) => IInv'
  <1> SUFFICES ASSUME IInv, NEW t \in Threads, PostCompletes(t) PROVE IInv'
    OBVIOUS
  <1>1. PICK n : n = hook[t].round
    OBVIOUS
  <1>2. n \in DOMAIN rounds /\ Written(n)
    BY <1>1 DEF IInv, HooksKnow, HookKnows, PostCompletes, At, Knowing
  <1>3. OneHook(t) /\ HookKnows(t)'
    BY Returns DEF PostCompletes
  <1>4. CASE UNCHANGED <<rounds, active>>
    BY <1>3, <1>4, Alone DEF PostCompletes
  <1>5. CASE Close(n)
    <2>1. UNCHANGED <<spool, refused>>
      BY DEF PostCompletes
    <2>2. /\ RoundsShaped' /\ CurrentOpen' /\ ClosedIsCaptured'
          /\ Len(rounds') = Len(rounds)
      BY <1>2, <1>5, <2>1, Kept, ClosedOne
    <2> QED BY <1>3, <2>1, <2>2, Indices, Goes
  <1> QED BY <1>1, <1>4, <1>5 DEF PostCompletes

LEMMA FinishStep == IInv /\ (\E t \in Threads : Finish(t)) => IInv'
  <1> SUFFICES ASSUME IInv, NEW t \in Threads, Finish(t) PROVE IInv'
    OBVIOUS
  <1>1. /\ RoundsShaped' /\ CurrentOpen' /\ ClosedIsCaptured'
        /\ Len(rounds') = Len(rounds)
        /\ spool \subseteq spool' /\ refused \subseteq refused'
    BY DeferKeeps DEF Finish
  <1>2. OneHook(t) /\ HookKnows(t)'
    BY Returns DEF Finish
  <1> QED BY <1>1, <1>2, Indices, Goes

LEMMA StepInv == IInv /\ [Next]_vars => IInv'
  <1>1. IInv /\ UNCHANGED vars => IInv'
    BY DEF vars, IInv, RoundsShaped, CurrentOpen, ClosedIsCaptured, Captures,
           HooksKnow, HookKnows, Written
  <1> QED BY <1>1, HostStep, PreDefersStep, PreCreatesStep, PreRecordsStep,
             PreContextStep, PreWithoutStep, ToolEntersStep, ToolAppendsStep,
             PostEntersStep, PostAppendsStep, PostCopiesStep, PostCapturesStep,
             PostCompletesStep, FinishStep
          DEF Next, Hook

LEMMA Invariance == Spec => []IInv
  BY InitInv, StepInv, PTL DEF Spec

\* runtime.py, on_post_llm_call and _defer_active_round_locked: in whatever
\* order its hooks run, a round is closed only when it was written to the spool,
\* or the spool refused it.
THEOREM ClosedAreCaptured == Spec => []ClosedIsCaptured
  BY Invariance, PTL DEF IInv

\* runtime.py, _complete_round: a round that is not closed stays the session's,
\* however late another one's hook closes that.
THEOREM NoneIsForgotten == Spec => []NoneForgotten
  <1>1. IInv => NoneForgotten
    BY DEF IInv, CurrentOpen, NoneForgotten
  <1> QED BY <1>1, Invariance, PTL

-----------------------------------------------------------------------------
(* What the steps do to the events.                                          *)

\* A round keeps its turn and its events; its references may be cleared.
Stays(n) ==
  /\ n \in DOMAIN rounds'
  /\ rounds'[n].turn = rounds[n].turn /\ rounds'[n].events = rounds[n].events
  /\ rounds'[n].refs \in {rounds[n].refs, 0}

\* The step writes rounds as they are to the spool.
WritesRounds ==
  \A c \in spool' : \/ c \in spool
                    \/ \E n \in DOMAIN rounds : /\ c.round = n
                                                /\ c.events = rounds[n].events
                                                /\ c.refs = rounds[n].refs

\* The spool has the round with all its events, or refused it.
HandedIn(n) == n \in refused \/ \E c \in Captures(n) : c.events = rounds[n].events

\* The other round is the same one, or the same but closed.
Same(c, n) ==
  /\ c[n].turn = rounds[n].turn /\ c[n].events = rounds[n].events
  /\ c[n].refs \in {rounds[n].refs, 0}

LEMMA ClosesEvents ==
  ASSUME IInv, NEW n \in DOMAIN rounds, NEW c,
         c = [rounds EXCEPT ![n].completed = TRUE, ![n].refs = 0]
  PROVE  DOMAIN c = DOMAIN rounds /\ \A m \in DOMAIN rounds : Same(c, m)
  <1>1. {"turn", "events", "refs", "completed"} \subseteq DOMAIN rounds[n]
    BY DEF IInv, RoundsShaped
  <1>2. /\ c[n].turn = rounds[n].turn /\ c[n].events = rounds[n].events
        /\ c[n].refs = 0
    BY <1>1
  <1>3. DOMAIN c = DOMAIN rounds /\ \A m \in DOMAIN rounds : m # n => c[m] = rounds[m]
    BY Closes
  <1> QED BY <1>2, <1>3 DEF Same

LEMMA DeferredWrites ==
  ASSUME NEW n \in DOMAIN rounds, Deferred(n), rounds'[n].events = rounds[n].events
  PROVE  WritesRounds /\ HandedIn(n)'
  <1>1. CASE /\ spool' = spool \cup {Note(n, "pending", rounds[n].events, rounds[n].refs)}
             /\ UNCHANGED refused
    <2>1. PICK c : c = Note(n, "pending", rounds[n].events, rounds[n].refs)
      OBVIOUS
    <2>2. c.round = n /\ c.events = rounds[n].events /\ c.refs = rounds[n].refs
      BY <2>1 DEF Note
    <2> QED BY <1>1, <2>1, <2>2 DEF WritesRounds, HandedIn, Captures
  <1>2. CASE refused' = refused \cup {n} /\ UNCHANGED spool
    BY <1>2 DEF WritesRounds, HandedIn
  <1> QED BY <1>1, <1>2 DEF Deferred

LEMMA DeferEvents ==
  ASSUME IInv, Defer(active)
  PROVE  /\ DOMAIN rounds' = DOMAIN rounds /\ \A n \in DOMAIN rounds : Stays(n)
         /\ WritesRounds /\ active' = 0
         /\ \A n \in DOMAIN rounds : n = active => HandedIn(n)'
  <1>0. 0 \notin DOMAIN rounds
    BY Indices
  <1>1. CASE active = 0
    BY <1>0, <1>1 DEF Defer, Live, Stays, WritesRounds
  <1>2. CASE active # 0
    <2>1. PICK n : n = active
      OBVIOUS
    <2>2. n \in DOMAIN rounds /\ Live(n)
      BY <1>2, <2>1, Indices DEF IInv, CurrentOpen, Live
    <2>3. Deferred(n) /\ Close(n)
      BY <2>1, <2>2 DEF Defer
    <2>4. PICK c : /\ c = [rounds EXCEPT ![n].completed = TRUE, ![n].refs = 0]
                   /\ rounds' = c
      BY <2>3 DEF Close
    <2>5. DOMAIN rounds' = DOMAIN rounds /\ \A m \in DOMAIN rounds : Stays(m)
      <3>1. DOMAIN c = DOMAIN rounds /\ \A m \in DOMAIN rounds : Same(c, m)
        BY <2>2, <2>4, ClosesEvents
      <3> QED BY <2>4, <3>1 DEF Same, Stays
    <2>6. WritesRounds /\ HandedIn(n)'
      <3>1. rounds'[n].events = rounds[n].events
        BY <2>2, <2>5 DEF Stays
      <3> QED BY <2>2, <2>3, <3>1, DeferredWrites
    <2>7. active' = 0
      BY <2>1, <2>3 DEF Close
    <2> QED BY <2>1, <2>5, <2>6, <2>7
  <1> QED BY <1>1, <1>2

\* A round as get_or_create_active_round makes it.
Fresh(turn) == [turn |-> Told(turn), events |-> <<>>, refs |-> 0, completed |-> FALSE]

LEMMA JoinedEvents ==
  ASSUME IInv, NEW turn, Joined(turn)
  PROVE  /\ \A n \in DOMAIN rounds : Stays(n)
         /\ \A n \in DOMAIN rounds' :
              \/ n \in DOMAIN rounds
              \/ n = Round(turn) /\ rounds'[n] = Fresh(turn)
         /\ WritesRounds
         /\ active' = Round(turn)
         /\ IF Matches(active, turn) THEN UNCHANGED rounds
            ELSE \A n \in DOMAIN rounds : n = active => HandedIn(n)'
  <1>0. Len(rounds) \in Nat /\ DOMAIN rounds = 1 .. Len(rounds)
    BY Indices
  <1>1. CASE Matches(active, turn)
    BY <1>1 DEF Joined, Round, Stays, WritesRounds
  <1>2. CASE ~Matches(active, turn)
    <2> DEFINE new == [turn |-> Told(turn), events |-> <<>>, refs |-> 0,
                       completed |-> FALSE]
    <2>1. PICK base :
            /\ base = IF active = 0 THEN rounds ELSE
                        [rounds EXCEPT ![active].completed = TRUE, ![active].refs = 0]
            /\ rounds' = Append(base, new) /\ active' = Len(rounds) + 1
      BY <1>2 DEF Joined
    <2>2. /\ Len(base) = Len(rounds) /\ \E T : base \in Seq(T)
          /\ \A m \in DOMAIN rounds : Same(base, m)
      <3>1. CASE active = 0
        BY <2>1, <3>1 DEF IInv, RoundsShaped, Same
      <3>2. CASE active # 0
        <4>0. PICK n : n = active
          OBVIOUS
        <4>1. n \in DOMAIN rounds
          BY <1>0, <3>2, <4>0 DEF IInv, CurrentOpen
        <4>2. base = [rounds EXCEPT ![n].completed = TRUE, ![n].refs = 0]
          BY <2>1, <3>2, <4>0
        <4>3. Len(base) = Len(rounds) /\ \E T : base \in Seq(T)
          BY <4>1, <4>2, Closes
        <4>4. \A m \in DOMAIN rounds : Same(base, m)
          BY <4>1, <4>2, ClosesEvents
        <4> QED BY <4>3, <4>4
      <3> QED BY <3>1, <3>2
    <2>3. PICK T : base \in Seq(T)
      BY <2>2
    <2>4. PICK v : v = new
      OBVIOUS
    <2>5. base \in Seq(T \cup {v})
      BY <2>3, SeqMonotonic
    <2>6. /\ rounds' \in Seq(T \cup {v}) /\ Len(rounds') = Len(rounds) + 1
          /\ rounds'[Len(rounds) + 1] = v
          /\ \A m \in DOMAIN rounds : rounds'[m] = base[m]
      BY <1>0, <2>1, <2>2, <2>4, <2>5, AppendProperties
    <2>7. DOMAIN rounds' = 1 .. Len(rounds) + 1
      BY <2>6, LenProperties
    <2>8. \A n \in DOMAIN rounds : Stays(n)
      BY <1>0, <2>2, <2>6, <2>7 DEF Stays, Same
    <2>9. \A n \in DOMAIN rounds' :
            n \in DOMAIN rounds \/ (n = Round(turn) /\ rounds'[n] = Fresh(turn))
      BY <1>0, <1>2, <2>4, <2>6, <2>7 DEF Round, Fresh
    <2>10. WritesRounds /\ \A n \in DOMAIN rounds : n = active => HandedIn(n)'
      <3>1. CASE active = 0
        BY <1>0, <1>2, <3>1 DEF Joined, WritesRounds
      <3>2. CASE active # 0
        <4>1. PICK n : n = active
          OBVIOUS
        <4>2. n \in DOMAIN rounds /\ Deferred(n)
          BY <1>0, <1>2, <3>2, <4>1 DEF IInv, CurrentOpen, Joined
        <4>3. rounds'[n].events = rounds[n].events
          BY <2>8, <4>2 DEF Stays
        <4> QED BY <4>1, <4>2, <4>3, DeferredWrites
      <3> QED BY <3>1, <3>2
    <2> QED BY <1>2, <2>1, <2>8, <2>9, <2>10 DEF Round
  <1> QED BY <1>1, <1>2

\* A step that fills a round fills the hook's.
LEMMA FillsOne ==
  ASSUME IInv, NEW t \in Threads, hook[t].at \in Knowing, NEW new,
         rounds' = [rounds EXCEPT ![hook[t].round].events = new]
  PROVE  /\ DOMAIN rounds' = DOMAIN rounds
         /\ rounds'[hook[t].round].events = new
         /\ rounds'[hook[t].round].turn = rounds[hook[t].round].turn
         /\ rounds'[hook[t].round].refs = rounds[hook[t].round].refs
         /\ \A n \in DOMAIN rounds : n # hook[t].round => Stays(n)
  <1>1. PICK n : n = hook[t].round /\ n \in DOMAIN rounds
    BY DEF IInv, HooksKnow, HookKnows
  <1>2. {"turn", "events", "refs", "completed"} \subseteq DOMAIN rounds[n]
    BY <1>1 DEF IInv, RoundsShaped
  <1>3. /\ DOMAIN rounds' = DOMAIN rounds
        /\ rounds'[n].events = new /\ rounds'[n].turn = rounds[n].turn
        /\ rounds'[n].refs = rounds[n].refs
        /\ \A m \in DOMAIN rounds : m # n => rounds'[m] = rounds[m]
    BY <1>1, <1>2
  <1> QED BY <1>1, <1>3 DEF Stays

-----------------------------------------------------------------------------
(* Results follow their calls.                                               *)

Paired(events) ==
  /\ \E S : events \in Seq(S)
  /\ \A i \in DOMAIN events :
       events[i].kind = "result" =>
         \E j \in 1 .. i - 1 : events[j].kind = "call" /\ events[j].name = events[i].name

RoundsPaired == \A n \in DOMAIN rounds : Paired(rounds[n].events)
HooksPaired  == \A t \in Threads : hook[t].at = "capture" => Paired(hook[t].copy)
SpoolPaired  == \A c \in spool : Paired(c.events)

PInv == RoundsPaired /\ HooksPaired /\ SpoolPaired

LEMMA PairedAppend ==
  ASSUME NEW events, Paired(events), NEW e,
         \/ e.kind # "result"
         \/ e.name \in Named(events, "call")
  PROVE  Paired(Append(events, e))
  <1>1. PICK S : events \in Seq(S)
    BY DEF Paired
  <1>2. events \in Seq(S \cup {e})
    BY <1>1, SeqMonotonic
  <1>3. PICK more : more = Append(events, e)
    OBVIOUS
  <1>4. /\ more \in Seq(S \cup {e}) /\ Len(more) = Len(events) + 1
        /\ more[Len(events) + 1] = e
        /\ \A i \in 1 .. Len(events) : more[i] = events[i]
        /\ Len(events) \in Nat /\ DOMAIN events = 1 .. Len(events)
        /\ DOMAIN more = 1 .. Len(more)
    BY <1>2, <1>3, AppendProperties, LenProperties
  <1>5. ASSUME NEW i \in DOMAIN more, more[i].kind = "result"
        PROVE  \E j \in 1 .. i - 1 : more[j].kind = "call" /\ more[j].name = more[i].name
    <2>1. CASE i \in DOMAIN events
      <3>1. PICK j \in 1 .. i - 1 : /\ events[j].kind = "call"
                                    /\ events[j].name = events[i].name
        BY <1>4, <1>5, <2>1 DEF Paired
      <3> QED BY <1>4, <2>1, <3>1
    <2>2. CASE i = Len(events) + 1
      <3>1. PICK j \in DOMAIN events : events[j].kind = "call" /\ events[j].name = e.name
        BY <1>4, <1>5, <2>2 DEF Named
      <3> QED BY <1>4, <2>2, <3>1
    <2> QED BY <1>4, <2>1, <2>2
  <1> QED BY <1>3, <1>4, <1>5 DEF Paired

LEMMA UserPaired ==
  ASSUME NEW events, Paired(events), NEW turn
  PROVE  Paired(WithUser(events, turn))
  <1>1. PICK e : e = Event("user", <<>>, turn)
    OBVIOUS
  <1>2. e.kind # "result"
    BY <1>1 DEF Event
  <1> QED BY <1>1, <1>2, PairedAppend DEF WithUser

\* post_tool_call records the call first if its own hook did not.
LEMMA AppendedPaired ==
  ASSUME NEW events, Paired(events), NEW h
  PROVE  Paired(Appended(events, h))
  <1>1. PICK c, r : /\ c = Event("call", h.name, h.turn)
                    /\ r = Event("result", h.name, h.turn)
    OBVIOUS
  <1>2. c.kind = "call" /\ c.name = h.name /\ r.kind = "result" /\ r.name = h.name
    BY <1>1 DEF Event
  <1>3. PICK call : call = IF h.name \in Named(events, "call") THEN events
                           ELSE Append(events, c)
    OBVIOUS
  <1>4. Paired(call)
    BY <1>2, <1>3, PairedAppend
  <1>5. h.name \in Named(call, "call")
    <2>1. CASE h.name \notin Named(events, "call")
      <3>1. PICK S : events \in Seq(S)
        BY DEF Paired
      <3>2. events \in Seq(S \cup {c})
        BY <3>1, SeqMonotonic
      <3>3. /\ call \in Seq(S \cup {c}) /\ Len(call) = Len(events) + 1
            /\ call[Len(events) + 1] = c /\ Len(events) \in Nat
        BY <1>3, <2>1, <3>2, AppendProperties, LenProperties
      <3>4. Len(events) + 1 \in DOMAIN call
        BY <3>3
      <3> QED BY <1>2, <3>3, <3>4 DEF Named
    <2> QED BY <1>3, <2>1
  <1>6. Paired(Append(call, r))
    BY <1>2, <1>4, <1>5, PairedAppend
  <1> QED BY <1>1, <1>3, <1>4, <1>6 DEF Appended

-----------------------------------------------------------------------------
(* Steps by what they do.                                                    *)

GoesTo(t, from, to) ==
  /\ OneHook(t) /\ hook[t].at = from /\ hook'[t].at = to
  /\ hook'[t].kind = hook[t].kind /\ hook'[t].turn = hook[t].turn

Leaves(t) == OneHook(t) /\ hook[t].at # "idle" /\ hook'[t].at = "idle"

LEMMA Goings ==
  ASSUME IInv, NEW t \in Threads, NEW to, Go(t, to)
  PROVE  GoesTo(t, hook[t].at, to) /\ hook'[t].round = hook[t].round
  <1>1. DOMAIN hook = Threads /\ Locals \subseteq DOMAIN hook[t]
    BY DEF IInv, HooksKnow, HookKnows
  <1> QED BY <1>1 DEF Go, GoesTo, OneHook, Locals

LEMMA Leavings ==
  ASSUME IInv, NEW t \in Threads, Return(t), hook[t].at # "idle"
  PROVE  Leaves(t)
  BY Idles DEF Return, Leaves, OneHook, IInv, HooksKnow

LEMMA Enterings ==
  ASSUME IInv, NEW t \in Threads, NEW to, NEW n,
         \/ hook' = [hook EXCEPT ![t].at = to, ![t].round = n]
         \/ \E name : hook' = [hook EXCEPT ![t].at = to, ![t].round = n, ![t].name = name]
  PROVE  GoesTo(t, hook[t].at, to) /\ hook'[t].round = n
  <1>1. DOMAIN hook = Threads /\ Locals \subseteq DOMAIN hook[t]
    BY DEF IInv, HooksKnow, HookKnows
  <1>2. CASE hook' = [hook EXCEPT ![t].at = to, ![t].round = n]
    BY <1>1, <1>2 DEF GoesTo, OneHook, Locals
  <1>3. ASSUME NEW name,
               hook' = [hook EXCEPT ![t].at = to, ![t].round = n, ![t].name = name]
        PROVE  GoesTo(t, hook[t].at, to) /\ hook'[t].round = n
    BY <1>1, <1>3 DEF GoesTo, OneHook, Locals
  <1> QED BY <1>2, <1>3

\* A hook looks up its round: the session's, or a new one.
LooksUp(t, from, to) ==
  GoesTo(t, from, to) /\ hook'[t].round = active' /\ Joined(hook[t].turn)

\* A hook adds to its round.
Adds(t, new) ==
  /\ rounds' = [rounds EXCEPT ![hook[t].round].events = new]
  /\ UNCHANGED <<active, spool, refused>>

Idly == UNCHANGED <<rounds, active, spool, refused>>

LEMMA PreDefersDoes ==
  ASSUME IInv, NEW t \in Threads, PreDefers(t)
  PROVE  GoesTo(t, "defer", "create") /\ (Defer(active) \/ Idly)
  BY Goings DEF PreDefers, At, Idly

LEMMA PreCreatesDoes ==
  ASSUME IInv, NEW t \in Threads, PreCreates(t)
  PROVE  LooksUp(t, "create", "prompt")
  <1>1. PICK n : /\ n = Round(hook[t].turn)
                 /\ hook' = [hook EXCEPT ![t].at = "prompt", ![t].round = n]
    BY DEF PreCreates
  <1>2. GoesTo(t, hook[t].at, "prompt") /\ hook'[t].round = n /\ hook[t].at = "create"
    BY <1>1, Enterings DEF PreCreates, At
  <1> QED BY <1>1, <1>2, JoinedEvents DEF LooksUp, PreCreates

LEMMA ToolEntersDoes ==
  ASSUME IInv, NEW t \in Threads, ToolEnters(t)
  PROVE  LooksUp(t, "call", "append") \/ LooksUp(t, "result", "append")
  <1>1. PICK n, name : /\ n = Round(hook[t].turn)
                       /\ hook' = [hook EXCEPT ![t].at = "append", ![t].round = n,
                                               ![t].name = name]
    BY DEF ToolEnters
  <1>2. GoesTo(t, hook[t].at, "append") /\ hook'[t].round = n
    BY <1>1, Enterings
  <1>3. Joined(hook[t].turn) /\ active' = Round(hook[t].turn)
    BY JoinedEvents DEF ToolEnters
  <1> QED BY <1>1, <1>2, <1>3 DEF LooksUp, ToolEnters

LEMMA PostEntersDoes ==
  ASSUME IInv, NEW t \in Threads, PostEnters(t)
  PROVE  LooksUp(t, "answer", "write")
  <1>1. PICK n : /\ n = Round(hook[t].turn)
                 /\ hook' = [hook EXCEPT ![t].at = "write", ![t].round = n]
    BY DEF PostEnters
  <1>2. GoesTo(t, hook[t].at, "write") /\ hook'[t].round = n /\ hook[t].at = "answer"
    BY <1>1, Enterings DEF PostEnters, At
  <1> QED BY <1>1, <1>2, JoinedEvents DEF LooksUp, PostEnters

LEMMA PreRecordsDoes ==
  ASSUME IInv, NEW t \in Threads, PreRecords(t)
  PROVE  /\ Leaves(t) \/ (GoesTo(t, "prompt", "context") /\ hook'[t].round = hook[t].round)
         /\ hook[t].at = "prompt"
         /\ Adds(t, WithUser(rounds[hook[t].round].events, hook[t].turn))
  <1>1. hook[t].at = "prompt"
    BY DEF PreRecords, At
  <1>2. Leaves(t) \/ (GoesTo(t, "prompt", "context") /\ hook'[t].round = hook[t].round)
    <2>1. CASE Return(t)
      BY <1>1, <2>1, Leavings
    <2>2. CASE hook' = [hook EXCEPT ![t].at = "context", ![t].gen = session.gen]
      <3>1. DOMAIN hook = Threads /\ Locals \subseteq DOMAIN hook[t]
        BY DEF IInv, HooksKnow, HookKnows
      <3> QED BY <1>1, <2>2, <3>1 DEF GoesTo, OneHook, Locals
    <2> QED BY <2>1, <2>2 DEF PreRecords
  <1>3. hook[t].round \in DOMAIN rounds
    BY <1>1 DEF IInv, HooksKnow, HookKnows, Knowing
  <1>4. "events" \in DOMAIN rounds[hook[t].round]
    BY <1>3 DEF IInv, RoundsShaped
  <1>5. rounds' = [rounds EXCEPT ![hook[t].round].events =
                     WithUser(rounds[hook[t].round].events, hook[t].turn)]
    BY <1>3, <1>4 DEF PreRecords
  <1> QED BY <1>1, <1>2, <1>5 DEF Adds, PreRecords

LEMMA ToolAppendsDoes ==
  ASSUME IInv, NEW t \in Threads, ToolAppends(t)
  PROVE  /\ Leaves(t) /\ hook[t].at = "append"
         /\ Adds(t, Appended(rounds[hook[t].round].events, hook[t]))
  <1>1. hook[t].at = "append"
    BY DEF ToolAppends, At
  <1>2. hook[t].round \in DOMAIN rounds
    BY <1>1 DEF IInv, HooksKnow, HookKnows, Knowing
  <1>3. "events" \in DOMAIN rounds[hook[t].round]
    BY <1>2 DEF IInv, RoundsShaped
  <1>4. rounds' = [rounds EXCEPT ![hook[t].round].events =
                     Appended(rounds[hook[t].round].events, hook[t])]
    BY <1>2, <1>3 DEF ToolAppends
  <1> QED BY <1>1, <1>4, Leavings DEF Adds, ToolAppends

LEMMA PostAppendsDoes ==
  ASSUME IInv, NEW t \in Threads, PostAppends(t)
  PROVE  /\ GoesTo(t, "write", "snapshot") /\ hook'[t].round = hook[t].round
         /\ LET user == WithUser(rounds[hook[t].round].events, hook[t].turn)
            IN  \/ Adds(t, user)
                \/ Adds(t, Append(user, Event("answer", <<>>, hook[t].turn)))
  BY Goings DEF PostAppends, At, Adds

LEMMA PostCopiesDoes ==
  ASSUME IInv, NEW t \in Threads, PostCopies(t)
  PROVE  /\ GoesTo(t, "snapshot", "capture") /\ hook'[t].round = hook[t].round /\ Idly
         /\ hook'[t].copy = rounds[hook[t].round].events
         /\ hook'[t].refs = rounds[hook[t].round].refs
  <1>1. PICK copy, refs :
          /\ copy = rounds[hook[t].round].events /\ refs = rounds[hook[t].round].refs
          /\ hook' = [hook EXCEPT ![t].at = "capture", ![t].copy = copy, ![t].refs = refs]
    BY DEF PostCopies
  <1>2. DOMAIN hook = Threads /\ Locals \subseteq DOMAIN hook[t]
    BY DEF IInv, HooksKnow, HookKnows
  <1>3. GoesTo(t, hook[t].at, "capture") /\ hook'[t].round = hook[t].round
    BY <1>1, <1>2 DEF GoesTo, OneHook, Locals
  <1>4. hook'[t].copy = copy /\ hook'[t].refs = refs
    BY <1>1, <1>2 DEF Locals
  <1> QED BY <1>1, <1>3, <1>4 DEF PostCopies, At, Idly

LEMMA PostCapturesDoes ==
  ASSUME IInv, NEW t \in Threads, PostCaptures(t)
  PROVE  /\ GoesTo(t, "capture", "complete") /\ hook'[t].round = hook[t].round
         /\ UNCHANGED <<rounds, active>>
         /\ \/ /\ UNCHANGED refused
               /\ \E c : /\ spool' = spool \cup {c} /\ c.round = hook[t].round
                         /\ c.events = hook[t].copy /\ c.refs = hook[t].refs
            \/ refused' = refused \cup {hook[t].round} /\ UNCHANGED spool
  <1>1. GoesTo(t, "capture", "complete") /\ hook'[t].round = hook[t].round
    BY Goings DEF PostCaptures, At
  <1>2. PICK h, note : h = hook[t] /\ note = Note(h.round, "pending", h.copy, h.refs)
    OBVIOUS
  <1>3. PICK ready : ready = [note EXCEPT !.to = "ready"]
    OBVIOUS
  <1>4. /\ note.round = h.round /\ note.events = h.copy /\ note.refs = h.refs
        /\ ready.round = h.round /\ ready.events = h.copy /\ ready.refs = h.refs
    BY <1>2, <1>3 DEF Note
  <1>5. CASE spool' = spool \cup {ready} /\ UNCHANGED refused
    BY <1>1, <1>2, <1>4, <1>5 DEF PostCaptures
  <1>6. CASE spool' = spool \cup {note} /\ UNCHANGED refused
    BY <1>1, <1>2, <1>4, <1>6 DEF PostCaptures
  <1>7. CASE refused' = refused \cup {h.round} /\ UNCHANGED spool
    BY <1>1, <1>2, <1>7 DEF PostCaptures
  <1> QED BY <1>2, <1>3, <1>5, <1>6, <1>7 DEF PostCaptures

LEMMA PostCompletesDoes ==
  ASSUME IInv, NEW t \in Threads, PostCompletes(t)
  PROVE  /\ Leaves(t) /\ hook[t].at = "complete"
         /\ Close(hook[t].round) \/ UNCHANGED <<rounds, active>>
         /\ UNCHANGED <<spool, refused>>
  BY Leavings DEF PostCompletes, At

LEMMA FinishDoes ==
  ASSUME IInv, NEW t \in Threads, Finish(t)
  PROVE  Leaves(t) /\ hook[t].at = "finish" /\ Defer(active)
  BY Leavings DEF Finish, At

LEMMA PreWithoutDoes ==
  ASSUME IInv, NEW t \in Threads, PreWithout(t)
  PROVE  Leaves(t) /\ hook[t].at = "context" /\ Idly
  BY Leavings DEF PreWithout, At, Idly

LEMMA PreContextDoes ==
  ASSUME IInv, NEW t \in Threads, PreContext(t)
  PROVE  /\ Leaves(t) /\ hook[t].at = "context" /\ UNCHANGED <<active, spool, refused>>
         /\ DOMAIN rounds' = DOMAIN rounds
         /\ \A n \in DOMAIN rounds :
              \/ Stays(n)
              \/ /\ n = hook[t].round
                 /\ rounds'[n].turn = rounds[n].turn /\ rounds'[n].events = rounds[n].events
                 /\ rounds'[n].refs = hook[t].turn
  <1>1. Leaves(t) /\ hook[t].at = "context" /\ UNCHANGED <<active, spool, refused>>
    BY Leavings DEF PreContext, At
  <1>2. PICK n : n = hook[t].round /\ n \in DOMAIN rounds
    BY <1>1 DEF IInv, HooksKnow, HookKnows, Knowing
  <1>3. {"turn", "events", "refs", "completed"} \subseteq DOMAIN rounds[n]
    BY <1>2 DEF IInv, RoundsShaped
  <1>4. PICK refs : /\ refs \in {rounds[n].refs, hook[t].turn}
                    /\ rounds' = [rounds EXCEPT ![n].refs = refs]
    <2>1. (IF Cached(hook[t].turn) THEN session.cache ELSE hook[t].turn) = hook[t].turn
      BY DEF Cached
    <2> QED BY <1>2, <1>3, <2>1 DEF PreContext, Refer
  <1>5. /\ DOMAIN rounds' = DOMAIN rounds
        /\ rounds'[n].turn = rounds[n].turn /\ rounds'[n].events = rounds[n].events
        /\ rounds'[n].refs = refs
        /\ \A m \in DOMAIN rounds : m # n => rounds'[m] = rounds[m]
    BY <1>2, <1>3, <1>4
  <1> QED BY <1>1, <1>2, <1>4, <1>5 DEF Stays

\* A thread that is idle takes up a hook.
LEMMA Fires ==
  ASSUME IInv, NEW t \in Threads, NEW kind, NEW turn, NEW call, NEW orderly,
         Fire(t, kind, turn, call, orderly)
  PROVE  /\ OneHook(t) /\ hook[t].at = "idle" /\ hook'[t].at = kind
         /\ hook'[t].kind = kind /\ hook'[t].turn = turn /\ Idly
  <1>1. DOMAIN hook = Threads
    BY DEF IInv, HooksKnow
  <1>2. PICK h : /\ h = [Idle EXCEPT !.at = kind, !.kind = kind, !.turn = turn,
                                     !.call = call]
                 /\ hook' = [hook EXCEPT ![t] = h]
    BY DEF Fire
  <1>3. h.at = kind /\ h.kind = kind /\ h.turn = turn
    BY <1>2 DEF Idle
  <1> QED BY <1>1, <1>2, <1>3, Idles DEF OneHook, Fire, Idly

-----------------------------------------------------------------------------
(* The steps keep results with their calls.                                  *)

\* What every round has, or every new one.
Remains ==
  /\ \A n \in DOMAIN rounds' :
       (n \in DOMAIN rounds /\ rounds'[n].events = rounds[n].events)
       \/ rounds'[n].events = <<>>
  /\ WritesRounds

LEMMA Remaining ==
  ASSUME IInv
  PROVE  /\ Idly => Remains
         /\ Defer(active) => Remains
         /\ \A turn : Joined(turn) => Remains
  <1>1. Idly => Remains
    BY DEF Idly, Remains, WritesRounds
  <1>2. Defer(active) => Remains
    BY DeferEvents DEF Remains, Stays
  <1>3. ASSUME NEW turn, Joined(turn) PROVE Remains
    <2>1. /\ \A n \in DOMAIN rounds : Stays(n)
          /\ \A n \in DOMAIN rounds' : n \in DOMAIN rounds \/ rounds'[n] = Fresh(turn)
          /\ WritesRounds
      BY <1>3, JoinedEvents
    <2> QED BY <2>1 DEF Remains, Stays, Fresh
  <1> QED BY <1>1, <1>2, <1>3

LEMMA NonePaired == Paired(<<>>)
  <1>1. <<>> \in Seq({}) /\ DOMAIN <<>> = {}
    BY EmptySeq
  <1> QED BY <1>1 DEF Paired

LEMMA RemainsPaired ==
  ASSUME PInv, NEW t \in Threads, OneHook(t), Remains,
         hook'[t].at = "capture" => Paired(hook'[t].copy)
  PROVE  PInv'
  <1>1. RoundsPaired'
    BY NonePaired DEF PInv, RoundsPaired, Remains
  <1>2. SpoolPaired'
    BY DEF PInv, RoundsPaired, SpoolPaired, Remains, WritesRounds
  <1>3. HooksPaired'
    BY DEF PInv, HooksPaired, OneHook
  <1> QED BY <1>1, <1>2, <1>3 DEF PInv

LEMMA AddsPaired ==
  ASSUME IInv, PInv, NEW t \in Threads, OneHook(t), hook[t].at \in Knowing,
         hook'[t].at # "capture", NEW new, Paired(new), Adds(t, new)
  PROVE  PInv'
  <1>1. /\ DOMAIN rounds' = DOMAIN rounds /\ rounds'[hook[t].round].events = new
        /\ \A n \in DOMAIN rounds : n # hook[t].round => Stays(n)
    BY FillsOne DEF Adds
  <1>2. RoundsPaired'
    BY <1>1 DEF PInv, RoundsPaired, Stays
  <1>3. SpoolPaired'
    BY DEF PInv, SpoolPaired, Adds
  <1>4. HooksPaired'
    BY DEF PInv, HooksPaired, OneHook
  <1> QED BY <1>2, <1>3, <1>4 DEF PInv

LEMMA HostPaired ==
  ASSUME IInv, PInv, NEW t \in Threads, Host(t)
  PROVE  PInv'
  <1>1. ASSUME NEW kind \in {"defer", "call", "result", "answer", "finish"},
               NEW turn, NEW call, NEW orderly, Fire(t, kind, turn, call, orderly)
        PROVE  PInv'
    BY <1>1, Fires, Remaining, RemainsPaired
  <1>2. CASE FirePre(t)
    BY <1>1, <1>2 DEF FirePre
  <1>3. CASE FirePost(t)
    BY <1>1, <1>3 DEF FirePost
  <1>4. CASE FireEnd(t)
    BY <1>1, <1>4 DEF FireEnd
  <1>5. CASE \E c \in Calls : FireCall(t, c)
    BY <1>1, <1>5 DEF FireCall
  <1>6. CASE \E c \in Calls : FireResult(t, c)
    BY <1>1, <1>6 DEF FireResult
  <1> QED BY <1>2, <1>3, <1>4, <1>5, <1>6 DEF Host

LEMMA HookPaired ==
  ASSUME IInv, PInv, NEW t \in Threads, Hook(t)
  PROVE  PInv'
  <1>1. hook[t].at \in Knowing => Paired(rounds[hook[t].round].events)
    BY DEF IInv, HooksKnow, HookKnows, PInv, RoundsPaired
  <1>2. CASE PreDefers(t)
    <2>1. OneHook(t) /\ hook'[t].at = "create" /\ (Defer(active) \/ Idly)
      BY <1>2, PreDefersDoes DEF GoesTo
    <2> QED BY <2>1, Remaining, RemainsPaired
  <1>3. CASE PreCreates(t) \/ ToolEnters(t) \/ PostEnters(t)
    <2>1. /\ OneHook(t) /\ hook'[t].at \in {"prompt", "append", "write"}
          /\ Joined(hook[t].turn)
      BY <1>3, PreCreatesDoes, ToolEntersDoes, PostEntersDoes DEF LooksUp, GoesTo
    <2>2. Remains
      BY <2>1, Remaining
    <2> QED BY <2>1, <2>2, RemainsPaired
  <1>4. CASE PreRecords(t)
    <2>1. /\ OneHook(t) /\ hook[t].at = "prompt" /\ hook'[t].at # "capture"
          /\ Adds(t, WithUser(rounds[hook[t].round].events, hook[t].turn))
      BY <1>4, PreRecordsDoes DEF Leaves, GoesTo
    <2>2. Paired(WithUser(rounds[hook[t].round].events, hook[t].turn))
      BY <1>1, <2>1, UserPaired DEF Knowing
    <2> QED BY <2>1, <2>2, AddsPaired DEF Knowing
  <1>5. CASE PreContext(t)
    <2>1. /\ OneHook(t) /\ hook'[t].at # "capture" /\ UNCHANGED spool
          /\ DOMAIN rounds' = DOMAIN rounds
          /\ \A n \in DOMAIN rounds : rounds'[n].events = rounds[n].events
      BY <1>5, PreContextDoes DEF Leaves, Stays
    <2>2. Remains
      BY <2>1 DEF Remains, WritesRounds
    <2> QED BY <2>1, <2>2, RemainsPaired
  <1>6. CASE PreWithout(t)
    <2>1. OneHook(t) /\ hook'[t].at # "capture" /\ Idly
      BY <1>6, PreWithoutDoes DEF Leaves
    <2> QED BY <2>1, Remaining, RemainsPaired
  <1>7. CASE ToolAppends(t)
    <2>1. /\ OneHook(t) /\ hook[t].at = "append" /\ hook'[t].at # "capture"
          /\ Adds(t, Appended(rounds[hook[t].round].events, hook[t]))
      BY <1>7, ToolAppendsDoes DEF Leaves
    <2>2. Paired(Appended(rounds[hook[t].round].events, hook[t]))
      BY <1>1, <2>1, AppendedPaired DEF Knowing
    <2> QED BY <2>1, <2>2, AddsPaired DEF Knowing
  <1>8. CASE PostAppends(t)
    <2>1. PICK user, e : /\ user = WithUser(rounds[hook[t].round].events, hook[t].turn)
                         /\ e = Event("answer", <<>>, hook[t].turn)
      OBVIOUS
    <2>2. /\ OneHook(t) /\ hook[t].at = "write" /\ hook'[t].at # "capture"
          /\ Adds(t, user) \/ Adds(t, Append(user, e))
      BY <1>8, <2>1, PostAppendsDoes DEF GoesTo
    <2>3. Paired(user)
      BY <1>1, <2>1, <2>2, UserPaired DEF Knowing
    <2>4. e.kind # "result"
      BY <2>1 DEF Event
    <2>5. Paired(Append(user, e))
      BY <2>3, <2>4, PairedAppend
    <2> QED BY <2>2, <2>3, <2>5, AddsPaired DEF Knowing
  <1>9. CASE PostCopies(t)
    <2>1. /\ OneHook(t) /\ hook[t].at \in Knowing /\ Idly
          /\ hook'[t].copy = rounds[hook[t].round].events
      BY <1>9, PostCopiesDoes DEF GoesTo, Knowing
    <2> QED BY <1>1, <2>1, Remaining, RemainsPaired
  <1>10. CASE PostCaptures(t)
    <2>1. /\ OneHook(t) /\ hook[t].at = "capture" /\ hook'[t].at # "capture"
          /\ UNCHANGED rounds
          /\ \A c \in spool' : c \in spool \/ c.events = hook[t].copy
      BY <1>10, PostCapturesDoes DEF GoesTo
    <2>2. RoundsPaired' /\ HooksPaired'
      BY <2>1 DEF PInv, RoundsPaired, HooksPaired, OneHook
    <2>3. SpoolPaired'
      BY <2>1 DEF PInv, HooksPaired, SpoolPaired
    <2> QED BY <2>2, <2>3 DEF PInv
  <1>11. CASE PostCompletes(t)
    <2>1. /\ OneHook(t) /\ hook[t].at = "complete" /\ hook'[t].at # "capture"
          /\ UNCHANGED spool
          /\ Close(hook[t].round) \/ UNCHANGED <<rounds, active>>
      BY <1>11, PostCompletesDoes DEF Leaves
    <2>2. CASE UNCHANGED <<rounds, active>>
      BY <2>1, <2>2, RemainsPaired DEF Remains, WritesRounds
    <2>3. CASE Close(hook[t].round)
      <3>1. PICK n, c : /\ n = hook[t].round /\ n \in DOMAIN rounds /\ rounds' = c
                        /\ c = [rounds EXCEPT ![n].completed = TRUE, ![n].refs = 0]
        BY <2>1, <2>3 DEF Close, IInv, HooksKnow, HookKnows, Knowing
      <3>2. DOMAIN c = DOMAIN rounds /\ \A m \in DOMAIN rounds : Same(c, m)
        BY <3>1, ClosesEvents
      <3> QED BY <2>1, <3>1, <3>2, RemainsPaired DEF Remains, WritesRounds, Same
    <2> QED BY <2>1, <2>2, <2>3
  <1>12. CASE Finish(t)
    <2>1. OneHook(t) /\ hook'[t].at # "capture" /\ Defer(active)
      BY <1>12, FinishDoes DEF Leaves
    <2> QED BY <2>1, Remaining, RemainsPaired
  <1> QED BY <1>2, <1>3, <1>4, <1>5, <1>6, <1>7, <1>8, <1>9, <1>10, <1>11, <1>12 DEF Hook

LEMMA PairedInvariance == Spec => []PInv
  <1>1. Init => PInv
    BY EmptySeq DEF Init, PInv, RoundsPaired, HooksPaired, SpoolPaired, Idle
  <1>2. IInv /\ PInv /\ [Next]_vars => PInv'
    <2>1. PInv /\ UNCHANGED vars => PInv'
      BY DEF vars, PInv, RoundsPaired, HooksPaired, SpoolPaired
    <2> QED BY <2>1, HostPaired, HookPaired DEF Next
  <1> QED BY <1>1, <1>2, Invariance, PTL DEF Spec

\* runtime.py, on_post_tool_call: in whatever order its hooks run, and whatever
\* name a call goes by, a result is captured only behind the call it answers.
THEOREM ResultsArePaired == Spec => []ResultsPaired
  <1>1. PInv => ResultsPaired
    BY DEF PInv, SpoolPaired, Paired, ResultsPaired
  <1> QED BY <1>1, PairedInvariance, PTL

-----------------------------------------------------------------------------
(* Turns and the order of hooks.                                             *)

Of(events, refs, turn) ==
  (\A i \in DOMAIN events : events[i].turn = turn) /\ refs \in {0, turn}

RoundOf(n, turn) ==
  Of(rounds[n].events, rounds[n].refs, turn) /\ rounds[n].turn = Told(turn)

\* The turns are named, or every hook waited for those it follows.
Apart == NamedTurns \/ overlaps = 0

HostShaped ==
  /\ {"turn", "phase", "called", "returned", "named"} \subseteq DOMAIN host
  /\ host.turn \in 0 .. Turns
  /\ host.phase # "idle" \/ host.called # {} => host.turn \in 1 .. Turns
  /\ overlaps \in Nat

RoundsApart == Apart => \A n \in DOMAIN rounds : \E turn \in 1 .. Turns : RoundOf(n, turn)

HookApart(t) ==
  /\ hook[t].at # "idle" => hook[t].turn \in 1 .. Turns
  /\ Apart /\ hook[t].at \in Knowing => RoundOf(hook[t].round, hook[t].turn)
  /\ Apart /\ hook[t].at = "capture" => Of(hook[t].copy, hook[t].refs, hook[t].turn)

HooksApart == \A t \in Threads : HookApart(t)

\* Hooks that wait run alone, but for those of tools.
Tools == {"call", "result", "append"}

SideBySide ==
  \A t, u \in Threads :
    overlaps = 0 /\ t # u /\ hook[t].at # "idle" /\ hook[u].at # "idle"
      => hook[t].at \in Tools

\* Each is of the host's turn, and has the session's round.
InOrder(t) ==
  hook[t].at # "idle" =>
    /\ hook[t].turn = host.turn
    /\ hook[t].at \in Knowing => hook[t].round = active
    /\ hook[t].kind \in {"call", "result"} => hook[t].at \in Tools
    /\ hook[t].at = "capture" => hook[t].copy = rounds[hook[t].round].events
    /\ hook[t].at = "complete" => HandedIn(hook[t].round)

HooksInOrder == overlaps = 0 => \A t \in Threads : InOrder(t)

\* Past the start of a turn, the session's round is of that turn.
ActiveOf ==
  overlaps = 0 /\ active # 0 =>
    (\E t \in Threads : hook[t].at = "defer") \/ RoundOf(active, host.turn)

TInv ==
  /\ HostShaped /\ RoundsApart /\ HooksApart /\ SideBySide /\ HooksInOrder
  /\ ActiveOf /\ TurnsApart /\ EventsCaptured

LEMMA InitTurns == Init => TInv
  <1> SUFFICES ASSUME Init PROVE TInv
    OBVIOUS
  <1>1. DOMAIN rounds = {} /\ spool = {} /\ active = 0 /\ overlaps = 0
    BY EmptySeq DEF Init
  <1>2. \A t \in Threads : hook[t].at = "idle"
    BY DEF Init, Idle
  <1>3. HostShaped
    BY RoundsConstants DEF Init, HostShaped
  <1>4. RoundsApart /\ TurnsApart /\ EventsCaptured /\ ActiveOf
    BY <1>1 DEF RoundsApart, TurnsApart, EventsCaptured, ActiveOf
  <1>5. HooksApart /\ SideBySide /\ HooksInOrder
    BY <1>2 DEF HooksApart, HookApart, SideBySide, HooksInOrder, InOrder, Knowing
  <1> QED BY <1>3, <1>4, <1>5 DEF TInv

-----------------------------------------------------------------------------
(* What a step must do for the turns to stay apart.                          *)

SameHost == UNCHANGED <<host, overlaps>>

\* Every round stays, but for the hook's, to which it adds of its own turn, and
\* but for a new one.
TurnsStay(t) ==
  /\ \A n \in DOMAIN rounds :
       \/ Stays(n)
       \/ /\ n = hook[t].round /\ hook[t].at \in Knowing /\ n \in DOMAIN rounds'
          /\ rounds'[n].turn = rounds[n].turn
          /\ Of(rounds[n].events, rounds[n].refs, hook[t].turn)
               => Of(rounds'[n].events, rounds'[n].refs, hook[t].turn)
  /\ \A n \in DOMAIN rounds' :
       n \in DOMAIN rounds \/ rounds'[n] = Fresh(hook[t].turn)

\* Hooks that have the same round are of the same turn.
LEMMA RoundHasTurn ==
  ASSUME TInv, Apart, NEW t \in Threads, NEW u \in Threads,
         hook[t].at \in Knowing, hook[u].at \in Knowing, hook[t].round = hook[u].round
  PROVE  hook[t].turn = hook[u].turn
  <1>1. CASE NamedTurns
    BY <1>1 DEF TInv, HooksApart, HookApart, RoundOf, Told
  <1>2. CASE overlaps = 0
    BY <1>2 DEF TInv, HooksInOrder, InOrder, Knowing
  <1> QED BY <1>1, <1>2 DEF Apart

LEMMA NewRound ==
  ASSUME NEW turn, NEW n, SameHost, rounds'[n] = Fresh(turn)
  PROVE  RoundOf(n, turn)'
  <1>1. DOMAIN <<>> = {}
    BY EmptySeq
  <1> QED BY <1>1 DEF RoundOf, Of, Told, NamedTurns, SameHost, Fresh

LEMMA StayingRound ==
  ASSUME NEW turn, NEW n, SameHost, Stays(n), RoundOf(n, turn)
  PROVE  RoundOf(n, turn)'
  BY DEF RoundOf, Of, Told, NamedTurns, SameHost, Stays

LEMMA TurnOfRound ==
  ASSUME NEW t \in Threads, SameHost, TurnsStay(t),
         NEW n \in DOMAIN rounds, NEW turn, RoundOf(n, turn),
         hook[t].at \in Knowing /\ n = hook[t].round => turn = hook[t].turn
  PROVE  RoundOf(n, turn)'
  <1>1. CASE Stays(n)
    BY <1>1, StayingRound
  <1>2. CASE /\ n = hook[t].round /\ hook[t].at \in Knowing
             /\ rounds'[n].turn = rounds[n].turn
             /\ Of(rounds[n].events, rounds[n].refs, hook[t].turn)
                  => Of(rounds'[n].events, rounds'[n].refs, hook[t].turn)
    BY <1>2 DEF RoundOf, Of, Told, NamedTurns, SameHost
  <1> QED BY <1>1, <1>2 DEF TurnsStay

LEMMA TurnsOfRounds ==
  ASSUME IInv, TInv, NEW t \in Threads, hook[t].at # "idle", SameHost, TurnsStay(t), Apart
  PROVE  /\ RoundsApart'
         /\ \A u \in Threads : \A n, turn :
              hook[u].at \in Knowing /\ n = hook[u].round /\ turn = hook[u].turn
                => RoundOf(n, turn)'
  <1>2. ASSUME NEW u \in Threads, NEW n, NEW turn, hook[u].at \in Knowing,
               n = hook[u].round, turn = hook[u].turn
        PROVE  RoundOf(n, turn)'
    <2>1. n \in DOMAIN rounds /\ RoundOf(n, turn)
      BY <1>2 DEF IInv, HooksKnow, HookKnows, TInv, HooksApart, HookApart
    <2> QED BY <1>2, <2>1, RoundHasTurn, TurnOfRound
  <1>3. ASSUME NEW n \in DOMAIN rounds' PROVE \E turn \in 1 .. Turns : RoundOf(n, turn)'
    <2>1. hook[t].turn \in 1 .. Turns
      BY DEF TInv, HooksApart, HookApart
    <2>2. CASE n \notin DOMAIN rounds
      <3>1. PICK turn : turn = hook[t].turn
        OBVIOUS
      <3> QED BY <2>1, <2>2, <3>1, NewRound DEF TurnsStay
    <2>3. CASE n \in DOMAIN rounds /\ hook[t].at \in Knowing /\ n = hook[t].round
      <3>1. PICK turn : turn = hook[t].turn
        OBVIOUS
      <3> QED BY <1>2, <2>1, <2>3, <3>1
    <2>4. CASE n \in DOMAIN rounds /\ ~(hook[t].at \in Knowing /\ n = hook[t].round)
      <3>1. PICK turn \in 1 .. Turns : RoundOf(n, turn)
        BY <2>4 DEF TInv, RoundsApart
      <3> QED BY <2>4, <3>1, TurnOfRound
    <2> QED BY <2>2, <2>3, <2>4
  <1>4. RoundsApart'
    BY <1>3 DEF RoundsApart
  <1> QED BY <1>2, <1>4

LEMMA TurnsOfHooks ==
  ASSUME IInv, TInv, NEW t \in Threads, hook[t].at # "idle", SameHost, TurnsStay(t),
         OneHook(t), HookApart(t)'
  PROVE  RoundsApart' /\ HooksApart'
  <1>1. Apart' <=> Apart
    BY DEF Apart, NamedTurns, SameHost
  <1>2. RoundsApart'
    BY <1>1, TurnsOfRounds DEF RoundsApart
  <1>3. ASSUME NEW u \in Threads, u # t PROVE HookApart(u)'
    <2>1. hook'[u] = hook[u] /\ HookApart(u)
      BY <1>3 DEF OneHook, TInv, HooksApart
    <2>2. ASSUME Apart, hook[u].at \in Knowing PROVE RoundOf(hook[u].round, hook[u].turn)'
      <3>1. PICK n, turn : n = hook[u].round /\ turn = hook[u].turn
        OBVIOUS
      <3>2. RoundOf(n, turn)'
        BY <2>2, <3>1, TurnsOfRounds
      <3> QED BY <2>1, <3>1, <3>2
    <2> QED BY <1>1, <2>1, <2>2 DEF HookApart, Of
  <1> QED BY <1>2, <1>3 DEF HooksApart

\* A hook that has the round it had.
LEMMA TurnOfHook ==
  ASSUME IInv, TInv, NEW t \in Threads, hook[t].at \in Knowing, SameHost, TurnsStay(t),
         OneHook(t),
         \/ hook'[t].at = "idle"
         \/ /\ hook'[t].turn = hook[t].turn /\ hook'[t].round = hook[t].round
            /\ Apart /\ hook'[t].at = "capture"
                 => Of(hook'[t].copy, hook'[t].refs, hook[t].turn)
  PROVE  HookApart(t)'
  <1>1. Apart' <=> Apart
    BY DEF Apart, NamedTurns, SameHost
  <1>2. hook[t].turn \in 1 .. Turns
    BY DEF TInv, HooksApart, HookApart, Knowing
  <1>3. CASE hook'[t].at = "idle"
    BY <1>3 DEF HookApart, Knowing
  <1>4. CASE hook'[t].at # "idle"
    <2>1. PICK n, turn : n = hook[t].round /\ turn = hook[t].turn
      OBVIOUS
    <2>2. Apart => RoundOf(n, turn)'
      BY <2>1, TurnsOfRounds DEF Knowing
    <2> QED BY <1>1, <1>2, <1>4, <2>1, <2>2 DEF HookApart, Of
  <1> QED BY <1>3, <1>4

\* What is written is of one turn.
LEMMA TurnsOfSpool ==
  ASSUME IInv, TInv, NEW t \in Threads, SameHost,
         \A c \in spool' :
           \/ c \in spool
           \/ \E n \in DOMAIN rounds : c.events = rounds[n].events /\ c.refs = rounds[n].refs
           \/ hook[t].at = "capture" /\ c.events = hook[t].copy /\ c.refs = hook[t].refs
  PROVE  TurnsApart'
  <1>1. SUFFICES ASSUME NEW c \in spool', Apart PROVE OneTurn(c)
    BY DEF TurnsApart, OneTurn, Apart, NamedTurns, SameHost, TInv, HostShaped
  <1>2. CASE c \in spool
    BY <1>1, <1>2 DEF TInv, TurnsApart, Apart, HostShaped
  <1>3. CASE \E n \in DOMAIN rounds : c.events = rounds[n].events /\ c.refs = rounds[n].refs
    BY <1>1, <1>3 DEF TInv, RoundsApart, RoundOf, Of, OneTurn
  <1>4. CASE hook[t].at = "capture" /\ c.events = hook[t].copy /\ c.refs = hook[t].refs
    BY <1>1, <1>4 DEF TInv, HooksApart, HookApart, Of, OneTurn
  <1> QED BY <1>1, <1>2, <1>3, <1>4


-----------------------------------------------------------------------------
(* What a step must do for the hooks to stay in order.                       *)

LEMMA SideKeeps ==
  ASSUME TInv, NEW t \in Threads, OneHook(t), SameHost, hook[t].at # "idle",
         hook[t].at \in Tools => hook'[t].at \in Tools \cup {"idle"}
  PROVE  SideBySide'
  BY DEF TInv, SideBySide, OneHook, SameHost

\* Beside a running hook there are only hooks of tools, and only beside another.
LEMMA Beside ==
  ASSUME TInv, overlaps = 0, NEW t \in Threads, hook[t].at # "idle",
         NEW u \in Threads, u # t, hook[u].at # "idle"
  PROVE  hook[t].at \in Tools /\ hook[u].at \in Tools
  BY DEF TInv, SideBySide

LEMMA OrderKeeps ==
  ASSUME TInv, NEW t \in Threads, OneHook(t), SameHost, hook[t].at # "idle",
         overlaps = 0 =>
           /\ InOrder(t)'
           /\ \A u \in Threads : u # t /\ hook[u].at = "append" => active' = active
  PROVE  HooksInOrder'
  <1> SUFFICES ASSUME overlaps = 0, NEW u \in Threads, u # t PROVE InOrder(u)'
    BY DEF HooksInOrder, SameHost
  <1>1. hook'[u] = hook[u] /\ InOrder(u) /\ host' = host
    BY DEF OneHook, TInv, HooksInOrder, SameHost
  <1>2. hook[u].at # "idle" => hook[u].at \in Tools
    BY Beside
  <1> QED BY <1>1, <1>2 DEF InOrder, Tools, Knowing

LEMMA ActiveTurn ==
  ASSUME TInv, overlaps = 0, active # 0, NEW t \in Threads, hook[t].at \notin {"idle", "defer"}
  PROVE  RoundOf(active, host.turn)
  <1>1. ~\E u \in Threads : hook[u].at = "defer"
    BY Beside DEF Tools
  <1> QED BY <1>1 DEF TInv, ActiveOf

LEMMA ActiveKeeps ==
  ASSUME IInv, TInv, NEW t \in Threads, hook[t].at \notin {"idle", "defer"}, SameHost,
         TurnsStay(t), active' \in {0, active}
  PROVE  ActiveOf'
  <1> SUFFICES ASSUME overlaps = 0, active' # 0 PROVE RoundOf(active, host.turn)'
    BY DEF ActiveOf, SameHost
  <1>1. PICK n, turn : n = active /\ turn = host.turn
    OBVIOUS
  <1>2. n \in DOMAIN rounds /\ RoundOf(n, turn)
    BY <1>1, ActiveTurn, Indices DEF IInv, CurrentOpen
  <1>3. hook[t].turn = turn
    BY <1>1 DEF TInv, HooksInOrder, InOrder
  <1>4. RoundOf(n, turn)'
    BY <1>2, <1>3, TurnOfRound
  <1> QED BY <1>1, <1>4 DEF SameHost

LEMMA HandedStays ==
  ASSUME NEW n, HandedIn(n), spool \subseteq spool', refused \subseteq refused',
         rounds'[n].events = rounds[n].events
  PROVE  HandedIn(n)'
  BY DEF HandedIn, Captures

LEMMA EventsKeep ==
  ASSUME IInv, IInv', TInv, SameHost, spool \subseteq spool', refused \subseteq refused',
         \A n \in DOMAIN rounds' : overlaps = 0 /\ n # active' =>
           \/ HandedIn(n)'
           \/ /\ n \in DOMAIN rounds /\ n # active
              /\ rounds'[n].events = rounds[n].events
  PROVE  EventsCaptured'
  <1> SUFFICES ASSUME overlaps = 0, NEW n \in DOMAIN rounds', rounds'[n].completed
               PROVE  HandedIn(n)'
    BY DEF EventsCaptured, HandedIn, SameHost
  <1>1. n # active'
    BY DEF IInv, CurrentOpen
  <1>2. CASE n \in DOMAIN rounds /\ n # active /\ rounds'[n].events = rounds[n].events
    <2>1. HandedIn(n)
      BY <1>2 DEF TInv, EventsCaptured, HandedIn, IInv, CurrentOpen
    <2> QED BY <1>2, <2>1, HandedStays
  <1> QED BY <1>1, <1>2

LEMMA HostKept == TInv /\ SameHost => HostShaped'
  BY DEF TInv, HostShaped, SameHost

-----------------------------------------------------------------------------
(* The steps of the hooks.                                                   *)

\* A step on the hook's round, or on the hook alone.
LEMMA WorksOn ==
  ASSUME IInv, IInv', TInv, NEW t \in Threads, hook[t].at \in Knowing, SameHost,
         TurnsStay(t), UNCHANGED <<active, spool, refused>>, OneHook(t), HookApart(t)',
         overlaps = 0 => InOrder(t)', hook[t].at \in Tools => hook'[t].at = "idle"
  PROVE  TInv'
  <1>1. hook[t].at \notin {"idle", "defer"}
    BY DEF Knowing
  <1>2. RoundsApart' /\ HooksApart'
    BY <1>1, TurnsOfHooks
  <1>3. SideBySide' /\ HooksInOrder' /\ ActiveOf'
    BY <1>1, SideKeeps, OrderKeeps, ActiveKeeps
  <1>4. TurnsApart'
    BY TurnsOfSpool
  <1>5. EventsCaptured'
    <2>1. ASSUME overlaps = 0, NEW n \in DOMAIN rounds', n # active'
          PROVE  n \in DOMAIN rounds /\ rounds'[n].events = rounds[n].events
      <3>1. hook[t].round = active
        BY <1>1, <2>1 DEF TInv, HooksInOrder, InOrder
      <3>2. n \in DOMAIN rounds
        BY <2>1 DEF IInv, CurrentOpen, TurnsStay, Fresh
      <3> QED BY <2>1, <3>1, <3>2 DEF TurnsStay, Stays
    <2> QED BY <2>1, EventsKeep
  <1> QED BY <1>2, <1>3, <1>4, <1>5, HostKept DEF TInv

\* The hook adds events of its turn.
LEMMA OfAppend ==
  ASSUME NEW events, \E S : events \in Seq(S), NEW e, NEW turn, e.turn = turn,
         NEW refs, Of(events, refs, turn)
  PROVE  Of(Append(events, e), refs, turn)
  <1>1. PICK S : events \in Seq(S)
    OBVIOUS
  <1>2. events \in Seq(S \cup {e})
    BY <1>1, SeqMonotonic
  <1>3. PICK more : more = Append(events, e)
    OBVIOUS
  <1>4. /\ more \in Seq(S \cup {e}) /\ Len(more) = Len(events) + 1
        /\ more[Len(events) + 1] = e
        /\ \A i \in 1 .. Len(events) : more[i] = events[i]
        /\ Len(events) \in Nat /\ DOMAIN events = 1 .. Len(events)
        /\ DOMAIN more = 1 .. Len(more)
    BY <1>2, <1>3, AppendProperties, LenProperties
  <1>5. \A i \in DOMAIN more : i \in DOMAIN events \/ i = Len(events) + 1
    BY <1>4
  <1> QED BY <1>3, <1>4, <1>5 DEF Of

LEMMA OfUser ==
  ASSUME NEW events, Paired(events), NEW turn, NEW refs, Of(events, refs, turn)
  PROVE  Of(WithUser(events, turn), refs, turn)
  <1>1. PICK e : e = Event("user", <<>>, turn)
    OBVIOUS
  <1>2. e.turn = turn
    BY <1>1 DEF Event
  <1> QED BY <1>1, <1>2, OfAppend DEF WithUser, Paired

LEMMA OfAppended ==
  ASSUME NEW events, Paired(events), NEW h, NEW refs, Of(events, refs, h.turn)
  PROVE  Of(Appended(events, h), refs, h.turn)
  <1>1. PICK c, r, turn : /\ c = Event("call", h.name, h.turn)
                          /\ r = Event("result", h.name, h.turn)
                          /\ turn = h.turn
    OBVIOUS
  <1>2. c.turn = turn /\ r.turn = turn /\ c.kind # "result"
    BY <1>1 DEF Event
  <1>3. PICK call : call = IF h.name \in Named(events, "call") THEN events
                           ELSE Append(events, c)
    OBVIOUS
  <1>4. Paired(call) /\ Of(call, refs, turn)
    <2>1. Paired(Append(events, c))
      BY <1>2, PairedAppend
    <2>2. \E S : events \in Seq(S)
      BY DEF Paired
    <2>3. Of(Append(events, c), refs, turn)
      BY <1>1, <1>2, <2>2, OfAppend
    <2> QED BY <1>1, <1>3, <2>1, <2>3
  <1>5. Of(Append(call, r), refs, turn)
    BY <1>2, <1>4, OfAppend DEF Paired
  <1> QED BY <1>1, <1>3, <1>4, <1>5 DEF Appended

\* pre_llm_call and the tool hooks, when they record; post_llm_call, the answer.
LEMMA AddsTurns ==
  ASSUME IInv, IInv', TInv, NEW t \in Threads, SameHost,
         hook[t].at \in {"prompt", "append", "write"}, NEW new, Adds(t, new),
         Of(rounds[hook[t].round].events, rounds[hook[t].round].refs, hook[t].turn)
           => Of(new, rounds[hook[t].round].refs, hook[t].turn),
         \/ Leaves(t)
         \/ /\ hook[t].at # "append" /\ hook'[t].round = hook[t].round
            /\ GoesTo(t, "prompt", "context") \/ GoesTo(t, "write", "snapshot")
  PROVE  TInv'
  <1>1. hook[t].at \in Knowing /\ OneHook(t)
    BY DEF Knowing, Leaves, GoesTo
  <1>2. TurnsStay(t)
    <2>1. /\ DOMAIN rounds' = DOMAIN rounds
          /\ rounds'[hook[t].round].events = new
          /\ rounds'[hook[t].round].turn = rounds[hook[t].round].turn
          /\ rounds'[hook[t].round].refs = rounds[hook[t].round].refs
          /\ \A n \in DOMAIN rounds : n # hook[t].round => Stays(n)
      BY <1>1, FillsOne DEF Adds
    <2> QED BY <1>1, <2>1 DEF TurnsStay
  <1>3. HookApart(t)'
    BY <1>1, <1>2, TurnOfHook DEF Leaves, GoesTo
  <1>4. overlaps = 0 => InOrder(t)'
    BY <1>1 DEF TInv, HooksInOrder, InOrder, Leaves, GoesTo, Adds, SameHost, Tools
  <1>5. hook[t].at \in Tools => hook'[t].at = "idle"
    BY DEF Tools, Leaves
  <1>6. UNCHANGED <<active, spool, refused>>
    BY DEF Adds
  <1> QED BY <1>1, <1>2, <1>3, <1>4, <1>5, <1>6, WorksOn

LEMMA AddingTurns ==
  ASSUME IInv, IInv', PInv, TInv, NEW t \in Threads, SameHost,
         PreRecords(t) \/ ToolAppends(t) \/ PostAppends(t)
  PROVE  TInv'
  <1>1. hook[t].at \in Knowing => Paired(rounds[hook[t].round].events)
    BY DEF IInv, HooksKnow, HookKnows, PInv, RoundsPaired
  <1>2. PICK events, refs, turn :
          /\ events = rounds[hook[t].round].events /\ refs = rounds[hook[t].round].refs
          /\ turn = hook[t].turn
    OBVIOUS
  <1>3. CASE PreRecords(t)
    <2>1. /\ hook[t].at = "prompt" /\ Adds(t, WithUser(events, turn))
          /\ \/ Leaves(t)
             \/ GoesTo(t, "prompt", "context") /\ hook'[t].round = hook[t].round
      BY <1>2, <1>3, PreRecordsDoes
    <2>2. Of(events, refs, turn) => Of(WithUser(events, turn), refs, turn)
      BY <1>1, <1>2, <2>1, OfUser DEF Knowing
    <2> QED BY <1>2, <2>1, <2>2, AddsTurns
  <1>4. CASE ToolAppends(t)
    <2>1. hook[t].at = "append" /\ Adds(t, Appended(events, hook[t])) /\ Leaves(t)
      BY <1>2, <1>4, ToolAppendsDoes
    <2>2. Of(events, refs, turn) => Of(Appended(events, hook[t]), refs, turn)
      BY <1>1, <1>2, <2>1, OfAppended DEF Knowing
    <2> QED BY <1>2, <2>1, <2>2, AddsTurns
  <1>5. CASE PostAppends(t)
    <2>1. PICK user, e : user = WithUser(events, turn) /\ e = Event("answer", <<>>, turn)
      OBVIOUS
    <2>2. /\ GoesTo(t, "write", "snapshot") /\ hook'[t].round = hook[t].round
          /\ Adds(t, user) \/ Adds(t, Append(user, e))
      BY <1>2, <1>5, <2>1, PostAppendsDoes
    <2>3. hook[t].at = "write"
      BY <2>2 DEF GoesTo
    <2>4. Paired(user)
      BY <1>1, <1>2, <2>1, <2>3, UserPaired DEF Knowing
    <2>5. Of(events, refs, turn) => Of(user, refs, turn)
      BY <1>1, <1>2, <2>1, <2>3, OfUser DEF Knowing
    <2>6. e.turn = turn
      BY <2>1 DEF Event
    <2>7. Of(events, refs, turn) => Of(Append(user, e), refs, turn)
      BY <2>4, <2>5, <2>6, OfAppend DEF Paired
    <2> QED BY <1>2, <2>2, <2>3, <2>5, <2>7, AddsTurns
  <1> QED BY <1>3, <1>4, <1>5

\* The context of its own turn, or none.
LEMMA ContextTurns ==
  ASSUME IInv, IInv', TInv, NEW t \in Threads, SameHost, PreContext(t) \/ PreWithout(t)
  PROVE  TInv'
  <1>1. Leaves(t) /\ hook[t].at = "context" /\ UNCHANGED <<active, spool, refused>>
    BY PreContextDoes, PreWithoutDoes DEF Idly
  <1>2. hook[t].at \in Knowing /\ OneHook(t)
    BY <1>1 DEF Knowing, Leaves
  <1>3. TurnsStay(t)
    <2>1. CASE PreWithout(t)
      BY <2>1, PreWithoutDoes DEF TurnsStay, Stays, Idly
    <2>2. CASE PreContext(t)
      BY <1>2, <2>2, PreContextDoes DEF TurnsStay, Of
    <2> QED BY <2>1, <2>2
  <1>4. HookApart(t)'
    BY <1>1, <1>2, <1>3, TurnOfHook DEF Leaves
  <1>5. InOrder(t)' /\ hook'[t].at = "idle"
    BY <1>1 DEF InOrder, Leaves
  <1> QED BY <1>1, <1>2, <1>3, <1>4, <1>5, WorksOn

LEMMA CopiesTurns ==
  ASSUME IInv, IInv', TInv, NEW t \in Threads, SameHost, PostCopies(t)
  PROVE  TInv'
  <1>1. /\ GoesTo(t, "snapshot", "capture") /\ hook'[t].round = hook[t].round /\ Idly
        /\ hook'[t].copy = rounds[hook[t].round].events
        /\ hook'[t].refs = rounds[hook[t].round].refs
    BY PostCopiesDoes
  <1>2. hook[t].at = "snapshot" /\ hook[t].at \in Knowing /\ OneHook(t)
    BY <1>1 DEF GoesTo, Knowing
  <1>3. TurnsStay(t)
    BY <1>1 DEF TurnsStay, Stays, Idly
  <1>4. Apart => Of(hook'[t].copy, hook'[t].refs, hook[t].turn)
    BY <1>1, <1>2 DEF TInv, HooksApart, HookApart, RoundOf
  <1>5. HookApart(t)'
    BY <1>1, <1>2, <1>3, <1>4, TurnOfHook DEF GoesTo
  <1>6. overlaps = 0 => InOrder(t)'
    BY <1>1, <1>2 DEF TInv, HooksInOrder, InOrder, GoesTo, Idly, SameHost, Tools
  <1> QED BY <1>1, <1>2, <1>3, <1>5, <1>6, WorksOn DEF Idly, Tools

\* The hook looks up its round.  A hook that waited finds that of its turn; if
\* there is none, no other hook has a round.
LEMMA FindsRound ==
  ASSUME IInv, TInv, overlaps = 0, NEW t \in Threads, hook[t].at \notin {"idle", "defer"},
         active # 0
  PROVE  Matches(active, hook[t].turn)
  <1>1. RoundOf(active, host.turn) /\ hook[t].turn = host.turn
    BY ActiveTurn DEF TInv, HooksInOrder, InOrder
  <1>2. Live(active)
    BY Indices DEF Live, IInv, CurrentOpen
  <1> QED BY <1>1, <1>2 DEF Matches, RoundOf, Told

LEMMA LooksUpTurns ==
  ASSUME IInv, IInv', TInv, NEW t \in Threads, SameHost, NEW from, NEW to, LooksUp(t, from, to),
         from \in {"create", "call", "result", "answer"}, to \in {"prompt", "append", "write"},
         from \in Tools <=> to \in Tools
  PROVE  TInv'
  <1>1. PICK turn, found : turn = hook[t].turn /\ found = active'
    OBVIOUS
  <1>2. /\ OneHook(t) /\ hook[t].at = from /\ hook'[t].at = to
        /\ hook'[t].kind = hook[t].kind /\ hook'[t].turn = turn /\ hook'[t].round = found
        /\ Joined(turn) /\ hook[t].at \notin {"idle", "defer"}
    BY <1>1 DEF LooksUp, GoesTo
  <1>3. /\ \A n \in DOMAIN rounds : Stays(n)
        /\ \A n \in DOMAIN rounds' :
             \/ n \in DOMAIN rounds
             \/ n = Round(turn) /\ rounds'[n] = Fresh(turn)
        /\ WritesRounds
        /\ found = Round(turn)
        /\ IF Matches(active, turn) THEN UNCHANGED rounds
           ELSE \A n \in DOMAIN rounds : n = active => HandedIn(n)'
    BY <1>1, <1>2, JoinedEvents
  <1>4. TurnsStay(t)
    BY <1>1, <1>3 DEF TurnsStay
  <1>5. overlaps = 0 /\ active # 0 => Matches(active, turn) /\ found = active
    BY <1>1, <1>2, <1>3, FindsRound DEF Round
  <1>6. Apart => RoundOf(found, turn)'
    <2>1. CASE Matches(active, turn)
      <3>1. found = active /\ found \in DOMAIN rounds
        BY <1>3, <2>1, Indices DEF Round, Matches, Live, IInv, CurrentOpen
      <3>2. Apart => RoundOf(found, turn)
        <4>1. CASE NamedTurns
          BY <2>1, <3>1, <4>1 DEF Matches, TInv, RoundsApart, RoundOf, Told, Apart
        <4>2. CASE overlaps = 0
          <5>1. active # 0 /\ hook[t].turn = host.turn
            BY <1>2, <2>1, <4>2 DEF Matches, Live, TInv, HooksInOrder, InOrder
          <5> QED BY <1>1, <1>2, <3>1, <4>2, <5>1, ActiveTurn
        <4> QED BY <4>1, <4>2 DEF Apart
      <3> QED BY <1>3, <3>1, <3>2, StayingRound
    <2>2. CASE ~Matches(active, turn)
      <3>1. found \in DOMAIN rounds' /\ found \notin DOMAIN rounds
        BY <1>2, <1>3, <2>2, Indices, JoinedKeeps DEF Round
      <3> QED BY <1>3, <3>1, NewRound
    <2> QED BY <2>1, <2>2
  <1>7. HookApart(t)'
    <2>1. Apart' <=> Apart
      BY DEF Apart, NamedTurns, SameHost
    <2>2. turn \in 1 .. Turns
      BY <1>1, <1>2 DEF TInv, HooksApart, HookApart
    <2> QED BY <1>2, <1>6, <2>1, <2>2 DEF HookApart
  <1>8. RoundsApart' /\ HooksApart'
    BY <1>2, <1>4, <1>7, TurnsOfHooks
  <1>9. SideBySide'
    BY <1>2, SideKeeps
  <1>10. overlaps = 0 => InOrder(t)'
    BY <1>1, <1>2 DEF TInv, HooksInOrder, InOrder, SameHost
  <1>11. HooksInOrder'
    <2>1. ASSUME overlaps = 0, NEW u \in Threads, u # t, hook[u].at = "append"
          PROVE  active' = active
      <3>1. hook[u].round \in DOMAIN rounds /\ hook[u].round = active
        BY <2>1 DEF IInv, HooksKnow, HookKnows, TInv, HooksInOrder, InOrder, Knowing
      <3>2. active # 0
        BY <3>1, Indices
      <3> QED BY <1>1, <1>5, <2>1, <3>2
    <2> QED BY <1>2, <1>10, <2>1, OrderKeeps
  <1>12. ActiveOf'
    <2>1. overlaps = 0 => turn = host.turn /\ RoundOf(found, turn)'
      BY <1>1, <1>2, <1>6 DEF TInv, HooksInOrder, InOrder, Apart
    <2> QED BY <1>1, <2>1 DEF ActiveOf, SameHost
  <1>13. TurnsApart'
    BY <1>3, TurnsOfSpool DEF WritesRounds
  <1>14. EventsCaptured'
    <2>1. spool \subseteq spool' /\ refused \subseteq refused'
      BY <1>2, JoinedKeeps
    <2>2. ASSUME NEW n \in DOMAIN rounds', n # active'
          PROVE  \/ HandedIn(n)'
                 \/ /\ n \in DOMAIN rounds /\ n # active
                    /\ rounds'[n].events = rounds[n].events
      <3>1. n \in DOMAIN rounds /\ Stays(n)
        BY <1>1, <1>3, <2>2
      <3>2. n = active => ~Matches(active, turn)
        BY <1>1, <1>3, <2>2 DEF Round
      <3> QED BY <1>3, <3>1, <3>2 DEF Stays
    <2> QED BY <2>1, <2>2, EventsKeep
  <1> QED BY <1>8, <1>9, <1>11, <1>12, <1>13, <1>14, HostKept DEF TInv

LEMMA EnteringTurns ==
  ASSUME IInv, IInv', TInv, NEW t \in Threads, SameHost,
         PreCreates(t) \/ ToolEnters(t) \/ PostEnters(t)
  PROVE  TInv'
  <1>1. CASE PreCreates(t)
    BY <1>1, PreCreatesDoes, LooksUpTurns DEF Tools
  <1>2. CASE ToolEnters(t)
    BY <1>2, ToolEntersDoes, LooksUpTurns DEF Tools
  <1>3. CASE PostEnters(t)
    BY <1>3, PostEntersDoes, LooksUpTurns DEF Tools
  <1> QED BY <1>1, <1>2, <1>3

\* The session's round is deferred, or stays; the hook has none.
LEMMA DefersTurns ==
  ASSUME IInv, IInv', TInv, NEW t \in Threads, SameHost, Defer(active) \/ Idly, OneHook(t),
         hook[t].at \notin Tools \cup Knowing \cup {"idle"},
         \/ hook'[t].at = "idle"
         \/ /\ hook'[t].at = "create"
            /\ hook'[t].turn = hook[t].turn /\ hook'[t].kind = hook[t].kind,
         ActiveOf'
  PROVE  TInv'
  <1>1. /\ \A n \in DOMAIN rounds : Stays(n)
        /\ DOMAIN rounds' = DOMAIN rounds /\ WritesRounds
        /\ spool \subseteq spool' /\ refused \subseteq refused'
        /\ active' = active \/ \A n \in DOMAIN rounds : n = active => HandedIn(n)'
    <2>1. CASE Defer(active)
      BY <2>1, DeferEvents, DeferKeeps
    <2>2. CASE Idly
      BY <2>2 DEF Idly, Stays, WritesRounds
    <2> QED BY <2>1, <2>2
  <1>2. TurnsStay(t)
    BY <1>1 DEF TurnsStay
  <1>3. HookApart(t)'
    BY DEF HookApart, TInv, HooksApart, Knowing
  <1>4. RoundsApart' /\ HooksApart'
    BY <1>2, <1>3, TurnsOfHooks
  <1>5. SideBySide'
    BY SideKeeps
  <1>6. overlaps = 0 => InOrder(t)'
    BY DEF TInv, HooksInOrder, InOrder, SameHost, Knowing
  <1>7. HooksInOrder'
    <2>1. ASSUME overlaps = 0, NEW u \in Threads, u # t, hook[u].at = "append"
          PROVE  FALSE
      BY <2>1, Beside
    <2> QED BY <1>6, <2>1, OrderKeeps
  <1>8. TurnsApart'
    BY <1>1, TurnsOfSpool DEF WritesRounds
  <1>9. EventsCaptured'
    BY <1>1, EventsKeep DEF Stays
  <1> QED BY <1>4, <1>5, <1>7, <1>8, <1>9, HostKept DEF TInv

\* pre_llm_call defers the round of another turn, and keeps that of its own.
LEMMA PreDefersTurns ==
  ASSUME IInv, IInv', TInv, NEW t \in Threads, SameHost, PreDefers(t)
  PROVE  TInv'
  <1>1. GoesTo(t, "defer", "create") /\ (Defer(active) \/ Idly)
    BY PreDefersDoes
  <1>2. ASSUME overlaps = 0, active' # 0 PROVE RoundOf(active, host.turn)'
    <2>1. ~Defer(active) /\ Idly
      BY <1>1, <1>2, DeferEvents
    <2>2. Live(active)
      BY <1>2, <2>1, Indices DEF Live, IInv, CurrentOpen, Idly
    <2>3. NamedTurns /\ rounds[active].turn = hook[t].turn
      BY <2>1, <2>2 DEF PreDefers
    <2>4. hook[t].turn = host.turn
      BY <1>1, <1>2 DEF GoesTo, TInv, HooksInOrder, InOrder
    <2>5. active \in DOMAIN rounds
      BY <1>2, <2>1, Indices DEF IInv, CurrentOpen, Idly
    <2>6. RoundOf(active, host.turn)
      BY <1>2, <2>3, <2>4, <2>5 DEF TInv, RoundsApart, Apart, RoundOf, Told
    <2> QED BY <2>1, <2>6 DEF RoundOf, Of, Told, NamedTurns, Idly, SameHost
  <1>3. ActiveOf'
    BY <1>2 DEF ActiveOf, SameHost
  <1> QED BY <1>1, <1>3, DefersTurns DEF GoesTo, Tools, Knowing

LEMMA FinishTurns ==
  ASSUME IInv, IInv', TInv, NEW t \in Threads, SameHost, Finish(t)
  PROVE  TInv'
  <1>1. Leaves(t) /\ hook[t].at = "finish" /\ Defer(active)
    BY FinishDoes
  <1>2. ActiveOf'
    BY <1>1, DeferEvents DEF ActiveOf
  <1> QED BY <1>1, <1>2, DefersTurns DEF Leaves, Tools, Knowing

LEMMA CapturesTurns ==
  ASSUME IInv, IInv', TInv, NEW t \in Threads, SameHost, PostCaptures(t)
  PROVE  TInv'
  <1>1. /\ OneHook(t) /\ hook[t].at = "capture" /\ hook'[t].at = "complete"
        /\ hook'[t].kind = hook[t].kind /\ hook'[t].turn = hook[t].turn
        /\ hook'[t].round = hook[t].round /\ UNCHANGED <<rounds, active>>
        /\ \/ /\ UNCHANGED refused
              /\ \E c : /\ spool' = spool \cup {c} /\ c.round = hook[t].round
                        /\ c.events = hook[t].copy /\ c.refs = hook[t].refs
           \/ refused' = refused \cup {hook[t].round} /\ UNCHANGED spool
    BY PostCapturesDoes DEF GoesTo
  <1>2. hook[t].at \in Knowing \ (Tools \cup {"idle", "defer"})
    BY <1>1 DEF Knowing, Tools
  <1>3. TurnsStay(t)
    BY <1>1 DEF TurnsStay, Stays
  <1>4. HookApart(t)'
    BY <1>1, <1>2, <1>3, TurnOfHook
  <1>5. RoundsApart' /\ HooksApart'
    BY <1>1, <1>3, <1>4, TurnsOfHooks
  <1>6. SideBySide' /\ ActiveOf'
    BY <1>1, <1>2, <1>3, SideKeeps, ActiveKeeps
  <1>7. overlaps = 0 => InOrder(t)'
    <2>1. ASSUME overlaps = 0 PROVE HandedIn(hook[t].round)'
      <3>1. PICK n : n = hook[t].round
        OBVIOUS
      <3>2. hook[t].copy = rounds[n].events
        BY <1>1, <2>1, <3>1 DEF TInv, HooksInOrder, InOrder
      <3>3. HandedIn(n)'
        BY <1>1, <3>1, <3>2 DEF HandedIn, Captures
      <3> QED BY <1>1, <3>1, <3>3
    <2> QED BY <1>1, <1>2, <2>1 DEF TInv, HooksInOrder, InOrder, SameHost
  <1>8. HooksInOrder'
    BY <1>1, <1>7, OrderKeeps
  <1>9. TurnsApart'
    BY <1>1, TurnsOfSpool
  <1>10. EventsCaptured'
    BY <1>1, EventsKeep
  <1> QED BY <1>5, <1>6, <1>8, <1>9, <1>10, HostKept DEF TInv

LEMMA CompletesTurns ==
  ASSUME IInv, IInv', TInv, NEW t \in Threads, SameHost, PostCompletes(t)
  PROVE  TInv'
  <1>1. /\ OneHook(t) /\ hook[t].at = "complete" /\ hook'[t].at = "idle"
        /\ Close(hook[t].round) \/ UNCHANGED <<rounds, active>>
        /\ UNCHANGED <<spool, refused>>
    BY PostCompletesDoes DEF Leaves
  <1>2. hook[t].at \in Knowing \ (Tools \cup {"idle", "defer"})
    BY <1>1 DEF Knowing, Tools
  <1>3. PICK n : n = hook[t].round /\ n \in DOMAIN rounds
    BY <1>2 DEF IInv, HooksKnow, HookKnows
  <1>4. /\ \A m \in DOMAIN rounds : Stays(m)
        /\ DOMAIN rounds' = DOMAIN rounds
        /\ active' = active \/ (active' = 0 /\ active = n)
    <2>1. CASE Close(n)
      <3>1. PICK c : /\ c = [rounds EXCEPT ![n].completed = TRUE, ![n].refs = 0]
                     /\ rounds' = c
        BY <2>1 DEF Close
      <3>2. DOMAIN c = DOMAIN rounds /\ \A m \in DOMAIN rounds : Same(c, m)
        BY <1>3, <3>1, ClosesEvents
      <3> QED BY <2>1, <3>1, <3>2 DEF Close, Same, Stays
    <2>2. CASE UNCHANGED <<rounds, active>>
      BY <2>2 DEF Stays
    <2> QED BY <1>1, <1>3, <2>1, <2>2
  <1>5. TurnsStay(t)
    BY <1>4 DEF TurnsStay
  <1>6. HookApart(t)'
    BY <1>1, <1>2, <1>5, TurnOfHook
  <1>7. RoundsApart' /\ HooksApart'
    BY <1>1, <1>5, <1>6, TurnsOfHooks
  <1>8. SideBySide' /\ ActiveOf'
    BY <1>1, <1>2, <1>4, <1>5, SideKeeps, ActiveKeeps
  <1>9. HooksInOrder'
    <2>1. ASSUME overlaps = 0, NEW u \in Threads, u # t, hook[u].at = "append"
          PROVE  FALSE
      BY <1>1, <2>1, Beside DEF Tools
    <2>2. InOrder(t)'
      BY <1>1 DEF InOrder
    <2> QED BY <1>1, <2>1, <2>2, OrderKeeps
  <1>10. TurnsApart'
    BY <1>1, TurnsOfSpool
  <1>11. EventsCaptured'
    <2>1. ASSUME overlaps = 0 PROVE HandedIn(n)'
      <3>1. HandedIn(n)
        BY <1>1, <1>3, <2>1 DEF TInv, HooksInOrder, InOrder
      <3> QED BY <1>1, <1>3, <1>4, <3>1, HandedStays DEF Stays
    <2> QED BY <1>1, <1>4, <2>1, EventsKeep DEF Stays
  <1> QED BY <1>7, <1>8, <1>9, <1>10, <1>11, HostKept DEF TInv

-----------------------------------------------------------------------------
(* The steps of the host.                                                    *)

LEMMA FiringTurns ==
  ASSUME IInv, TInv, NEW t \in Threads,
         NEW kind \in {"defer", "call", "result", "answer", "finish"},
         NEW turn \in 1 .. Turns, NEW call, NEW orderly \in BOOLEAN,
         Fire(t, kind, turn, call, orderly),
         /\ {"turn", "phase", "called", "returned", "named"} \subseteq DOMAIN host'
         /\ host'.turn = turn /\ host'.named = host.named,
         host'.turn = host.turn \/ kind = "defer",
         orderly =>
           \/ Running = {}
           \/ /\ kind \in {"call", "result"} /\ host.turn = turn
              /\ \A u \in Running : hook[u].kind \in {"call", "result"}
  PROVE  TInv'
  <1>1. /\ OneHook(t) /\ hook[t].at = "idle" /\ hook'[t].at = kind
        /\ hook'[t].kind = kind /\ hook'[t].turn = turn /\ Idly
    BY Fires
  <1>2. /\ overlaps' \in Nat /\ (overlaps' = 0 => overlaps = 0 /\ orderly)
    BY DEF Fire, TInv, HostShaped
  <1>3. HostShaped'
    BY <1>2 DEF HostShaped, TInv
  <1>4. (NamedTurns' <=> NamedTurns) /\ (Apart' => Apart)
    BY <1>2 DEF NamedTurns, Apart
  <1>5. \A n, of : RoundOf(n, of) => RoundOf(n, of)'
    BY <1>1, <1>4 DEF RoundOf, Of, Told, NamedTurns, Idly
  <1>6. RoundsApart'
    BY <1>1, <1>4, <1>5 DEF RoundsApart, TInv, Idly
  <1>7. HooksApart'
    <2>1. HookApart(t)'
      BY <1>1 DEF HookApart, Knowing
    <2>2. ASSUME NEW u \in Threads, u # t PROVE HookApart(u)'
      <3>1. hook'[u] = hook[u] /\ HookApart(u)
        BY <1>1, <2>2 DEF OneHook, TInv, HooksApart
      <3>2. RoundOf(hook[u].round, hook[u].turn) => RoundOf(hook[u].round, hook[u].turn)'
        <4>1. PICK n, of : n = hook[u].round /\ of = hook[u].turn
          OBVIOUS
        <4>2. RoundOf(n, of) => RoundOf(n, of)'
          BY <1>5
        <4> QED BY <3>1, <4>1, <4>2
      <3> QED BY <1>4, <3>1, <3>2 DEF HookApart, Of
    <2> QED BY <2>1, <2>2 DEF HooksApart
  <1>8. ASSUME overlaps' = 0, NEW u \in Threads, u # t, hook'[u].at # "idle"
        PROVE  /\ hook'[u] = hook[u] /\ InOrder(u) /\ hook[u].at \in Tools
               /\ kind \in {"call", "result"} /\ host'.turn = host.turn
    <2>1. hook'[u] = hook[u] /\ InOrder(u) /\ u \in Running
      BY <1>1, <1>2, <1>8 DEF OneHook, TInv, HooksInOrder, Running
    <2> QED BY <1>2, <1>8, <2>1 DEF InOrder
  <1>9. SideBySide'
    BY <1>1, <1>2, <1>8 DEF SideBySide, TInv, Tools
  <1>10. HooksInOrder'
    <2>1. ASSUME overlaps' = 0, NEW u \in Threads, u # t PROVE InOrder(u)'
      BY <1>1, <1>8, <2>1 DEF InOrder, Idly, Tools
    <2>2. overlaps' = 0 => InOrder(t)'
      BY <1>1 DEF InOrder, Tools, Knowing
    <2> QED BY <2>1, <2>2 DEF HooksInOrder
  <1>11. ActiveOf'
    <2>1. SUFFICES ASSUME overlaps' = 0, active' # 0, ~\E u \in Threads : hook'[u].at = "defer"
                   PROVE  RoundOf(active, host.turn)'
      BY DEF ActiveOf
    <2>2. active # 0 /\ host'.turn = host.turn
      BY <1>1, <2>1 DEF Idly
    <2>3. ~\E u \in Threads : hook[u].at = "defer"
      BY <1>1, <2>1 DEF OneHook
    <2>4. PICK n, of : n = active /\ of = host.turn
      OBVIOUS
    <2>5. RoundOf(n, of)
      BY <1>2, <2>1, <2>2, <2>3, <2>4 DEF TInv, ActiveOf
    <2>6. RoundOf(n, of)'
      BY <1>5, <2>5
    <2> QED BY <1>1, <2>2, <2>4, <2>6 DEF Idly
  <1>12. TurnsApart' /\ EventsCaptured'
    <2>1. overlaps > 0 => overlaps' > 0
      BY <1>2 DEF TInv, HostShaped
    <2>2. TurnsApart'
      BY <1>1, <1>4, <2>1 DEF TInv, TurnsApart, OneTurn, Idly
    <2>3. EventsCaptured'
      BY <1>1, <1>2 DEF TInv, EventsCaptured, Captures, Idly
    <2> QED BY <2>2, <2>3
  <1> QED BY <1>3, <1>6, <1>7, <1>9, <1>10, <1>11, <1>12 DEF TInv

LEMMA HostTurns ==
  ASSUME IInv, TInv, NEW t \in Threads, Host(t)
  PROVE  TInv'
  <1>1. /\ {"turn", "phase", "called", "returned", "named"} \subseteq DOMAIN host
        /\ host.turn \in 0 .. Turns
        /\ host.phase # "idle" \/ host.called # {} => host.turn \in 1 .. Turns
    BY DEF TInv, HostShaped
  <1>2. Turns \in Nat
    BY RoundsConstants
  <1>3. CASE FirePre(t)
    <2>1. CASE /\ host.turn < Turns
               /\ host' = [host EXCEPT !.turn = @ + 1, !.phase = "in", !.called = {},
                                       !.returned = {}]
               /\ Fire(t, "defer", host'.turn, {}, Running = {})
      <3>1. /\ DOMAIN host' = DOMAIN host
            /\ host'.turn = host.turn + 1 /\ host'.named = host.named
        BY <1>1, <2>1
      <3>2. PICK turn : turn = host'.turn /\ turn \in 1 .. Turns
        BY <1>1, <1>2, <2>1, <3>1
      <3>3. Fire(t, "defer", turn, {}, Running = {})
        BY <2>1, <3>2
      <3> QED BY <1>1, <3>1, <3>2, <3>3, FiringTurns
    <2>2. CASE /\ host.phase = "in" /\ UNCHANGED host /\ Running = {}
               /\ Fire(t, "defer", host.turn, {}, TRUE)
      BY <1>1, <2>2, FiringTurns
    <2> QED BY <1>3, <2>1, <2>2 DEF FirePre
  <1>4. CASE FirePost(t)
    <2>1. /\ DOMAIN host' = DOMAIN host /\ host'.turn = host.turn
          /\ host'.named = host.named
      BY <1>1, <1>4 DEF FirePost
    <2>2. PICK orderly \in BOOLEAN :
            orderly = (Running = {} /\ host.called = host.returned)
      OBVIOUS
    <2>3. Fire(t, "answer", host.turn, {}, orderly) /\ host.turn \in 1 .. Turns
      BY <1>1, <1>4, <2>2 DEF FirePost
    <2> QED BY <1>1, <2>1, <2>2, <2>3, FiringTurns
  <1>5. CASE FireEnd(t)
    <2>1. /\ DOMAIN host' = DOMAIN host /\ host'.turn = host.turn
          /\ host'.named = host.named
      BY <1>1, <1>5 DEF FireEnd
    <2>2. Fire(t, "finish", host.turn, {}, Running = {}) /\ host.turn \in 1 .. Turns
      BY <1>1, <1>5 DEF FireEnd
    <2> QED BY <1>1, <2>1, <2>2, FiringTurns
  <1>6. ASSUME NEW c \in Calls, FireCall(t, c) \/ FireResult(t, c)
        PROVE  TInv'
    <2>1. /\ DOMAIN host' = DOMAIN host /\ host'.turn = host.turn
          /\ host'.named = host.named
      BY <1>1, <1>6 DEF FireCall, FireResult
    <2>2. PICK orderly \in BOOLEAN :
            orderly = (host.phase = "in"
                       /\ \A u \in Running : hook[u].kind \in {"call", "result"})
      OBVIOUS
    <2>3. \/ Fire(t, "call", host.turn, {c}, orderly)
          \/ Fire(t, "result", host.turn, {c}, orderly)
      BY <1>6, <2>2 DEF FireCall, FireResult
    <2>4. host.turn \in 1 .. Turns
      BY <1>1, <1>6 DEF FireCall, FireResult
    <2> QED BY <1>1, <2>1, <2>2, <2>3, <2>4, FiringTurns
  <1> QED BY <1>3, <1>4, <1>5, <1>6 DEF Host

LEMMA HookTurns ==
  ASSUME IInv, IInv', PInv, TInv, NEW t \in Threads, Hook(t)
  PROVE  TInv'
  <1>1. SameHost
    BY DEF Hook, SameHost, PreDefers, PreCreates, PreRecords, PreContext, PreWithout,
           ToolEnters, ToolAppends, PostEnters, PostAppends, PostCopies, PostCaptures,
           PostCompletes, Finish
  <1> QED BY <1>1, PreDefersTurns, EnteringTurns, AddingTurns, ContextTurns, CopiesTurns,
             CapturesTurns, CompletesTurns, FinishTurns
          DEF Hook

LEMMA TurnsInvariance == Spec => []TInv
  <1>1. IInv /\ IInv' /\ PInv /\ TInv /\ [Next]_vars => TInv'
    <2>1. ASSUME TInv, UNCHANGED vars PROVE TInv'
      <3>1. HostShaped' /\ RoundsApart' /\ HooksApart'
        BY <2>1 DEF vars, TInv, HostShaped, RoundsApart, HooksApart, HookApart, Apart,
                    NamedTurns, RoundOf, Of, Told
      <3>2. SideBySide' /\ HooksInOrder'
        BY <2>1 DEF vars, TInv, SideBySide, HooksInOrder, InOrder, HandedIn, Captures
      <3>3. ActiveOf'
        BY <2>1 DEF vars, TInv, ActiveOf, RoundOf, Of, Told, NamedTurns
      <3>4. TurnsApart' /\ EventsCaptured'
        BY <2>1 DEF vars, TInv, TurnsApart, OneTurn, NamedTurns, EventsCaptured, Captures
      <3> QED BY <3>1, <3>2, <3>3, <3>4 DEF TInv
    <2> QED BY <2>1, HostTurns, HookTurns DEF Next
  <1> QED BY <1>1, InitTurns, Invariance, PairedInvariance, PTL DEF Spec

\* runtime.py, _begin_llm_round and get_or_create_active_round: a capture holds
\* the events and the context of one turn, when the host names its turns, in
\* whatever order its hooks run, and when it does not but fires them in order.
THEOREM TurnsStayApart == Spec => []TurnsApart
  BY TurnsInvariance, PTL DEF TInv

\* runtime.py, on_post_llm_call, which copies the round, writes the copy and
\* closes the round in three sections: when hooks wait for those they follow,
\* nothing that a turn recorded is missing from what was written of it.
THEOREM EventsAreCaptured == Spec => []EventsCaptured
  BY TurnsInvariance, PTL DEF TInv

=============================================================================
