---------------------------- MODULE HermesRounds ----------------------------
(***************************************************************************)
(* The rounds of one Hermes session (adapters/hermes/runtime.py): the hooks*)
(* around a turn run in threads of the host, correlate what they see in an *)
(* ActiveRoundState, and hand it to capture_or_defer.                      *)
(*                                                                         *)
(* A step is one section under the runtime's lock, or what happens between *)
(* two of them: a hook looks up its round, and appends to it, snapshots it,*)
(* writes it to the spool and completes it in later steps, when another    *)
(* hook may have deferred it.  Sessions share nothing but the lock and the *)
(* spool, so one is enough.  An event is its kind, its name and the turn it*)
(* belongs to (the last is known to the model only).                       *)
(***************************************************************************)
EXTENDS Integers, Sequences, FiniteSets, SequencesExt

CONSTANTS
  Threads,       \* threads of the host that run hooks
  Calls,         \* tool calls of a turn
  NamedCalls,    \* the host passes a tool_call_id
  Turns,         \* bound: turns of the session
  MaxOverlaps,   \* bound: hooks fired before an earlier one they follow is done
  MaxRounds      \* bound: ActiveRoundStates created

ASSUME RoundsConstants ==
  /\ NamedCalls \in BOOLEAN
  /\ {Turns, MaxOverlaps, MaxRounds} \subseteq Nat

VARIABLES
  rounds,     \* every ActiveRoundState made so far
  active,     \* active_rounds: the session's round, or 0
  session,    \* session_states: whether it is there, which one it is, its cache
  hook,       \* thread -> the hook it runs, and its local variables
  host,       \* whether it names turns; the turn, and what was reported of it
  spool,      \* what was handed to the spool: one record per write
  refused,    \* rounds the spool did not take
  overlaps    \* history: hooks that did not wait for an earlier one

vars == <<rounds, active, session, hook, host, spool, refused, overlaps>>

Kinds == {"user", "call", "result", "answer"}
Idle  == [at |-> "idle", kind |-> "none", turn |-> 0, call |-> {}, round |-> 0,
          name |-> <<>>, gen |-> 0, copy |-> <<>>, refs |-> 0]

Live(n) == n # 0 /\ ~rounds[n].completed

\* The host passes a turn_id.
NamedTurns == host.named

\* What the hook tells the runtime of its turn: the turn_id, or nothing.
Told(turn) == IF NamedTurns THEN turn ELSE 0

TypeOK ==
  /\ \A n \in DOMAIN rounds :
       /\ rounds[n].turn \in 0 .. Turns /\ rounds[n].refs \in 0 .. Turns
       /\ rounds[n].completed \in BOOLEAN
       /\ \A i \in DOMAIN rounds[n].events : rounds[n].events[i].kind \in Kinds
  /\ active \in 0 .. Len(rounds)
  /\ session.cache \in 0 .. Turns /\ session.open \in BOOLEAN
  /\ \A t \in Threads : hook[t].round \in 0 .. Len(rounds)
  /\ \A c \in spool : c.round \in DOMAIN rounds
  /\ refused \subseteq DOMAIN rounds
  /\ overlaps \in 0 .. MaxOverlaps
  \* The session has no completed round, and its state when it has a round.
  /\ active # 0 => Live(active) /\ session.open

Init ==
  /\ rounds = <<>> /\ active = 0
  /\ session = [open |-> FALSE, gen |-> 0, cache |-> 0]
  /\ hook = [t \in Threads |-> Idle]
  /\ host \in [turn : {0}, phase : {"idle"}, called : {{}}, returned : {{}},
              named : BOOLEAN]
  /\ spool = {} /\ refused = {} /\ overlaps = 0

-----------------------------------------------------------------------------
(* The host. *)

Running == {t \in Threads : hook[t].at # "idle"}

\* A hook starts; `orderly' says that it waited for those it follows.
Fire(t, kind, turn, call, orderly) ==
  /\ hook[t] = Idle
  /\ overlaps' = overlaps + (IF orderly THEN 0 ELSE 1)
  /\ overlaps' <= MaxOverlaps
  /\ hook' = [hook EXCEPT ![t] = [Idle EXCEPT !.at = kind, !.kind = kind,
                                  !.turn = turn, !.call = call]]
  /\ UNCHANGED <<rounds, active, session, spool, refused>>

\* Hermes calls the model: for a new turn, whether or not the last one got to
\* its post_llm_call, or once more in the tool loop of the same turn.
FirePre(t) ==
  \/ /\ host.turn < Turns
     /\ host' = [host EXCEPT !.turn = @ + 1, !.phase = "in", !.called = {},
                             !.returned = {}]
     /\ Fire(t, "defer", host'.turn, {}, Running = {})
  \/ /\ host.phase = "in" /\ NamedTurns /\ Running = {}
     /\ UNCHANGED host
     /\ Fire(t, "defer", host.turn, {}, TRUE)

\* Tools of a turn run side by side, each between its two hooks.  One that is
\* still running when the turn is over reports late.
FireCall(t, c) ==
  /\ host.turn > 0 /\ c \notin host.called
  /\ host' = [host EXCEPT !.called = @ \cup {c}]
  /\ Fire(t, "call", host.turn, {c},
          host.phase = "in" /\ \A u \in Running : hook[u].kind \in {"call", "result"})

FireResult(t, c) ==
  /\ c \in host.called \ host.returned
  /\ \A u \in Running : hook[u].call # {c}
  /\ host' = [host EXCEPT !.returned = @ \cup {c}]
  /\ Fire(t, "result", host.turn, {c},
          host.phase = "in" /\ \A u \in Running : hook[u].kind \in {"call", "result"})

FirePost(t) ==
  /\ host.phase = "in"
  /\ host' = [host EXCEPT !.phase = "over"]
  /\ Fire(t, "answer", host.turn, {}, Running = {} /\ host.called = host.returned)

FireEnd(t) ==
  /\ host.phase # "idle"
  /\ host' = [host EXCEPT !.phase = "idle"]
  /\ Fire(t, "finish", host.turn, {}, Running = {})

-----------------------------------------------------------------------------
(* Sections under the lock. *)

At(t, step) == hook[t].at = step
Go(t, step) == hook' = [hook EXCEPT ![t].at = step]
Return(t)   == hook' = [hook EXCEPT ![t] = Idle]

\* _complete_round and the end of _defer_active_round_locked: the round leaves
\* the table if it is the session's, and its context references are cleared.
Close(n) ==
  /\ rounds' = [rounds EXCEPT ![n].completed = TRUE, ![n].refs = 0]
  /\ active' = IF active = n THEN 0 ELSE active

\* What capture_or_defer and enqueue_pending leave behind.
Note(n, to, events, refs) ==
  [round |-> n, to |-> to, turn |-> rounds[n].turn, events |-> events,
   refs |-> refs]

\* enqueue_pending of an unfinished round: of its events only their names.
Deferred(n) ==
  \/ spool' = spool \cup {Note(n, "pending", rounds[n].events, rounds[n].refs)}
     /\ UNCHANGED refused
  \/ refused' = refused \cup {n} /\ UNCHANGED spool

\* Defect: the round is closed without a write.
DeferUnwritten(n) ==
  /\ UNCHANGED <<spool, refused>>
  /\ IF Live(n) THEN Close(n) ELSE UNCHANGED <<rounds, active>>

Defer(n) ==
  IF Live(n) THEN Deferred(n) /\ Close(n)
             ELSE UNCHANGED <<rounds, active, spool, refused>>

\* _begin_llm_round first defers the round of another turn.
PreDefers(t) ==
  /\ At(t, "defer")
  /\ Go(t, "create")
  /\ IF Live(active) /\ ~(NamedTurns /\ rounds[active].turn = hook[t].turn)
       THEN Defer(active) ELSE UNCHANGED <<rounds, active, spool, refused>>
  /\ UNCHANGED <<session, host, overlaps>>

\* get_active_round, then get_or_create_active_round: the session's round if it
\* is of this turn or turns have no names; else a new one, and what was there
\* is deferred.  `next' is the round the hook goes on with.
Matches(n, turn) == Live(n) /\ (~NamedTurns \/ rounds[n].turn = turn)

Joined(turn) ==
  IF Matches(active, turn)
    THEN UNCHANGED <<rounds, active, session, spool, refused>>
    ELSE /\ Len(rounds) < MaxRounds
         /\ LET new == [turn |-> Told(turn), events |-> <<>>, refs |-> 0,
                        completed |-> FALSE]
            IN  /\ rounds' = Append(IF active = 0 THEN rounds ELSE
                                      [rounds EXCEPT ![active].completed = TRUE,
                                                     ![active].refs = 0], new)
                /\ active' = Len(rounds) + 1
         /\ IF active = 0 THEN UNCHANGED <<spool, refused>> ELSE Deferred(active)
         /\ session' = IF session.open THEN session
                       ELSE [open |-> TRUE, gen |-> session.gen + 1, cache |-> 0]

Round(turn) == IF Matches(active, turn) THEN active ELSE Len(rounds) + 1

\* pre_llm_call gets its round.
PreCreates(t) ==
  /\ At(t, "create")
  /\ Joined(hook[t].turn)
  /\ hook' = [hook EXCEPT ![t].at = "prompt", ![t].round = Round(hook[t].turn)]
  /\ UNCHANGED <<host, overlaps>>

Event(kind, name, turn) == [kind |-> kind, name |-> name, turn |-> turn]

Has(events, kind) == \E i \in DOMAIN events : events[i].kind = kind
Named(events, kind) == {events[i].name : i \in {j \in DOMAIN events :
                                                events[j].kind = kind}}

\* _ensure_user_event.
WithUser(events, turn) ==
  IF Has(events, "user") THEN events
                         ELSE Append(events, Event("user", <<>>, turn))

\* The prompt is recorded, and the session's state looked up for a cached
\* context: finish_session may have removed it, a KeyError that ends the hook.
PreRecords(t) ==
  /\ At(t, "prompt")
  /\ rounds' = [rounds EXCEPT ![hook[t].round].events = WithUser(@, hook[t].turn)]
  /\ IF session.open
       THEN hook' = [hook EXCEPT ![t].at = "context", ![t].gen = session.gen]
       ELSE Return(t)
  /\ UNCHANGED <<active, session, host, spool, refused, overlaps>>

\* Defect: whatever is in the cache is used.
CachedAny(turn) == session.cache # 0

\* The context of this turn is already there (_context_turn_key).
Cached(turn) == NamedTurns /\ session.cache = turn

\* _record_context_retrieval: nothing is recorded in a completed round.
Refer(n, turn) ==
  rounds' = [rounds EXCEPT ![n].refs = IF rounds[n].completed THEN @ ELSE turn]

\* The cached context, or the answer to a retrieval for this turn; the cache
\* is that of the session the hook saw.
PreContext(t) ==
  /\ At(t, "context")
  /\ LET turn == hook[t].turn
     IN  /\ Refer(hook[t].round, IF Cached(turn) THEN session.cache ELSE turn)
         /\ session' = IF NamedTurns /\ session.open /\ session.gen = hook[t].gen
                         THEN [session EXCEPT !.cache =
                                 IF Cached(turn) THEN @ ELSE turn]
                         ELSE session
  /\ Return(t)
  /\ UNCHANGED <<active, host, spool, refused, overlaps>>

\* Both attempts fail, time out, or return no ContextView: no context.
PreWithout(t) ==
  /\ At(t, "context")
  /\ Return(t)
  /\ UNCHANGED <<rounds, active, session, host, spool, refused, overlaps>>

-----------------------------------------------------------------------------
(* pre_tool_call and post_tool_call. *)

\* The calls without a result, in order.
Open(events) ==
  SelectSeq(events, LAMBDA e : e.kind = "call"
                               /\ e.name \notin Named(events, "result"))

\* _tool_call_id: the host's, else that of the last open call, else one made
\* of the number of events.
CallName(n, call) ==
  LET events == IF n \in DOMAIN rounds THEN rounds[n].events ELSE <<>>
  IN  IF NamedCalls THEN <<call>>
      ELSE IF Open(events) # <<>> THEN Last(Open(events)).name
      ELSE <<Len(events)>>

\* The hook looks up its round and names its call.
ToolEnters(t) ==
  /\ hook[t].at \in {"call", "result"}
  /\ Joined(hook[t].turn)
  /\ LET n == Round(hook[t].turn)
     IN  hook' = [hook EXCEPT ![t].at = "append", ![t].round = n,
                              ![t].name = CallName(n, hook[t].call)]
  /\ UNCHANGED <<host, overlaps>>

\* Defect: a result is recorded without its call.
AppendedAlone(events, h) ==
  IF h.name \in Named(events, h.kind) THEN events
  ELSE Append(events, Event(h.kind, h.name, h.turn))

\* An event of this name is recorded once; a result brings its call along.
Appended(events, h) ==
  LET call == IF h.name \in Named(events, "call") THEN events
              ELSE Append(events, Event("call", h.name, h.turn))
  IN  IF h.kind = "result" /\ h.name \notin Named(events, "result")
        THEN Append(call, Event("result", h.name, h.turn)) ELSE call

ToolAppends(t) ==
  /\ At(t, "append")
  /\ rounds' = [rounds EXCEPT ![hook[t].round].events = Appended(@, hook[t])]
  /\ Return(t)
  /\ UNCHANGED <<active, session, host, spool, refused, overlaps>>

-----------------------------------------------------------------------------
(* post_llm_call and the end of the session. *)

PostEnters(t) ==
  /\ At(t, "answer")
  /\ Joined(hook[t].turn)
  /\ hook' = [hook EXCEPT ![t].at = "write", ![t].round = Round(hook[t].turn)]
  /\ UNCHANGED <<host, overlaps>>

\* Defect: the copy is made before the answer is appended.
PostCopiesFirst(t) ==
  /\ At(t, "write")
  /\ LET n == hook[t].round
         user == WithUser(rounds[n].events, hook[t].turn)
     IN  /\ rounds' = [rounds EXCEPT ![n].events =
                         Append(user, Event("answer", <<>>, hook[t].turn))]
         /\ hook' = [hook EXCEPT ![t].at = "capture", ![t].copy = user]
  /\ UNCHANGED <<active, session, host, spool, refused, overlaps>>

\* The answer is appended, if there is one.
PostAppends(t) ==
  /\ At(t, "write")
  /\ LET user == WithUser(rounds[hook[t].round].events, hook[t].turn)
     IN  \E answer \in BOOLEAN :
           rounds' = [rounds EXCEPT ![hook[t].round].events =
             IF answer /\ ~Has(user, "answer")
               THEN Append(user, Event("answer", <<>>, hook[t].turn)) ELSE user]
  /\ Go(t, "snapshot")
  /\ UNCHANGED <<active, session, host, spool, refused, overlaps>>

\* Events and metadata are copied, without the lock.
PostCopies(t) ==
  /\ At(t, "snapshot")
  /\ LET n == hook[t].round
     IN  hook' = [hook EXCEPT ![t].at = "capture", ![t].copy = rounds[n].events,
                              ![t].refs = rounds[n].refs]
  /\ UNCHANGED <<rounds, active, session, host, spool, refused, overlaps>>

\* capture_or_defer with the copy: ready if it has its answer; else, or if the
\* ready queue refuses it, pending; else only a line in the log.
PostCaptures(t) ==
  /\ At(t, "capture")
  /\ LET h    == hook[t]
         note == Note(h.round, "pending", h.copy, h.refs)
     IN  \/ /\ Has(h.copy, "answer")
            /\ spool' = spool \cup {[note EXCEPT !.to = "ready"]}
            /\ UNCHANGED refused
         \/ spool' = spool \cup {note} /\ UNCHANGED refused
         \/ refused' = refused \cup {h.round} /\ UNCHANGED spool
  /\ Go(t, "complete")
  /\ UNCHANGED <<rounds, active, session, host, overlaps>>

\* Defect: whatever round the session has by now leaves the table.
PostClearsTable(t) ==
  /\ At(t, "complete")
  /\ rounds' = [rounds EXCEPT ![hook[t].round].completed = TRUE]
  /\ active' = 0
  /\ Return(t)
  /\ UNCHANGED <<session, host, spool, refused, overlaps>>

PostCompletes(t) ==
  /\ At(t, "complete")
  /\ IF rounds[hook[t].round].completed THEN UNCHANGED <<rounds, active>>
                                        ELSE Close(hook[t].round)
  /\ Return(t)
  /\ UNCHANGED <<session, host, spool, refused, overlaps>>

\* finish_session: what is unfinished is deferred, and the session forgotten.
Finish(t) ==
  /\ At(t, "finish")
  /\ Defer(active)
  /\ session' = [session EXCEPT !.open = FALSE, !.cache = 0]
  /\ Return(t)
  /\ UNCHANGED <<host, overlaps>>

-----------------------------------------------------------------------------
Host(t) ==
  \/ FirePre(t) \/ FirePost(t) \/ FireEnd(t)
  \/ \E c \in Calls : FireCall(t, c) \/ FireResult(t, c)

Hook(t) ==
  \/ PreDefers(t) \/ PreCreates(t) \/ PreRecords(t) \/ PreContext(t)
  \/ PreWithout(t) \/ ToolEnters(t) \/ ToolAppends(t) \/ PostEnters(t)
  \/ PostAppends(t) \/ PostCopies(t) \/ PostCaptures(t) \/ PostCompletes(t)
  \/ Finish(t)

Next == \E t \in Threads : Host(t) \/ Hook(t)

Spec == Init /\ [][Next]_vars

-----------------------------------------------------------------------------
(* Properties. *)

Captures(n) == {c \in spool : c.round = n}

\* A round leaves the runtime only through the spool: whichever of
\* post_llm_call, the next turn and the end of the session closes it, it was
\* written there, or the spool refused it.
ClosedIsCaptured ==
  \A n \in DOMAIN rounds :
    rounds[n].completed => Captures(n) # {} \/ n \in refused

\* A round that is not closed is the one the session's next hook, or its end,
\* will find: a hook that closes a round late does not orphan its successor.
NoneForgotten ==
  \A n \in DOMAIN rounds : rounds[n].completed \/ active = n

\* What a turn recorded in a round is in a capture of it when the round is
\* closed; only hooks that overlap can add to a round already written.
EventsCaptured ==
  \A n \in DOMAIN rounds :
    rounds[n].completed /\ n \notin refused /\ overlaps = 0 =>
      \E c \in Captures(n) : c.events = rounds[n].events

\* A captured round holds the events and the context of its own turn, and of no
\* other.
OneTurn(c) ==
  \E turn \in 1 .. Turns :
    /\ \A i \in DOMAIN c.events : c.events[i].turn = turn
    /\ c.refs \in {0, turn}

\* Also when hooks overlap, if the host names its turns.
TurnsApart == \A c \in spool : OneTurn(c) \/ (~NamedTurns /\ overlaps > 0)

\* A captured result follows its call, also when the call's hook is late, has
\* no id, or reported to a round that is gone.
ResultsPaired ==
  \A c \in spool : \A i \in DOMAIN c.events :
    c.events[i].kind = "result" =>
      \E j \in 1 .. i - 1 : c.events[j].kind = "call"
                            /\ c.events[j].name = c.events[i].name

=============================================================================
