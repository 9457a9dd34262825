------------------------------- MODULE StateDb -------------------------------
(***************************************************************************)
(* Recovery of a round from the message table of Hermes (adapters/hermes/  *)
(* state_db.py): Hermes stores the messages of one turn after another, the *)
(* hooks around them leave the bounds of a round they could not complete,  *)
(* and the reader selects, converts, trims and links the rows.             *)
(*                                                                         *)
(* Hermes itself is external: it stores a message before or after the hook *)
(* that announces it, turns may be interrupted, and calls of tools may     *)
(* carry no id.                                                            *)
(*                                                                         *)
(* The specification is TableSpec, and not Spec, for the module of proofs  *)
(* that extends this one beside PendingCapture.                            *)
(***************************************************************************)
EXTENDS RawRound, SequencesExt

CONSTANTS
  MaxTurns,   \* bound: turns of the session
  MaxRows     \* bound: messages stored

ASSUME StateDbConstants ==
  MaxTurns \in Nat /\ MaxRows \in Nat

VARIABLES
  rows,     \* the messages, by id
  clock,
  turn,     \* the turn Hermes is at
  round,    \* turn -> what the hooks know of it
  waiting,  \* calls of tools without a result so far, in their order
  read      \* history: turn -> the whole round the pending worker once read

tableVars == <<rows, clock, turn, round, waiting, read>>

Turns   == 1 .. MaxTurns
Unknown == 0        \* no message id; no time
Closed(t) == round[t].completed # Unknown

Places(t, kind) == {i \in DOMAIN rows : rows[i].turn = t /\ rows[i].kind = kind}
Stored(t, kind) == Places(t, kind) # {}
\* The ids a hook may be told of a message of its turn: none, or that of the
\* stored message.
IdsOf(t, kind) == {Unknown} \cup Places(t, kind)

\* A hook that is told no id keeps the one it has.
Kept(old, id) == IF id # Unknown THEN id ELSE old

TableTypeOK ==
  /\ \A i \in DOMAIN rows :
       /\ rows[i].turn \in Turns
       /\ rows[i].kind \in {"user", "calls", "result", "final"}
  /\ DOMAIN read = Turns
  /\ clock \in Nat /\ turn \in 0 .. MaxTurns
  /\ round \in [Turns -> [started : Nat, completed : Nat, user : Nat, final : Nat]]
  /\ \A i \in DOMAIN waiting : waiting[i][1] \in Places(turn, "calls")
  \* A bound names a message of its turn.
  /\ \A t \in Turns : /\ round[t].user \in Places(t, "user") \cup {Unknown}
                      /\ round[t].final \in Places(t, "final") \cup {Unknown}

TableInit ==
  /\ rows = <<>> /\ clock = 1 /\ turn = 0 /\ waiting = <<>>
  /\ read = [t \in Turns |-> <<>>]
  /\ round = [t \in Turns |->
       [started |-> Unknown, completed |-> Unknown, user |-> Unknown,
        final |-> Unknown]]

-----------------------------------------------------------------------------
(* Hermes and the hooks. *)

Tick == clock' = clock + 1

Store(kind, calls, of) ==
  /\ Len(rows) < MaxRows
  /\ rows' = Append(rows, [turn |-> turn, kind |-> kind, time |-> clock,
                           calls |-> calls, of |-> of])
  /\ Tick

\* The next turn, whether the one before was answered or interrupted.
NewTurn ==
  /\ turn < MaxTurns
  /\ turn # 0 => round[turn].started # Unknown
  /\ turn' = turn + 1 /\ waiting' = <<>>
  /\ UNCHANGED <<rows, clock, round, read>>

StoreUser ==
  /\ turn # 0 /\ ~Stored(turn, "user")
  /\ Store("user", <<>>, <<>>)
  /\ UNCHANGED <<turn, round, waiting, read>>

\* A round that ends without its final message known: _defer_active_round.
ClosedNow(r) == [r EXCEPT !.completed = clock]

\* on_pre_llm_call: an open round of the session is deferred, as of now.
Pre ==
  /\ turn # 0 /\ round[turn].started = Unknown
  /\ \E id \in IdsOf(turn, "user") :
       round' = [t \in Turns |->
         CASE t = turn -> [round[t] EXCEPT !.started = clock, !.user = id]
           [] round[t].started # Unknown /\ ~Closed(t) -> ClosedNow(round[t])
           [] OTHER -> round[t]]
  /\ Tick
  /\ UNCHANGED <<rows, turn, waiting, read>>

Going == turn # 0 /\ round[turn].started # Unknown /\ Stored(turn, "user")

\* An assistant message with one or two calls, with ids or without.
StoreCalls ==
  /\ Going /\ waiting = <<>> /\ ~Stored(turn, "final") /\ ~Closed(turn)
  /\ \E n \in 1 .. 2 : \E named \in [1 .. n -> BOOLEAN] :
       /\ Store("calls", named, <<>>)
       /\ waiting' = [k \in 1 .. n |-> <<Len(rows) + 1, k>>]
  /\ UNCHANGED <<turn, round, read>>

StoreResult ==
  /\ Going /\ waiting # <<>>
  /\ Store("result", <<>>, Head(waiting))
  /\ waiting' = Tail(waiting)
  /\ UNCHANGED <<turn, round, read>>

StoreFinal ==
  /\ Going /\ waiting = <<>> /\ ~Stored(turn, "final")
  /\ Store("final", <<>>, <<>>)
  /\ UNCHANGED <<turn, round, waiting, read>>

\* on_post_llm_call with evidence that is not enough, or the end of the
\* session; the final message may still be on its way to the table.
Post ==
  /\ Going /\ waiting = <<>> /\ ~Closed(turn)
  /\ \E user \in IdsOf(turn, "user"), final \in IdsOf(turn, "final") :
       round' = [round EXCEPT ![turn].completed = clock,
                              ![turn].user = Kept(@, user),
                              ![turn].final = Kept(@, final)]
  /\ Tick
  /\ UNCHANGED <<rows, turn, waiting, read>>

-----------------------------------------------------------------------------
(* The reader. *)

\* Defect: without the id of its last message a round has no end.
SelectedOpen(r) ==
  {i \in DOMAIN rows :
     /\ IF r.user # Unknown THEN i >= r.user ELSE rows[i].time >= r.started
     /\ r.final # Unknown => i <= r.final}

\* _query_rows: an id bounds where there is one, else the time.
Selected(r) ==
  {i \in DOMAIN rows :
     /\ IF r.user # Unknown THEN i >= r.user ELSE rows[i].time >= r.started
     /\ IF r.final # Unknown THEN i <= r.final ELSE rows[i].time <= r.completed}

\* ORDER BY id: the k-th is the one with k - 1 below it.
Ascending(ids) ==
  [k \in 1 .. Cardinality(ids) |->
     CHOOSE i \in ids : Cardinality({j \in ids : j < i}) = k - 1]

\* _tool_call_event, with an id of the model's making where there is none.
CallEvent(i, k) ==
  [event_id |-> <<i, k>>, kind |-> "tool_call", tool_name |-> "tool",
   arguments |-> "{}", synthetic |-> ~rows[i].calls[k],
   tool_call_id |-> IF rows[i].calls[k] THEN <<"call", i, k>>
                                        ELSE <<"row call", i, k>>]

\* A result without an id is named after its row.
ResultEvent(i) ==
  LET of == rows[i].of
  IN  [event_id |-> <<i>>, kind |-> "tool_result", status |-> "success",
       tool_call_id |-> IF rows[of[1]].calls[of[2]] THEN <<"call", of[1], of[2]>>
                                                    ELSE <<"row", i, 0>>]

MessageEvent(i, role, terminal) ==
  [event_id |-> <<i>>, kind |-> "message", role |-> role, terminal |-> terminal]

\* _row_events: the narration of a row with calls is a message of its own.
RowEvents(i) ==
  CASE rows[i].kind = "result" -> <<ResultEvent(i)>>
    [] rows[i].kind = "calls"  ->
         <<MessageEvent(i, "assistant", FALSE)>>
         \o [k \in DOMAIN rows[i].calls |-> CallEvent(i, k)]
    [] rows[i].kind = "user"   -> <<MessageEvent(i, "user", FALSE)>>
    [] OTHER                   -> <<MessageEvent(i, "assistant", TRUE)>>

\* The same sequence; TLC evaluates its elements once.
Once(s)        == <<>> \o s
IsUser(e)      == e.kind = "message" /\ e.role = "user"
IsAssistant(e) == e.kind = "message" /\ e.role = "assistant"
From(s, i)     == SubSeq(s, i, Len(s))

\* Defect: the id of the user's message is not looked at.
TrimLast(events, user) ==
  LET users == {i \in DOMAIN events : IsUser(events[i])}
  IN  IF users = {} THEN events
      ELSE From(events, CHOOSE i \in users : \A j \in users : j <= i)

\* _trim_to_round: from the known user message, else from the last of several.
Trim(events, user) ==
  LET users == {i \in DOMAIN events : IsUser(events[i])}
      known == {i \in users : events[i].event_id = <<user>>}
  IN  CASE known # {} -> From(events, CHOOSE i \in known : TRUE)
        [] known = {} /\ Cardinality(users) > 1 ->
             From(events, CHOOSE i \in users : \A j \in users : j <= i)
        [] OTHER -> events

\* Defect: calls keep the ids of the model's making.
LinkNothing(events) == events

\* Defect: every result may answer a call without an id.
LinkAll(events) ==
  LET calls   == {i \in DOMAIN events : events[i].kind = "tool_call" /\ events[i].synthetic}
      results == {i \in DOMAIN events : events[i].kind = "tool_result"}
      before(i, S) == Cardinality({j \in S : j < i})
      partners(i)  == {j \in results : before(j, results) = before(i, calls)}
      linked(i)    == IF i \in calls /\ partners(i) # {}
                        THEN events[CHOOSE j \in partners(i) : TRUE].tool_call_id
                        ELSE events[i].tool_call_id
  IN  Once([i \in DOMAIN events |->
              IF events[i].kind = "message" THEN events[i]
              ELSE [events[i] EXCEPT !.tool_call_id = linked(i)]])

\* _link_anonymous_tool_calls: the calls without an id, and the results whose
\* id no call has, belong together in their order.
Link(events) ==
  LET known   == {events[i].tool_call_id : i \in
                    {i \in DOMAIN events : events[i].kind = "tool_call" /\ ~events[i].synthetic}}
      calls   == {i \in DOMAIN events : events[i].kind = "tool_call" /\ events[i].synthetic}
      results == {i \in DOMAIN events : events[i].kind = "tool_result"
                                        /\ events[i].tool_call_id \notin known}
      before(i, S) == Cardinality({j \in S : j < i})
      partners(i)  == {j \in results : before(j, results) = before(i, calls)}
      linked(i)    == IF i \in calls /\ partners(i) # {}
                        THEN events[CHOOSE j \in partners(i) : TRUE].tool_call_id
                        ELSE events[i].tool_call_id
  IN  Once([i \in DOMAIN events |->
              IF events[i].kind = "message" THEN events[i]
              ELSE [events[i] EXCEPT !.tool_call_id = linked(i)]])

\* Where _final_assistant_index looks: the known message, else any that ends.
FinalIndices(events, final) ==
  LET known == {i \in DOMAIN events :
                  IsAssistant(events[i]) /\ events[i].event_id = <<final>>}
  IN  IF known # {} THEN known
      ELSE {i \in DOMAIN events : IsAssistant(events[i]) /\ events[i].terminal}

\* _events_from_rows: up to the first final message; the marks of the reader
\* are taken off.
Finish(events, final) ==
  LET indices == FinalIndices(events, final)
      last    == CHOOSE i \in indices : \A j \in indices : i <= j
      upTo    == IF indices = {} THEN events ELSE SubSeq(events, 1, last)
  IN  Once([i \in DOMAIN upTo |->
        [f \in (DOMAIN upTo[i] \ {"terminal", "synthetic"}) \cup {"final"} |->
           IF f = "final" THEN indices # {} /\ i = last ELSE upTo[i][f]]])

\* round_events.
Recovered(t) ==
  LET r    == round[t]
      ids  == Ascending(Selected(r))
      all  == FlattenSeq(Once([k \in DOMAIN ids |-> RowEvents(ids[k])]))
  IN  IF all = <<>> THEN <<>> ELSE Finish(Link(Trim(all, r.user)), r.final)

\* What the pending worker takes for a whole round.
Usable(events) ==
  /\ \E i \in DOMAIN events : events[i].final
  /\ \E i \in DOMAIN events : IsUser(events[i])

\* The worker reads a round for the first time; it may have to read it again.
Read(t) ==
  /\ Closed(t) /\ read[t] = <<>>
  /\ Usable(Recovered(t))
  /\ read' = [read EXCEPT ![t] = Recovered(t)]
  /\ UNCHANGED <<rows, clock, turn, round, waiting>>

TableNext == \/ NewTurn \/ StoreUser \/ Pre \/ StoreCalls \/ StoreResult
        \/ StoreFinal \/ Post
        \/ \E t \in Turns : Read(t)

TableSpec == TableInit /\ [][TableNext]_tableVars

-----------------------------------------------------------------------------
(* Properties. *)

RowsOf(events) == {events[i].event_id[1] : i \in DOMAIN events}

\* `Read exactly one pending round': a recovered round is its own turn, whole,
\* however wide the window is and wherever other turns were interrupted.
ExactlyOneRound ==
  \A t \in Turns : Closed(t) =>
    LET events == Recovered(t)
    IN  Usable(events) => RowsOf(events) = {i \in DOMAIN rows : rows[i].turn = t}

\* A recovered round can be submitted.
RecoveredIsValid ==
  \A t \in Turns : Closed(t) =>
    LET events == Recovered(t) IN Usable(events) => Valid(Build(events))

\* Every result is linked to the very call it answers, ids or not.
ResultsAnswer ==
  \A t \in Turns : Closed(t) =>
    LET events == Recovered(t)
    IN  Usable(events) =>
          \A i, j \in DOMAIN events :
            (/\ events[i].kind = "tool_call" /\ events[j].kind = "tool_result"
             /\ events[i].tool_call_id = events[j].tool_call_id)
              => rows[events[j].event_id[1]].of = events[i].event_id

\* A recovered round stays what it is, whatever Hermes stores later: a capture
\* promoted twice is the same capture.
StableRecovery ==
  \A t \in Turns : read[t] # <<>> => read[t] = Recovered(t)

WindowHolds(t) ==
  /\ Closed(t) /\ Stored(t, "user") /\ Stored(t, "final")
  /\ \A i \in DOMAIN rows : rows[i].turn = t => i \in Selected(round[t])

\* A round of which the hooks know the user's message is recovered as soon as
\* its messages lie in its window.
KnownSuffices ==
  \A t \in Turns :
    WindowHolds(t) /\ round[t].user # Unknown => Usable(Recovered(t))
=============================================================================
