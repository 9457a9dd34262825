------------------------------ MODULE RawRound ------------------------------
(***************************************************************************)
(* From the events a source has observed to the RawRound that is submitted *)
(* (adapters/hermes/round_capture.py), and what the protocol demands of it *)
(* (ledgermind_protocol/models.py).  An event as a source gives it is a    *)
(* function from the names of the fields it has to their values; text,     *)
(* sizes and patterns are left out.                                        *)
(***************************************************************************)
EXTENDS Naturals, Sequences, FiniteSets

Kinds    == {"message", "tool_call", "tool_result"}
Carried  == {"role", "tool_call_id", "tool_name", "arguments", "status"}

\* A field of an event that may lack it.
Field(e, name, default) == IF name \in DOMAIN e THEN e[name] ELSE default

\* normalize_event: ids and kinds are filled in, the sequence is the place.
Normalize(e, sequence) ==
  LET kind == IF Field(e, "kind", "message") \in Kinds
                THEN Field(e, "kind", "message") ELSE "message"
      given == DOMAIN e \cap Carried
      added == CASE kind = "tool_call"   -> {"arguments"} \ given
                 [] kind = "tool_result" -> {"status"} \ given
                 [] OTHER                -> {}
      filled == [arguments |-> "{}", status |-> "unknown"]
  IN  [name \in {"event_id", "sequence", "kind", "final"} \cup given \cup added |->
        CASE name = "event_id" -> Field(e, "event_id", <<"place", sequence>>)
          [] name = "sequence" -> sequence
          [] name = "kind"     -> kind
          [] name = "final"    -> Field(e, "final", FALSE)
          [] name \in given    -> e[name]
          [] OTHER             -> filled[name]]

\* build_raw_round, for events that are not none.
Build(events) ==
  LET normal == [i \in DOMAIN events |-> Normalize(events[i], i - 1)]
      ids    == [i \in DOMAIN events |-> normal[i].event_id]
  IN  [events |-> normal, event_ids |-> ids, first |-> ids[1],
       last |-> ids[Len(ids)]]

Distinct(s) == \A i, j \in DOMAIN s : s[i] = s[j] => i = j

\* RawRoundEvent.validate_kind_shape.
ShapeValid(e) ==
  CASE e.kind = "message"   -> /\ Field(e, "role", "") \in {"user", "assistant", "system"}
                               /\ DOMAIN e \cap (Carried \ {"role"}) = {}
    [] e.kind = "tool_call" -> /\ {"tool_call_id", "tool_name"} \subseteq DOMAIN e
                               /\ {"role", "status"} \cap DOMAIN e = {}
    [] OTHER                -> /\ {"tool_call_id", "status"} \subseteq DOMAIN e
                               /\ "role" \notin DOMAIN e

\* Places of a round's events, by what they are.
Users(round)  == {i \in DOMAIN round.events :
                    /\ round.events[i].kind = "message"
                    /\ round.events[i].role = "user"}
Finals(round) == {i \in DOMAIN round.events :
                    /\ round.events[i].kind = "message"
                    /\ round.events[i].role = "assistant"
                    /\ round.events[i].final}
Of(round, kind) == {i \in DOMAIN round.events : round.events[i].kind = kind}

\* Every result refers to a call, and a call id names one call.
CallsValid(round) ==
  LET id(i) == round.events[i].tool_call_id
  IN  /\ \A i, j \in Of(round, "tool_call") : id(i) = id(j) => i = j
      /\ \A r \in Of(round, "tool_result") :
           \E c \in Of(round, "tool_call") : id(c) = id(r)

\* validate_raw_round, but for the digests.
Valid(round) ==
  /\ round.events # <<>>
  /\ \A i \in DOMAIN round.events :
       ShapeValid(round.events[i]) /\ round.events[i].sequence = i - 1
  /\ Distinct(round.event_ids)
  /\ round.event_ids = [i \in DOMAIN round.events |-> round.events[i].event_id]
  /\ round.first = round.event_ids[1]
  /\ round.last = round.event_ids[Len(round.event_ids)]
  /\ Users(round) # {}
  /\ Cardinality(Finals(round)) = 1
  /\ CallsValid(round)
=============================================================================
