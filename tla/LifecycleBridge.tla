--------------------------- MODULE LifecycleBridge ---------------------------
(***************************************************************************)
(* The hook bridge of the command and JavaScript adapters                  *)
(* (adapters/lifecycle/bridge.py): one agent session whose host runs a     *)
(* short-lived process per hook.  The processes share the session's state  *)
(* file under a file lock; a Stop hook turns the recorded events into a    *)
(* round, enqueues it in the spool, and only then rewrites the state.      *)
(* The mode modelled is model_residency_mode = "session", in which a lease *)
(* of the core's runtime is kept in that state between hooks.              *)
(*                                                                         *)
(* A section under the lock is one step unless something outside the state *)
(* file happens in it: the enqueue of Stop and the request for a lease are *)
(* steps of their own, and the rewriting of the state follows them.        *)
(***************************************************************************)
EXTENDS Integers, Sequences, FiniteSets

CONSTANTS
  Hooks,         \* hook processes that can run at the same time
  Turns,         \* bound: turns of the session, each begun by one prompt
  Calls,         \* the tool calls the agent makes
  Anonymous,     \* those for which the host gives no tool_use_id
  Capacity,      \* FileSpool.max_files, less what other sessions store
  MaxKills,      \* bound: hooks killed by the host's timeout
  MaxOutages,    \* bound: requests that fail, and leases that expire
  MaxOverlaps    \* bound: hooks that overtake an earlier one

ASSUME BridgeConstants ==
  /\ Turns \in Nat
  /\ Anonymous \subseteq Calls
  /\ Capacity \in Nat \ {0}
  /\ {MaxKills, MaxOutages, MaxOverlaps} \subseteq Nat

VARIABLES
  state,      \* the session's state file
  pc,         \* what each hook process does next
  hook,       \* the invocation it serves
  mem,        \* the state it is going to write, while it holds the lock
  lease,      \* the lease a Stop took out of the state, still to release
  spool,      \* history: the rounds enqueued, in order
  waiting,    \* indexes of the rounds in the live queues of the spool
  noted,      \* whether the delivery-status file exists
  leases,     \* the core's state: the leases it considers live
  issued,     \* the last lease it granted
  minted,     \* the last round_id drawn
  fired,      \* the invocations the host has made
  persisted,  \* history: turns whose prompt hook saved the prompt
  mishaps     \* history: how often each kind of trouble happened

hookVars  == <<pc, hook, mem, lease>>
spoolVars == <<spool, waiting, noted>>
coreVars  == <<leases, issued>>
hostVars  == <<fired, persisted>>
vars == <<state, hookVars, spoolVars, coreVars, minted, hostVars, mishaps>>

None     == 0
TurnSet  == 1 .. Turns
StopKinds == {"stop", "stopWithAnswer", "sessionEnd"}

Invocation ==
  [kind : {"prompt", "answer"} \cup StopKinds, of : TurnSet]
    \cup [kind : {"pre", "post"}, of : Calls]

\* What the properties excuse: a hook killed, a request that failed, a lease
\* that expired, a spool without room, a hook overtaken by a later one.
Mishaps == {"kill", "outage", "expiry", "full", "overlap"}

NoHook  == [kind |-> "none", of |-> None]
NoState == [round |-> None, events |-> <<>>, lease |-> None]

Event(kind, of, id) == [kind |-> kind, of |-> of, id |-> id]

Of(events, kind) ==
  {events[i].of : i \in {j \in DOMAIN events : events[j].kind = kind}}

Steps == {"idle", "append", "lease", "saveLease", "recall", "note",
          "stop", "saveStop", "deliver", "release"}

Events == [kind : {"user", "call", "result", "final"},
           of   : TurnSet \cup Calls \cup {None},
           id   : Nat]

States == [round : 0 .. minted, events : Seq(Events), lease : 0 .. issued]

TypeOK ==
  /\ state \in States
  /\ pc \in [Hooks -> Steps]
  /\ hook \in [Hooks -> Invocation \cup {NoHook}]
  /\ mem \in [Hooks -> States]
  /\ lease \in [Hooks -> 0 .. issued]
  /\ spool \in Seq([round : 1 .. minted, turns : SUBSET TurnSet])
  /\ waiting \subseteq DOMAIN spool
  /\ noted \in BOOLEAN
  /\ issued \in Nat /\ leases \subseteq 1 .. issued
  /\ minted \in Nat
  /\ fired \subseteq Invocation
  /\ persisted \subseteq TurnSet
  /\ mishaps \in [Mishaps -> Nat]

Init ==
  /\ state = NoState
  /\ pc = [h \in Hooks |-> "idle"]
  /\ hook = [h \in Hooks |-> NoHook]
  /\ mem = [h \in Hooks |-> NoState]
  /\ lease = [h \in Hooks |-> None]
  /\ spool = <<>>
  /\ waiting = {}
  /\ noted = FALSE
  /\ leases = {}
  /\ issued = 0
  /\ minted = 0
  /\ fired = {}
  /\ persisted = {}
  /\ mishaps = [m \in Mishaps |-> 0]

Count(m) == mishaps' = [mishaps EXCEPT ![m] = @ + 1]

\* The hook goes on with `step', or is over.
Goto(h, step) ==
  /\ pc' = [pc EXCEPT ![h] = step]
  /\ hook' = [hook EXCEPT ![h] = IF step = "idle" THEN NoHook ELSE @]

-----------------------------------------------------------------------------
(* The host: the order in which it invokes the hooks of a session. *)

Fired(kind, of) == [kind |-> kind, of |-> of] \in fired
Closed(t) == \E k \in StopKinds : Fired(k, t)
Open(t)   == Fired("prompt", t) /\ ~Closed(t)
Busy(k)   == \E h \in Hooks : hook[h].kind = k

Stopping == \E h \in Hooks : pc[h] \in {"stop", "saveStop"}

\* The host goes on while a hook it need not wait for has not had the lock, or
\* a tool reports after its turn was handed over.
Overtakes(kind, of) ==
  \/ kind = "prompt" /\ Stopping
  \/ kind \in StopKinds /\ Busy("post")
  \/ kind = "post" /\ (Stopping \/ of \notin Of(state.events, "call"))

\* The host waits for the prompt hook, and for a PreToolUse hook before it
\* runs the tool; it says the answer in one of two ways; PostToolUse and Stop
\* may run in the background; a SessionEnd may follow a Stop.
MayFire(kind, of) ==
  \/ kind = "prompt" /\ \A t \in 1 .. of - 1 : Closed(t)
  \/ kind = "pre" /\ ~Busy("prompt") /\ \E t \in TurnSet : Open(t)
  \/ /\ kind = "post" /\ Fired("pre", of)
     /\ [kind |-> "pre", of |-> of] \notin {hook[h] : h \in Hooks}
     /\ \E t \in TurnSet : Open(t)
  \/ kind = "answer" /\ ~Busy("prompt") /\ Open(of)
  \/ /\ kind \in StopKinds
     /\ \A k \in {"prompt", "pre", "answer"} : ~Busy(k)
     /\ \/ Open(of)
        \/ kind = "sessionEnd" /\ Closed(of) /\ \A t \in TurnSet : ~Open(t)
     /\ kind = "stopWithAnswer" => ~Fired("answer", of)

FirstStep(kind) ==
  CASE kind \in {"prompt", "answer"} -> "append"
    [] kind \in {"pre", "post"}      -> "lease"
    [] kind \in StopKinds            -> "stop"

Fire(h, kind, of) ==
  /\ pc[h] = "idle"
  /\ ~Fired(kind, of)
  /\ MayFire(kind, of)
  /\ fired' = fired \cup {[kind |-> kind, of |-> of]}
  /\ hook' = [hook EXCEPT ![h] = [kind |-> kind, of |-> of]]
  /\ pc' = [pc EXCEPT ![h] = FirstStep(kind)]
  /\ IF Overtakes(kind, of)
       THEN mishaps["overlap"] < MaxOverlaps /\ Count("overlap")
       ELSE UNCHANGED mishaps
  /\ UNCHANGED <<state, mem, lease, spoolVars, coreVars, minted, persisted>>

-----------------------------------------------------------------------------
(* The state file and what is recorded in it. *)

\* Defect: the sections do not exclude each other.
Unlocked == FALSE

\* Another hook is inside its section of _locked_state.
Locked == \E h \in Hooks : pc[h] \in {"saveLease", "saveStop"}

\* Defect: every round of the session has the same name.
StartedAlike(s) == [s EXCEPT !.round = 1]

\* state.setdefault("round_id", uuid4().hex), and the number it draws.
Started(s) == IF s.round = None THEN [s EXCEPT !.round = minted + 1] ELSE s
Draw       == minted' = IF state.round = None THEN minted + 1 ELSE minted

\* Defect: the name of an event is off by one.
AppendedBefore(s, kind, of) ==
  [s EXCEPT !.events = Append(@, Event(kind, of, Len(@) - 1))]

\* _append: an event is named after its position in the list.
Appended(s, kind, of) ==
  [s EXCEPT !.events = Append(@, Event(kind, of, Len(@)))]

\* What the hook records.  A result of an anonymous call gets an id of its
\* own, which no call has.
Recorded(s, k, of) ==
  CASE k = "prompt" -> Appended(s, "user", of)
    [] k = "pre"    -> Appended(s, "call", of)
    [] k = "post"   -> Appended(s, "result",
                                IF of \in Anonymous THEN None ELSE of)
    [] k \in {"answer", "stopWithAnswer"} -> Appended(s, "final", None)
    [] OTHER        -> s

AppendEvent(h) ==
  /\ pc[h] = "append"
  /\ ~Locked
  /\ state' = Recorded(Started(state), hook[h].kind, hook[h].of)
  /\ Draw
  /\ IF hook[h].kind = "prompt"
       THEN Goto(h, "lease") /\ persisted' = persisted \cup {hook[h].of}
       ELSE Goto(h, "idle") /\ UNCHANGED persisted
  /\ UNCHANGED <<mem, lease, spoolVars, coreVars, fired, mishaps>>

-----------------------------------------------------------------------------
(* _session_client: the lease that spans the turn. *)

AfterLease(h) == IF hook[h].kind = "prompt" THEN "recall" ELSE "append"

LoseRequest == mishaps["outage"] < MaxOutages /\ Count("outage")

\* The heartbeat of the recorded lease succeeds.
KeepLease(h) ==
  /\ pc[h] = "lease"
  /\ ~Locked
  /\ state.lease \in leases
  /\ Goto(h, AfterLease(h))
  /\ UNCHANGED <<state, mem, lease, spoolVars, coreVars, minted, hostVars,
                 mishaps>>

\* No lease recorded, or its heartbeat fails: another one is granted.
AcquireLease(h) ==
  /\ pc[h] = "lease"
  /\ ~Locked
  /\ IF state.lease \in leases THEN LoseRequest ELSE UNCHANGED mishaps
  /\ issued' = issued + 1
  /\ leases' = leases \cup {issued + 1}
  /\ mem' = [mem EXCEPT ![h] = [state EXCEPT !.lease = issued + 1]]
  /\ Goto(h, "saveLease")
  /\ UNCHANGED <<state, lease, spoolVars, minted, hostVars>>

SaveLease(h) ==
  /\ pc[h] = "saveLease"
  /\ state' = mem[h]
  /\ mem' = [mem EXCEPT ![h] = NoState]
  /\ Goto(h, AfterLease(h))
  /\ UNCHANGED <<lease, spoolVars, coreVars, minted, hostVars, mishaps>>

\* The acquire fails, though the core may have granted the lease: the state is
\* not rewritten, a prompt goes without context, a tool event is recorded.
LeaseFails(h) ==
  /\ pc[h] = "lease"
  /\ ~Locked
  /\ LoseRequest
  /\ \E granted \in BOOLEAN :
       /\ issued' = IF granted THEN issued + 1 ELSE issued
       /\ leases' = IF granted THEN leases \cup {issued + 1} ELSE leases
  /\ Goto(h, IF hook[h].kind = "prompt" THEN "note" ELSE "append")
  /\ UNCHANGED <<state, mem, lease, spoolVars, minted, hostVars>>

-----------------------------------------------------------------------------
(* The rest of the prompt hook: context, and the delivery-status file. *)

\* What glob finds in `ready': rounds that a hook has claimed are not there.
SeesReady(seen) == seen \in BOOLEAN /\ (seen => waiting # {})

\* The status file is not counted, but a write of it is held to max_files as
\* if it were, unless it replaces the one that is there.
NoteFits == Cardinality(waiting) + 1 - (IF noted THEN 1 ELSE 0) <= Capacity

Recall(h) ==
  /\ pc[h] = "recall"
  /\ \E seen \in BOOLEAN : SeesReady(seen) /\ noted' = (noted /\ seen)
  /\ Goto(h, "idle")
  /\ UNCHANGED <<state, mem, lease, spool, waiting, coreVars, minted,
                 hostVars, mishaps>>

RecallFails(h) ==
  /\ pc[h] = "recall"
  /\ LoseRequest
  /\ Goto(h, "note")
  /\ UNCHANGED <<state, mem, lease, spoolVars, coreVars, minted, hostVars>>

\* note_delivery_failure; should it raise, the command line still exits 0.
Note(h) ==
  /\ pc[h] = "note"
  /\ noted' = (noted \/ NoteFits)
  /\ Goto(h, "idle")
  /\ UNCHANGED <<state, mem, lease, spool, waiting, coreVars, minted,
                 hostVars, mishaps>>

-----------------------------------------------------------------------------
(* Stop and SessionEnd: _enqueue_finished_round, _deliver_ready, release. *)

Unique(events, kind) ==
  \A i, j \in DOMAIN events :
    events[i].kind = kind /\ events[j].kind = kind /\ i # j
      => events[i].of # events[j].of

Finals(events) == {i \in DOMAIN events : events[i].kind = "final"}

\* The list without the results whose call was never recorded.  It is a
\* function on the positions that stay: nothing depends on closing the gaps.
Kept(events) ==
  [i \in {j \in DOMAIN events :
             events[j].kind = "result" => events[j].of \in Of(events, "call")}
     |-> events[i]]

\* The list with one final message more, named after the length it has now.
WithFinal(kept, last) ==
  [i \in DOMAIN kept \cup {last + 1} |->
     IF i \in DOMAIN kept THEN kept[i]
                         ELSE Event("final", None, Cardinality(DOMAIN kept))]

\* Defect: the round is given an answer even if it has one.
FinishedAlways(s) == WithFinal(Kept(s.events), Len(s.events))

\* The events of the round: a round without an answer is given one.
Finished(s) ==
  LET kept == Kept(s.events)
  IN  IF Finals(kept) = {} THEN WithFinal(kept, Len(s.events)) ELSE kept

\* The checks of build_raw_round that recorded events can fail.
Valid(events) ==
  /\ \A i, j \in DOMAIN events : i # j => events[i].id # events[j].id
  /\ Of(events, "user") # {}
  /\ Cardinality(Finals(events)) = 1
  /\ Unique(events, "call")
  /\ Of(events, "result") \subseteq Of(events, "call")

\* The state as Stop reads it: the lease taken out, its answer appended.
AtStop(h) ==
  Recorded(Started([state EXCEPT !.lease = None]), hook[h].kind, hook[h].of)

\* A Stop gets the lock and finds events with a user message.
StopReads(h) ==
  /\ pc[h] = "stop"
  /\ ~Locked
  /\ Of(AtStop(h).events, "user") # {}

HasRoom == Cardinality(waiting) + 1 <= Capacity

\* The round is built and enqueue_ready returns.
StopEnqueues(h) ==
  LET s == AtStop(h)
  IN  /\ StopReads(h)
      /\ Valid(Finished(s))
      /\ HasRoom
      /\ spool' = Append(spool, [round |-> s.round,
                                 turns |-> Of(Finished(s), "user")])
      /\ waiting' = waiting \cup {Len(spool) + 1}
      /\ lease' = [lease EXCEPT ![h] = state.lease]
      /\ mem' = [mem EXCEPT ![h] = NoState]
      /\ Goto(h, "saveStop")
      /\ UNCHANGED <<state, noted, coreVars, minted, hostVars, mishaps>>

\* build_raw_round or enqueue_ready raises: the exception leaves the section
\* before the state is rewritten, and the hook.
StopRefused(h) ==
  /\ StopReads(h)
  /\ ~Valid(Finished(AtStop(h))) \/ ~HasRoom
  /\ IF Valid(Finished(AtStop(h))) THEN Count("full") ELSE UNCHANGED mishaps
  /\ Goto(h, "idle")
  /\ UNCHANGED <<state, mem, lease, spoolVars, coreVars, minted, hostVars>>

\* Defect: the state is not cleared once the round is enqueued.
SaveStopUncleared(h) ==
  /\ pc[h] = "saveStop"
  /\ Goto(h, IF hook[h].kind = "sessionEnd" THEN "release" ELSE "deliver")
  /\ UNCHANGED <<state, mem, lease, spoolVars, coreVars, minted, hostVars,
                 mishaps>>

\* state.clear(), written back at the end of the section.
SaveStop(h) ==
  /\ pc[h] = "saveStop"
  /\ state' = mem[h]
  /\ Goto(h, IF hook[h].kind = "sessionEnd" THEN "release" ELSE "deliver")
  /\ UNCHANGED <<mem, lease, spoolVars, coreVars, minted, hostVars, mishaps>>

\* Nothing to hand over: no event at all, or none of a user.
StopEmpty(h) ==
  /\ pc[h] = "stop"
  /\ ~Locked
  /\ Of(AtStop(h).events, "user") = {}
  /\ IF AtStop(h).events = <<>> THEN state' = AtStop(h) /\ Draw
                                  ELSE state' = NoState /\ UNCHANGED minted
  /\ lease' = [lease EXCEPT ![h] = state.lease]
  /\ Goto(h, "release")
  /\ UNCHANGED <<mem, spoolVars, coreVars, hostVars, mishaps>>

\* A delivery cycle rids the spool of one round: stored, or in quarantine.
Deliver(h, i) ==
  /\ pc[h] = "deliver"
  /\ waiting' = waiting \ {i}
  /\ UNCHANGED <<state, hookVars, spool, noted, coreVars, minted, hostVars,
                 mishaps>>

\* Rounds still in `ready' are noted; a note that does not fit raises twice,
\* the second time out of the hook, and the lease is not released.
EndDelivery(h) ==
  /\ pc[h] = "deliver"
  /\ \E seen \in BOOLEAN :
       /\ SeesReady(seen)
       /\ noted' = (seen /\ (noted \/ NoteFits))
       /\ IF seen /\ ~NoteFits
            THEN /\ Goto(h, "idle") /\ Count("full")
                 /\ lease' = [lease EXCEPT ![h] = None]
            ELSE Goto(h, "release") /\ UNCHANGED <<lease, mishaps>>
  /\ UNCHANGED <<state, mem, spool, waiting, coreVars, minted, hostVars>>

\* Defect: the lease is forgotten with the session's state.
ReleaseForgotten(h) ==
  /\ pc[h] = "release"
  /\ lease' = [lease EXCEPT ![h] = None]
  /\ Goto(h, "idle")
  /\ UNCHANGED <<state, mem, spoolVars, coreVars, minted, hostVars, mishaps>>

Release(h) ==
  /\ pc[h] = "release"
  /\ lease' = [lease EXCEPT ![h] = None]
  /\ \/ leases' = leases \ {lease[h]} /\ UNCHANGED mishaps
     \/ lease[h] # None /\ UNCHANGED leases /\ LoseRequest
  /\ Goto(h, "idle")
  /\ UNCHANGED <<state, mem, spoolVars, issued, minted, hostVars>>

-----------------------------------------------------------------------------
(* The core and the host's timeout. *)

\* The TTL of a lease passes without a heartbeat.
LeaseExpires(l) ==
  /\ mishaps["expiry"] < MaxOutages
  /\ Count("expiry")
  /\ leases' = leases \ {l}
  /\ UNCHANGED <<state, hookVars, spoolVars, issued, minted, hostVars>>

\* The host kills a hook: its lock is free again, its memory is gone.
Kill(h) ==
  /\ pc[h] # "idle"
  /\ mishaps["kill"] < MaxKills
  /\ Count("kill")
  /\ Goto(h, "idle")
  /\ mem' = [mem EXCEPT ![h] = NoState]
  /\ lease' = [lease EXCEPT ![h] = None]
  /\ UNCHANGED <<state, spoolVars, coreVars, minted, hostVars>>

-----------------------------------------------------------------------------
SessionLease(h) ==
  KeepLease(h) \/ AcquireLease(h) \/ SaveLease(h) \/ LeaseFails(h)

Context(h) == Recall(h) \/ RecallFails(h) \/ Note(h)

Stop(h) ==
  \/ StopEnqueues(h) \/ StopRefused(h) \/ StopEmpty(h) \/ SaveStop(h)
  \/ EndDelivery(h) \/ Release(h)
  \/ \E i \in waiting : Deliver(h, i)

HookStep(h) == AppendEvent(h) \/ SessionLease(h) \/ Context(h) \/ Stop(h)

Next ==
  \/ \E h \in Hooks, v \in Invocation : Fire(h, v.kind, v.of)
  \/ \E h \in Hooks : HookStep(h) \/ Kill(h)
  \/ \E l \in leases : LeaseExpires(l)

Spec == Init /\ [][Next]_vars

-----------------------------------------------------------------------------
(* Properties. *)

\* A prompt that was recorded stays recorded until a round that contains it is
\* in the spool, whatever hooks run beside it, are killed or refused.
PromptKept ==
  \A t \in persisted :
    \/ t \in Of(state.events, "user")
    \/ \E i \in DOMAIN spool : t \in spool[i].turns

\* A round_id is enqueued once, and once more for every hook that is killed:
\* the core answers 409 to the second round of one identity.
RoundIdentity ==
  \A i \in DOMAIN spool :
    Cardinality({j \in DOMAIN spool : spool[j].round = spool[i].round})
      <= 1 + mishaps["kill"]

\* No hook was killed or overtaken, and no Stop found the spool full.
InTime == mishaps["kill"] + mishaps["full"] + mishaps["overlap"] = 0

\* Turns share a round only if a hook was killed or overtaken, or a Stop found
\* the spool full.  (One such mishap can make any number of them share.)
TurnsApart ==
  InTime => \A i \in DOMAIN spool : Cardinality(spool[i].turns) <= 1

\* A live lease is recorded in the session's state or about to be recorded or
\* released; one is left to its TTL for each killed hook, failed request and
\* refused note.
LeaseAccounted ==
  Cardinality(leases \ ({state.lease} \cup {lease[h] : h \in Hooks}
                                     \cup {mem[h].lease : h \in Hooks}))
    <= mishaps["kill"] + mishaps["outage"] + mishaps["full"]

\* The recorded events of a turn with a prompt can be made a round: a Stop that
\* came now would not be refused for their sake.
Completable ==
  Of(state.events, "user") # {} => Valid(Finished(state))

\* The recorded events can be made a round as long as no hook was killed or
\* overtaken and no Stop found the spool full.
CompletableInTime == InTime => Completable
=============================================================================
