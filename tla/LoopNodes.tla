----------------------------- MODULE LoopNodes -----------------------------
(***************************************************************************)
(* A loop node: count, while and foreach loops run their sub-nodes round   *)
(* after round in one processor call and in the one context of the         *)
(* workflow.  Nothing clears a variable between the rounds.                *)
(***************************************************************************)
EXTENDS Integers, Sequences, SequencesExt, FiniteSetsExt

CONSTANTS
    MaxLoopRounds,  \* Bound: rounds a configuration asks for
    MaxSubs     \* Bound: sub-nodes

ASSUME LoopAssumption == MaxLoopRounds \in Nat \ {0} /\ MaxSubs \in Nat

\* A source has inline extractions, a reader renders what they set and the
\* loop variables, a nested loop is a loop node itself, and of an unknown
\* sub-node the type is missing or has no processor.
SubKinds == {"source", "reader", "nested", "unknown"}

VARIABLES
    loop,      \* the loop's configuration
    subs,      \* its sub-nodes
    phase,     \* of the processor: its answer at the end
    round,     \* rounds begun
    sub,       \* the sub-node of the round that is next
    extracted, \* context: the round the extracted variable was set in
    loopIndex,     \* context: loop_index, as the number of the round it was set in
    results,   \* per round that is over: the statuses recorded
    current,   \* the statuses of the round that is not
    reads      \* history: what the readers have rendered

loopVars == <<loop, subs, phase, round, sub, extracted, loopIndex, results, current, reads>>

\* due: the rounds of count, of the items, of the condition "iteration < due";
\* any other condition is always true, as MaxLoopRounds + 1 is.
Configurations ==
    [type : {"count", "foreach"}, due : 0 .. MaxLoopRounds, valid : BOOLEAN]
        \cup [type : {"while"}, due : 0 .. MaxLoopRounds + 1, valid : BOOLEAN]

\* count must be positive; items may be the text of an empty list.
ValidLoop == loop.valid /\ (loop.type = "count" => loop.due > 0)

\* A while loop is stopped by max_iterations, here MaxLoopRounds.
RoundsDue == Min({loop.due, MaxLoopRounds})

LoopInit ==
    /\ loop \in Configurations
    /\ subs \in BoundedSeq(SubKinds, MaxSubs)
    /\ phase = "validate"
    /\ round = 0 /\ sub = 1
    /\ extracted = 0 /\ loopIndex = 0
    /\ results = << >> /\ current = << >>
    /\ reads = {}

\* validate_config, and parsing the items: every exception is an error answer.
Validate ==
    /\ phase = "validate"
    /\ phase' = IF ValidLoop THEN "round" ELSE "error"
    /\ UNCHANGED <<loop, subs, round, sub, extracted, loopIndex, results, current, reads>>

StartRound ==
    /\ phase = "round"
    /\ round < RoundsDue
    /\ round' = round + 1
    /\ loopIndex' = round + 1
    /\ sub' = 1
    /\ current' = << >>
    /\ phase' = "subs"
    /\ UNCHANGED <<loop, subs, extracted, results, reads>>

\* The loop succeeds whatever its sub-nodes did.
EndLoop ==
    /\ phase = "round"
    /\ round = RoundsDue
    /\ phase' = "success"
    /\ UNCHANGED <<loop, subs, round, sub, extracted, loopIndex, results, current, reads>>

-----------------------------------------------------------------------------
(* _run_sub_nodes *)

AtSub(kinds) == phase = "subs" /\ sub <= Len(subs) /\ subs[sub] \in kinds
Record(statuses) == current' = current \o statuses

SkipUnknown ==
    /\ AtSub({"unknown"})
    /\ sub' = sub + 1
    /\ UNCHANGED <<loop, subs, phase, round, extracted, loopIndex, results, current, reads>>

\* What raises is recorded, and the round goes on behind it.
SubRaises ==
    /\ AtSub(SubKinds \ {"unknown"})
    /\ Record(<<"failed">>)
    /\ sub' = sub + 1
    /\ UNCHANGED <<loop, subs, phase, round, extracted, loopIndex, results, reads>>

ReaderRuns ==
    /\ AtSub({"reader"})
    /\ reads' = reads \cup {[round |-> round, value |-> extracted, index |-> loopIndex,
                             before |-> SubSeq(subs, 1, sub - 1),
                             failed |-> "failed" \in Range(current)]}
    /\ Record(<<"success">>)
    /\ sub' = sub + 1
    /\ UNCHANGED <<loop, subs, phase, round, extracted, loopIndex, results>>

\* A nested loop of one round leaves its own loop_index in the context.
NestedRuns ==
    /\ AtSub({"nested"})
    /\ loopIndex' = 1
    /\ Record(<<"success">>)
    /\ sub' = sub + 1
    /\ UNCHANGED <<loop, subs, phase, round, extracted, results, reads>>

SourceRuns ==
    /\ AtSub({"source"})
    /\ extracted' = round
    /\ Record(<<"success">>)
    /\ sub' = sub + 1
    /\ UNCHANGED <<loop, subs, phase, round, loopIndex, results, reads>>

\* A plausible slip: the round goes on after a failed extraction.
GoesOnUnextracted ==
    /\ AtSub({"source"})
    /\ Record(<<"success", "noted">>)
    /\ sub' = sub + 1
    /\ UNCHANGED <<loop, subs, phase, round, extracted, loopIndex, results, reads>>

\* Its extraction raises: the round is over.
ExtractionRaises ==
    /\ AtSub({"source"})
    /\ Record(<<"success", "failed">>)
    /\ sub' = Len(subs) + 1
    /\ UNCHANGED <<loop, subs, phase, round, extracted, loopIndex, results, reads>>

EndRound ==
    /\ phase = "subs"
    /\ sub > Len(subs)
    /\ results' = Append(results, current)
    /\ phase' = "round"
    /\ UNCHANGED <<loop, subs, round, sub, extracted, loopIndex, current, reads>>

LoopNext ==
    \/ Validate \/ StartRound \/ EndLoop
    \/ SkipUnknown \/ SubRaises \/ ReaderRuns \/ NestedRuns \/ SourceRuns
    \/ ExtractionRaises \/ EndRound

LoopSpec == LoopInit /\ [][LoopNext]_loopVars

-----------------------------------------------------------------------------
\* A sub-node behind one that extracts a variable sees the value of its own
\* round, and loop_index is its round's, although the variables of earlier
\* rounds stay in the context (_run_sub_nodes: a failed extraction ends the
\* round).  It takes a round in which nothing raised before it, and no nested
\* loop before it.
ReadersSeeTheirRound ==
    \A r \in reads :
        /\ "source" \in Range(r.before) /\ ~r.failed => r.value = r.round
        /\ "nested" \notin Range(r.before) => r.index = r.round
=============================================================================
