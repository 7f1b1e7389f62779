----------------------------- MODULE Publication -----------------------------
(***************************************************************************)
(* What the analysis pipeline promises, without workers, callers, kinds of *)
(* request or crashes: the cache changes at any time; an analysis may be   *)
(* opened; it fixes its evidence once, as one snapshot of a cache every    *)
(* row of which is usable; and its verdict is written once, with exactly   *)
(* that evidence, and never changes.                                       *)
(***************************************************************************)
EXTENDS SpecialistCache

CONSTANT Analyses

VARIABLES
    now,       \* the clock
    cache,     \* cache[s]: the row of s
    chosen,    \* chosen[a]: the evidence a is committed to
    status,    \* status[a]: absent, pending, or the verdict
    evidence   \* evidence[a]: the evidence published with the verdict

vars == <<now, cache, chosen, status, evidence>>

Verdict == {"succeeded", "failed"}

Init ==
    /\ now = 0
    /\ cache = NoRows
    /\ chosen = [a \in Analyses |-> NoRows]
    /\ status = [a \in Analyses |-> "absent"]
    /\ evidence = [a \in Analyses |-> NoRows]

\* Somebody's run of specialist s, which ended some time ago, is stored.
Write(s, run) ==
    /\ cache' = upsert_cache(cache, s, run, now)
    /\ UNCHANGED <<now, chosen, status, evidence>>

Open(a) ==
    /\ status[a] = "absent"
    /\ status' = [status EXCEPT ![a] = "pending"]
    /\ UNCHANGED <<now, cache, chosen, evidence>>

Choose(a) ==
    /\ chosen[a] = NoRows
    /\ status[a] \notin Verdict
    /\ Usable(cache, now)
    /\ chosen' = [chosen EXCEPT ![a] = cache]
    /\ UNCHANGED <<now, cache, status, evidence>>

Publish(a, v) ==
    /\ \A s \in Specialists : chosen[a][s].status = "ok"
    /\ status[a] \notin Verdict
    /\ status' = [status EXCEPT ![a] = v]
    /\ evidence' = [evidence EXCEPT ![a] = chosen[a]]
    /\ UNCHANGED <<now, cache, chosen>>

Tick ==
    /\ now' = now + 1
    /\ UNCHANGED <<cache, chosen, status, evidence>>

Next ==
    \/ \E s \in Specialists, run \in [status : RunStatus, at : 0 .. now] : Write(s, run)
    \/ \E a \in Analyses :
          \/ Open(a)
          \/ Choose(a)
          \/ \E v \in Verdict : Publish(a, v)
    \/ Tick

Spec == Init /\ [][Next]_vars

==============================================================================
