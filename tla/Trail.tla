-------------------------------- MODULE Trail --------------------------------
(***************************************************************************)
(* What the applier relies on when it reports a step to the audit trail:    *)
(* a call of Append puts its entry into the trail at one moment and then    *)
(* returns without an error, or does not and returns one.  Callers may die  *)
(* at any moment, all those of a process at once.                           *)
(***************************************************************************)
EXTENDS Naturals, Sequences

CONSTANTS Caller, MaxCalls

VARIABLES
    trail,  \* the entries in the trail; <<c, k>> is the k-th entry of caller c
    at,     \* at[c]: "idle", "called", "added" or "dead"
    told    \* told[c]: what the calls of c that have returned told it

trailVars == <<trail, at, told>>

TrailInit ==
    /\ trail = {}
    /\ at = [c \in Caller |-> "idle"]
    /\ told = [c \in Caller |-> << >>]

Entry(c) == <<c, Len(told[c]) + 1>>

Call(c) ==
    /\ at[c] = "idle" /\ Len(told[c]) < MaxCalls
    /\ at' = [at EXCEPT ![c] = "called"]
    /\ UNCHANGED <<trail, told>>

Add(c) ==
    /\ at[c] = "called"
    /\ Entry(c) \notin trail
    /\ trail' = trail \cup {Entry(c)}
    /\ at' = [at EXCEPT ![c] = "added"]
    /\ UNCHANGED told

Tell(c, answer) ==
    /\ told' = [told EXCEPT ![c] = Append(@, answer)]
    /\ at' = [at EXCEPT ![c] = "idle"]
    /\ UNCHANGED trail
Fail(c)   == at[c] = "called" /\ Tell(c, "err")
Return(c) == at[c] = "added" /\ Tell(c, "ok")

Die(callers) ==
    /\ at' = [c \in Caller |-> IF c \in callers THEN "dead" ELSE at[c]]
    /\ UNCHANGED <<trail, told>>

TrailNext ==
    \/ \E c \in Caller : Call(c) \/ Add(c) \/ Fail(c) \/ Return(c)
    \/ \E callers \in SUBSET Caller : Die(callers)

TrailSpec == TrailInit /\ [][TrailNext]_trailVars

-----------------------------------------------------------------------------
\* What a caller was told is the truth for good: an entry whose call returned
\* without an error is in the trail, one whose call failed is not.
ToldTruth ==
    \A c \in Caller : \A k \in 1 .. Len(told[c]) :
        <<c, k>> \in trail <=> told[c][k] = "ok"
=============================================================================
