---------------------------- MODULE InferenceChain ----------------------------
(***************************************************************************)
(* The chain of providers of one role, walked by concurrent requests on    *)
(* one event loop: walk_chain (a "call": judge and vision) and             *)
(* ModelGateway.generate_streaming (a "stream"). The breakers are in the   *)
(* memory of the process; the quotas are in Redis, behind an await. What   *)
(* runs between two awaits is one action.                                  *)
(***************************************************************************)
EXTENDS CircuitBreaker

CONSTANTS
    Callers,     \* requests that walk the chain at the same time
    Chain,       \* the tiers in order
    QuotaKind,   \* per tier: "header", "sliding" or "pool"
    Kinds,       \* what a request may be: "call", "stream"
    Ceiling,     \* requests that a sliding window holds
    PoolCeiling, \* CLOUDFLARE_NEURON_DAILY_CEILING, in answers
    MaxWalks, MaxDays, MaxFaults  \* bounds of the model

ASSUME ChainAssumption ==
    /\ IsFiniteSet(Callers)
    /\ Chain \in Seq(Tiers) /\ Len(Chain) > 0
    /\ QuotaKind \in [Tiers -> {"header", "sliding", "pool"}]
    /\ Kinds \subseteq {"call", "stream"}
    /\ Ceiling \in Nat /\ PoolCeiling \in Nat
    /\ MaxWalks \in Nat /\ MaxDays \in Nat /\ MaxFaults \in Nat

VARIABLES
    breaker,   \* circuit_registry
    walk,      \* the local state of each request
    reserved,  \* sliding windows: the entries of the sorted set
    header,    \* header quotas: the cached x-ratelimit-remaining
    neurons,   \* the shared counter of Cloudflare's cost
    touched,   \* whether the counter's TTL was renewed today
    walks, days, faults  \* how much of the bounds is used

vars == <<breaker, walk, reserved, header, neurons, touched, walks, days, faults>>
quotaVars == <<reserved, header, neurons, touched>>
bounds == <<walks, days, faults>>

Places == 1 .. Len(Chain)

Walk == [ pc: {"idle", "quota", "granted", "denied", "call", "reply", "done"},
          kind: {"call", "stream"},
          place: Places,            \* tier_index
          attempts: Nat,            \* attempts_made
          output: SUBSET Tiers ]    \* the tiers whose tokens were yielded

NoWalk == [pc |-> "idle", kind |-> "call", place |-> 1, attempts |-> 0, output |-> {}]

\* the tier at which a request is
Tier(c) == Chain[walk[c].place]

Init ==
    /\ breaker = [t \in Tiers |-> NewBreaker]
    /\ walk = [c \in Callers |-> NoWalk]
    /\ reserved = [t \in Tiers |-> 0]
    /\ header = [t \in Tiers |-> "none"]
    /\ neurons = 0 /\ touched = FALSE
    /\ walks = 0 /\ days = 0 /\ faults = 0
-----------------------------------------------------------------------------
(* The loop over the tiers. It does not await until a breaker lets it by.  *)

\* the first tier from place on whose breaker allows a call
NextPlace(place, brk, i) ==
    /\ i >= place /\ AllowsCall(brk[Chain[i]])
    /\ \A j \in place .. i - 1 : ~AllowsCall(brk[Chain[j]])

\* to the quota check of the next tier; a skipped breaker reads open and stays as it is
Consult(c, w, place, brk) ==
    /\ w.kind = "stream" => w.attempts < 2
    /\ \E i \in Places :
        /\ NextPlace(place, brk, i)
        /\ breaker' = [brk EXCEPT ![Chain[i]] = Read(@)]
        /\ walk' = [walk EXCEPT ![c] = [w EXCEPT !.pc = "quota", !.place = i]]

\* InferenceChainExhausted, also because the budget of the cascade is used up
Exhaust(c, w, place, brk, outOfBudget) ==
    /\ \/ outOfBudget
       \/ w.kind = "stream" /\ w.attempts >= 2
       \/ \A i \in place .. Len(Chain) : ~AllowsCall(brk[Chain[i]])
    /\ breaker' = brk
    /\ walk' = [walk EXCEPT ![c] = NoWalk]

\* time has passed since the walk began, so its budget may be used up
Continue(c, place, brk) ==
    \/ Consult(c, walk[c], place, brk)
    \/ \E outOfBudget \in BOOLEAN : Exhaust(c, walk[c], place, brk, outOfBudget)

StartWalk(c) ==
    /\ walk[c].pc = "idle" /\ walks < MaxWalks
    /\ \E kind \in Kinds :
        LET w == [NoWalk EXCEPT !.kind = kind]
        IN  Consult(c, w, 1, breaker) \/ Exhaust(c, w, 1, breaker, FALSE)
    /\ walks' = walks + 1
    /\ UNCHANGED <<quotaVars, days, faults>>
-----------------------------------------------------------------------------
(* One tier: the quota, the HTTP call, its outcome.                        *)

Goto(c, pc) == walk' = [walk EXCEPT ![c].pc = pc]

\* Mutant: one request more than the window holds
Mut_QuotaLeft(t) == CASE QuotaKind[t] = "header"  -> header[t] # "exhausted"
                      [] QuotaKind[t] = "sliding" -> reserved[t] <= Ceiling
                      [] QuotaKind[t] = "pool"    -> neurons < PoolCeiling

QuotaLeft(t) == CASE QuotaKind[t] = "header"  -> header[t] # "exhausted"
                  [] QuotaKind[t] = "sliding" -> reserved[t] < Ceiling
                  [] QuotaKind[t] = "pool"    -> neurons < PoolCeiling

\* the script checks and reserves in one round trip
Reserve(t) ==
    reserved' = IF QuotaKind[t] = "sliding" /\ QuotaLeft(t)
                THEN [reserved EXCEPT ![t] = @ + 1] ELSE reserved

CheckQuota(c) ==
    /\ walk[c].pc = "quota"
    /\ Reserve(Tier(c))
    /\ Goto(c, IF QuotaLeft(Tier(c)) THEN "granted" ELSE "denied")
    /\ UNCHANGED <<breaker, header, neurons, touched, bounds>>

\* Redis is not there: every check fails open
CheckFails(c) ==
    /\ walk[c].pc = "quota" /\ faults < MaxFaults
    /\ faults' = faults + 1
    /\ Goto(c, "granted")
    /\ UNCHANGED <<breaker, quotaVars, walks, days>>

SkipTier(c) ==
    /\ walk[c].pc = "denied"
    /\ Continue(c, walk[c].place + 1, breaker)
    /\ UNCHANGED <<quotaVars, bounds>>

Dispatch(c) ==
    /\ walk[c].pc = "granted"
    /\ walk' = [walk EXCEPT ![c].pc = "call", ![c].attempts = @ + 1]
    /\ UNCHANGED <<breaker, quotaVars, bounds>>

\* a token is yielded to the caller
Token(c) ==
    /\ walk[c].pc = "call" /\ walk[c].kind = "stream"
    /\ walk' = [walk EXCEPT ![c].output = @ \cup {Tier(c)}]
    /\ UNCHANGED <<breaker, quotaVars, bounds>>

\* the answer is there in full
Reply(c) ==
    /\ walk[c].pc = "call"
    /\ Goto(c, "reply")
    /\ UNCHANGED <<breaker, quotaVars, bounds>>

\* Mutant: a stream falls back also after its first token
Mut_CallFails(c) ==
    /\ walk[c].pc = "call"
    /\ Continue(c, walk[c].place + 1,
                [breaker EXCEPT ![Tier(c)] = RecordFailure(Tier(c), @)])
    /\ UNCHANGED <<quotaVars, bounds>>

\* the call raised; a stream that has yielded propagates, else the next tier
CallFails(c) ==
    LET brk == [breaker EXCEPT ![Tier(c)] = RecordFailure(Tier(c), @)] IN
    /\ walk[c].pc = "call"
    /\ IF walk[c].output # {}
       THEN breaker' = brk /\ walk' = [walk EXCEPT ![c] = NoWalk]
       ELSE Continue(c, walk[c].place + 1, brk)
    /\ UNCHANGED <<quotaVars, bounds>>

\* a header may be absent or malformed, and then the cache stays as it is
RecordHeader(c) ==
    /\ QuotaKind[Tier(c)] = "header"
    /\ \E remaining \in {header[Tier(c)], "left", "exhausted"} :
        header' = [header EXCEPT ![Tier(c)] = remaining]
    /\ UNCHANGED <<neurons, touched>>

RecordNeurons(c) ==
    /\ QuotaKind[Tier(c)] = "pool" /\ walk[c].kind = "call"
    /\ neurons' = neurons + 1 /\ touched' = TRUE
    /\ UNCHANGED header

\* a stream of a pool tier and a reservation have nothing more to record
RecordNothing(c) ==
    /\ \/ QuotaKind[Tier(c)] = "sliding"
       \/ QuotaKind[Tier(c)] = "pool" /\ walk[c].kind = "stream"
    /\ UNCHANGED <<header, neurons, touched>>

RecordQuota(c) ==
    /\ walk[c].pc = "reply"
    /\ RecordHeader(c) \/ RecordNeurons(c) \/ RecordNothing(c)
    /\ Goto(c, "done")
    /\ UNCHANGED <<breaker, reserved, bounds>>

\* Redis is not there: the cost is lost
RecordFails(c) ==
    /\ walk[c].pc = "reply" /\ faults < MaxFaults
    /\ faults' = faults + 1
    /\ Goto(c, "done")
    /\ UNCHANGED <<breaker, quotaVars, walks, days>>

Succeed(c) ==
    /\ walk[c].pc = "done"
    /\ breaker' = [breaker EXCEPT ![Tier(c)] = RecordSuccess(Tier(c), @)]
    /\ walk' = [walk EXCEPT ![c] = NoWalk]
    /\ UNCHANGED <<quotaVars, bounds>>

\* the request is cancelled: CancelledError is no Exception, and nothing is recorded
Cancel(c) ==
    /\ walk[c].pc # "idle" /\ faults < MaxFaults
    /\ faults' = faults + 1
    /\ walk' = [walk EXCEPT ![c] = NoWalk]
    /\ UNCHANGED <<breaker, quotaVars, walks, days>>
-----------------------------------------------------------------------------
(* Time.                                                                   *)

CoolDown(t) ==
    /\ breaker[t].state = "open" /\ ~breaker[t].cooled
    /\ breaker' = [breaker EXCEPT ![t].cooled = TRUE]
    /\ UNCHANGED <<walk, quotaVars, bounds>>

\* the statistics and the hourly health check read every breaker
ReadState(t) ==
    /\ breaker' = [breaker EXCEPT ![t] = Read(@)]
    /\ UNCHANGED <<walk, quotaVars, bounds>>

\* the callers that hold, or are about to use, a slot of the provider
Calling(t) == {c \in Callers : Tier(c) = t /\ walk[c].pc \in {"granted", "call"}}

\* Mutant: a reservation is dropped that is not there
Mut_ReservationExpires(t) ==
    /\ reserved' = [reserved EXCEPT ![t] = @ - 1]
    /\ UNCHANGED <<breaker, walk, header, neurons, touched, bounds>>

\* A reservation outlives its call: httpx gives up after 30 s without an answer, the
\* windows have 60 s and a day.
ReservationExpires(t) ==
    /\ reserved[t] > Cardinality(Calling(t))
    /\ reserved' = [reserved EXCEPT ![t] = @ - 1]
    /\ UNCHANGED <<breaker, walk, header, neurons, touched, bounds>>

HeaderExpires(t) ==
    /\ header[t] # "none"
    /\ header' = [header EXCEPT ![t] = "none"]
    /\ UNCHANGED <<breaker, walk, reserved, neurons, touched, bounds>>

\* the TTL of 26 hours, renewed by every INCRBYFLOAT, has not been renewed today
PoolExpires ==
    /\ neurons > 0 /\ ~touched
    /\ neurons' = 0
    /\ UNCHANGED <<breaker, walk, reserved, header, touched, bounds>>

\* nothing is under way
Quiet == \A c \in Callers : walk[c].pc = "idle"

\* Cloudflare's accounting begins again at midnight. A counter that was not renewed
\* in the day that ends is 24 hours old: the 2 hours that it still has are left out,
\* and so are the answers under way at midnight.
NewDay ==
    /\ Quiet /\ days < MaxDays
    /\ days' = days + 1
    /\ neurons' = IF touched THEN neurons ELSE 0
    /\ touched' = FALSE
    /\ UNCHANGED <<breaker, walk, reserved, header, walks, faults>>

WalkStep(c) ==
    \/ StartWalk(c) \/ CheckQuota(c) \/ CheckFails(c) \/ SkipTier(c)
    \/ Dispatch(c) \/ Token(c) \/ Reply(c) \/ CallFails(c)
    \/ RecordQuota(c) \/ RecordFails(c) \/ Succeed(c) \/ Cancel(c)

Clock(t) == CoolDown(t) \/ ReadState(t) \/ ReservationExpires(t) \/ HeaderExpires(t)

Next ==
    \/ \E c \in Callers : WalkStep(c)
    \/ \E t \in Tiers : Clock(t)
    \/ PoolExpires
    \/ NewDay

Spec == Init /\ [][Next]_vars
-----------------------------------------------------------------------------
(* Properties.                                                             *)

\* Types of the breakers, the walks and the quotas.
ChainTypeOK ==
    /\ breaker \in [Tiers -> Breaker]
    /\ walk \in [Callers -> Walk]
    /\ reserved \in [Tiers -> Nat]
    /\ header \in [Tiers -> {"none", "left", "exhausted"}]
    /\ neurons \in Nat /\ touched \in BOOLEAN
    /\ walks \in 0 .. MaxWalks /\ days \in 0 .. MaxDays /\ faults \in 0 .. MaxFaults

\* However the answers of concurrent and late calls fall, the counter of a
\* breaker is the run of failures at the end of its window, and a breaker that
\* has seen its threshold of failures in a row is not closed.
BreakersSound == \A t \in Tiers : Sound(t, breaker[t])

\* A caller never gets tokens of two tiers: after the first token there is no
\* other tier, and no third attempt before it.
OneTierOutput ==
    \A c \in Callers :
        /\ walk[c].output # {} => walk[c].output = {Tier(c)}
        /\ walk[c].kind = "stream" => walk[c].attempts <= 2

\* No more calls are at a provider of a sliding window at a time than the window
\* holds, but for the checks that failed open.
InFlightWithinCeiling ==
    \A t \in Tiers : QuotaKind[t] = "sliding" =>
        Cardinality(Calling(t)) <= Ceiling + faults
=============================================================================
