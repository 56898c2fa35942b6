---------------------------- MODULE InferenceProofs ----------------------------
(***************************************************************************)
(* Types, the breakers and the output of InferenceChain, for any chain,    *)
(* thresholds and number of concurrent requests.                           *)
(***************************************************************************)
EXTENDS InferenceChain, FiniteSetTheorems, TLAPS

\* PushShifts: the window keeps its bound, ends in the new outcome and before it
\* has what it had at its end.
LEMMA PushShifts ==
    ASSUME NEW n \in Nat \ {0}, NEW window \in Seq(Outcomes), Len(window) <= n,
           NEW outcome \in Outcomes
    PROVE  LET p == Push(window, n, outcome) IN
           /\ p \in Seq(Outcomes)
           /\ Len(p) \in 1 .. n
           /\ Len(p) - 1 <= Len(window)
           /\ p[Len(p)] = outcome
           /\ \A i \in 1 .. Len(p) - 1 : p[i] = window[i + Len(window) - (Len(p) - 1)]
<1> DEFINE p == Push(window, n, outcome)
<1>1. CASE Len(window) < n
  <2>1. p = Append(window, outcome)
    BY <1>1 DEF Push
  <2>2. Len(p) = Len(window) + 1 /\ p \in Seq(Outcomes)
    BY <2>1
  <2>3. \A i \in 1 .. Len(window) : p[i] = window[i]
    BY <2>1
  <2>4. p[Len(window) + 1] = outcome
    BY <2>1
  <2> QED
    BY <1>1, <2>2, <2>3, <2>4
<1>2. CASE Len(window) = n
  <2>1. p = Append(Tail(window), outcome)
    BY <1>2 DEF Push
  <2>2. /\ Tail(window) \in Seq(Outcomes)
        /\ Len(Tail(window)) = n - 1
        /\ \A i \in 1 .. n - 1 : Tail(window)[i] = window[i + 1]
    BY <1>2
  <2>3. Len(p) = n /\ p \in Seq(Outcomes)
    BY <2>1, <2>2
  <2>4. \A i \in 1 .. n - 1 : p[i] = Tail(window)[i]
    BY <2>1, <2>2
  <2>5. p[n] = outcome
    BY <2>1, <2>2
  <2> QED
    BY <1>2, <2>2, <2>3, <2>4, <2>5
<1> QED
  BY <1>1, <1>2

\* the part of Sound that does not depend on the state
Counted(t, b) ==
    /\ Len(b.window) <= FailureThreshold[t]
    /\ \A i \in 1 .. Len(b.window) : i > Len(b.window) - b.consecutive => b.window[i] = "failure"
    /\ b.consecutive < Len(b.window) => b.window[Len(b.window) - b.consecutive] # "failure"

\* LoggedCounted: logging an outcome keeps counter and window together.
LEMMA LoggedCounted ==
    ASSUME NEW t \in Tiers, NEW b \in Breaker, Counted(t, b), NEW outcome \in Outcomes
    PROVE  /\ Logged(t, b, outcome) \in Breaker
           /\ Counted(t, Logged(t, b, outcome))
           /\ Logged(t, b, outcome).state = b.state
           /\ outcome = "success" => Logged(t, b, outcome).consecutive = 0
<1> DEFINE l == Logged(t, b, outcome)
           n == FailureThreshold[t]
           p == l.window
<1>1. n \in Nat \ {0}
  BY BreakerAssumption
<1>2. /\ b.window \in Seq(Outcomes) /\ b.consecutive \in Nat /\ b.cooled \in BOOLEAN
      /\ b.state \in {"closed", "open", "half_open"} /\ Len(b.window) <= n
  BY DEF Breaker, Counted
<1>3. /\ p = Push(b.window, n, outcome)
      /\ l.consecutive = IF outcome = "failure" THEN b.consecutive + 1 ELSE 0
      /\ l.state = b.state
  BY DEF Logged
<1> HIDE DEF n, p
<1>4. /\ p \in Seq(Outcomes)
      /\ Len(p) \in 1 .. n
      /\ Len(p) - 1 <= Len(b.window)
      /\ p[Len(p)] = outcome
      /\ \A i \in 1 .. Len(p) - 1 : p[i] = b.window[i + Len(b.window) - (Len(p) - 1)]
  <2>1. b.window \in Seq(Outcomes) /\ Len(b.window) <= n
    BY <1>2
  <2> DEFINE w == b.window
             q == Push(w, n, outcome)
  <2>2. p = q
    BY <1>3
  <2> HIDE DEF w
  <2>3. /\ q \in Seq(Outcomes)
        /\ Len(q) \in 1 .. n
        /\ Len(q) - 1 <= Len(w)
        /\ q[Len(q)] = outcome
        /\ \A i \in 1 .. Len(q) - 1 : q[i] = w[i + Len(w) - (Len(q) - 1)]
    <3>1. w \in Seq(Outcomes) /\ Len(w) <= n
      BY <2>1 DEF w
    <3> QED
      BY <1>1, <3>1, PushShifts
  <2> QED
    BY <2>2, <2>3 DEF w
<1>5. l \in Breaker
  <2>1. p \in Seq(Outcomes) /\ p = Push(b.window, FailureThreshold[t], outcome)
    BY <1>3, <1>4 DEF n
  <2> QED
    BY <1>2, <2>1 DEF Logged, Breaker
<1> HIDE DEF l
<1>6. CASE outcome = "failure"
  <2> DEFINE s == Len(b.window) - (Len(p) - 1)
  <2>1. /\ s \in Nat /\ Len(p) \in Nat /\ Len(b.window) \in Nat
        /\ l.consecutive = b.consecutive + 1 /\ l.consecutive \in Nat
    BY <1>2, <1>3, <1>4, <1>6
  <2>2. ASSUME NEW i \in 1 .. Len(p), i > Len(p) - l.consecutive PROVE p[i] = "failure"
    <3>1. CASE i = Len(p)
      BY <1>4, <1>6, <3>1
    <3>2. CASE i < Len(p)
      <4>1. /\ i + s \in 1 .. Len(b.window)
            /\ i + s > Len(b.window) - b.consecutive
            /\ i \in 1 .. Len(p) - 1
        BY <1>2, <2>1, <2>2, <3>2
      <4>2. b.window[i + s] = "failure"
        BY <4>1 DEF Counted
      <4> QED
        BY <1>4, <4>1, <4>2
    <3> QED
      BY <2>1, <3>1, <3>2
  <2>3. ASSUME l.consecutive < Len(p) PROVE p[Len(p) - l.consecutive] # "failure"
    <3> DEFINE i == Len(p) - l.consecutive
    <3>1. b.consecutive \in Nat /\ b.consecutive + 1 < Len(p)
      BY <1>2, <2>1, <2>3
    <3>2. i \in 1 .. Len(p) - 1
      BY <2>1, <3>1
    <3>3. i + s = Len(b.window) - b.consecutive
      BY <2>1, <3>1
    <3>4. b.consecutive < Len(b.window)
      BY <2>1, <3>1
    <3>5. b.window[i + s] # "failure"
      BY <3>3, <3>4 DEF Counted
    <3> QED
      BY <1>4, <3>2, <3>5
  <2> QED
    BY <1>3, <1>4, <1>5, <1>6, <2>2, <2>3 DEF Counted, n, p, l
<1>7. CASE outcome = "success"
  <2>1. l.consecutive = 0
    BY <1>3, <1>7
  <2> QED
    BY <1>3, <1>4, <1>5, <1>7, <2>1 DEF Counted, n, p, l
<1> QED
  BY <1>6, <1>7 DEF l, Outcomes

\* what holds of each breaker
GoodBreaker(t, b) == b \in Breaker /\ Sound(t, b)

GoodBreakers(brk) == brk \in [Tiers -> Breaker] /\ \A t \in Tiers : GoodBreaker(t, brk[t])

\* ReadKeeps: looking at a breaker leaves counter and window alone.
LEMMA ReadKeeps ==
    ASSUME NEW t \in Tiers, NEW b, GoodBreaker(t, b)
    PROVE  GoodBreaker(t, Read(b))
BY DEF GoodBreaker, Sound, Read, Breaker

\* SuccessKeeps: a breaker that closes has just forgotten its failures in a row.
LEMMA SuccessKeeps ==
    ASSUME NEW t \in Tiers, NEW b, GoodBreaker(t, b)
    PROVE  GoodBreaker(t, RecordSuccess(t, b))
<1> DEFINE l == Logged(t, b, "success")
<1>1. /\ l \in Breaker /\ Counted(t, l)
      /\ l.state = b.state /\ l.consecutive = 0
  BY LoggedCounted DEF GoodBreaker, Sound, Counted, Outcomes
<1>2. FailureThreshold[t] \in Nat \ {0}
  BY BreakerAssumption
<1>3. RecordSuccess(t, b) = l \/ RecordSuccess(t, b) = [l EXCEPT !.state = "closed"]
  BY DEF RecordSuccess
<1> HIDE DEF l
<1> QED
  BY <1>1, <1>2, <1>3 DEF GoodBreaker, Sound, Counted, Breaker

\* FailureKeeps: a failure that leaves the breaker closed is below the threshold.
LEMMA FailureKeeps ==
    ASSUME NEW t \in Tiers, NEW b, GoodBreaker(t, b)
    PROVE  GoodBreaker(t, RecordFailure(t, b))
<1> DEFINE l == Logged(t, b, "failure")
<1>1. l \in Breaker /\ Counted(t, l) /\ l.state = b.state
  BY LoggedCounted DEF GoodBreaker, Sound, Counted, Outcomes
<1>2. FailureThreshold[t] \in Nat \ {0}
  BY BreakerAssumption
<1>3. CASE b.state = "half_open" \/ (b.state = "closed" /\ Trips(t, l))
  <2>1. RecordFailure(t, b) = [l EXCEPT !.state = "open", !.cooled = FALSE]
    BY <1>3 DEF RecordFailure
  <2> HIDE DEF l
  <2> QED
    BY <1>1, <2>1 DEF GoodBreaker, Sound, Counted, Breaker
<1>4. CASE ~(b.state = "half_open" \/ (b.state = "closed" /\ Trips(t, l)))
  <2>1. RecordFailure(t, b) = l
    BY <1>4 DEF RecordFailure
  <2>2. b.state = "closed" => ~(l.consecutive >= FailureThreshold[t])
    BY <1>4 DEF Trips
  <2> HIDE DEF l
  <2>3. l.state = "closed" => l.consecutive < FailureThreshold[t]
    BY <1>1, <1>2, <2>2 DEF Breaker
  <2> QED
    BY <1>1, <2>1, <2>3 DEF GoodBreaker, Sound, Counted
<1> QED
  BY <1>3, <1>4

\* OneBreaker: a step that replaces one breaker by a good one keeps them all.
LEMMA OneBreaker ==
    ASSUME NEW brk, GoodBreakers(brk), NEW t \in Tiers, NEW b, GoodBreaker(t, b)
    PROVE  GoodBreakers([brk EXCEPT ![t] = b])
BY DEF GoodBreakers, GoodBreaker
-----------------------------------------------------------------------------
\* what holds of each request: only a call that is under way has yielded, only from
\* its own tier, and a stream on its way to a call has made at most one before
GoodWalk(w) ==
    /\ w \in Walk
    /\ w.output # {} => /\ w.output = {Chain[w.place]}
                        /\ w.pc \in {"call", "reply", "done"}
    /\ w.kind = "stream" =>
        /\ w.attempts <= 2
        /\ w.pc \in {"quota", "granted", "denied"} => w.attempts < 2

GoodWalks == walk \in [Callers -> Walk] /\ \A c \in Callers : GoodWalk(walk[c])

\* IdleWalk: the record of a request that has ended is one of them.
LEMMA IdleWalk == GoodWalk(NoWalk)
BY ChainAssumption DEF GoodWalk, NoWalk, Walk, Places

\* OneWalk: a step that replaces the record of one request by a good one keeps them all.
LEMMA OneWalk ==
    ASSUME GoodWalks, NEW c \in Callers, NEW w, GoodWalk(w),
           walk' = [walk EXCEPT ![c] = w]
    PROVE  GoodWalks'
<1>1. walk' \in [Callers -> Walk] /\ \A d \in Callers : GoodWalk(walk'[d])
  BY DEF GoodWalks, GoodWalk
<1> QED
  BY <1>1 DEF GoodWalks, GoodWalk, Walk, Places

\* LoopKeeps: the loop ends the request or brings it to the quota of one more tier.
LEMMA LoopKeeps ==
    ASSUME GoodWalks, NEW c \in Callers, NEW w, GoodWalk(w), w.output = {},
           NEW place, NEW brk, GoodBreakers(brk),
           \/ Consult(c, w, place, brk)
           \/ \E outOfBudget \in BOOLEAN : Exhaust(c, w, place, brk, outOfBudget)
    PROVE  GoodWalks' /\ GoodBreakers(breaker')
<1>1. CASE Consult(c, w, place, brk)
  <2>1. PICK i \in Places :
           /\ breaker' = [brk EXCEPT ![Chain[i]] = Read(brk[Chain[i]])]
           /\ walk' = [walk EXCEPT ![c] = [w EXCEPT !.pc = "quota", !.place = i]]
    BY <1>1 DEF Consult
  <2>2. Chain[i] \in Tiers
    BY ChainAssumption DEF Places
  <2>3. GoodBreakers(breaker')
    <3>1. GoodBreaker(Chain[i], Read(brk[Chain[i]]))
      BY <2>2, ReadKeeps DEF GoodBreakers
    <3> QED
      BY <2>1, <2>2, <3>1, OneBreaker
  <2>4. GoodWalk([w EXCEPT !.pc = "quota", !.place = i])
    <3>1. w.kind = "stream" => w.attempts < 2
      BY <1>1 DEF Consult
    <3> QED
      BY <3>1 DEF GoodWalk, Walk
  <2> QED
    BY <2>1, <2>3, <2>4, OneWalk
<1>2. CASE \E outOfBudget \in BOOLEAN : Exhaust(c, w, place, brk, outOfBudget)
  <2>1. breaker' = brk /\ walk' = [walk EXCEPT ![c] = NoWalk]
    BY <1>2 DEF Exhaust
  <2> QED
    BY <2>1, IdleWalk, OneWalk
<1> QED
  BY <1>1, <1>2
-----------------------------------------------------------------------------
\* the inductive invariant
ChainInv == ChainTypeOK /\ GoodBreakers(breaker) /\ GoodWalks

\* ChainInit: the initial state, with closed breakers and no request, satisfies it.
LEMMA ChainInit == Init => ChainInv
<1> SUFFICES ASSUME Init PROVE ChainInv
  OBVIOUS
<1>1. \A t \in Tiers : GoodBreaker(t, NewBreaker)
  <2>1. << >> \in Seq(Outcomes) /\ Len(<< >>) = 0
    OBVIOUS
  <2> QED
    BY <2>1, BreakerAssumption DEF GoodBreaker, NewBreaker, Breaker, Sound
<1>2. GoodBreakers(breaker)
  BY <1>1 DEF Init, GoodBreakers, GoodBreaker
<1>3. GoodWalks
  BY IdleWalk DEF Init, GoodWalks, GoodWalk
<1>4. ChainTypeOK
  <2>1. breaker \in [Tiers -> Breaker] /\ walk \in [Callers -> Walk]
    BY <1>2, <1>3 DEF GoodBreakers, GoodWalks
  <2>2. /\ reserved \in [Tiers -> Nat] /\ header \in [Tiers -> {"none", "left", "exhausted"}]
        /\ neurons \in Nat
        /\ walks \in 0 .. MaxWalks /\ days \in 0 .. MaxDays /\ faults \in 0 .. MaxFaults
    BY ChainAssumption DEF Init
  <2>3. touched \in BOOLEAN
    BY DEF Init
  <2> QED
    BY <2>1, <2>2, <2>3 DEF ChainTypeOK
<1> QED
  BY <1>2, <1>3, <1>4 DEF ChainInv

\* WalksStep: every action that moves a request leaves requests and breakers good.
LEMMA WalksStep ==
    ASSUME ChainInv, NEW c \in Callers, WalkStep(c)
    PROVE  GoodWalks' /\ GoodBreakers(breaker')
<1> DEFINE t == Tier(c)
           w == walk[c]
<1>0. /\ GoodWalks /\ GoodBreakers(breaker) /\ GoodWalk(w) /\ w \in Walk
      /\ t \in Tiers /\ t = Chain[w.place] /\ GoodBreaker(t, breaker[t])
  <2>1. GoodWalk(w) /\ w \in Walk
    BY DEF ChainInv, GoodWalks, GoodWalk
  <2>2. t \in Tiers /\ t = Chain[w.place]
    BY <2>1, ChainAssumption DEF Tier, Walk, Places
  <2> QED
    BY <2>1, <2>2 DEF ChainInv, GoodBreakers
<1>g. ASSUME NEW pc \in {"granted", "denied", "reply", "done"},
             Goto(c, pc), w.output = {} \/ pc \in {"reply", "done"},
             pc \in {"granted", "denied"} => w.pc = "quota",
             UNCHANGED breaker
      PROVE  GoodWalks' /\ GoodBreakers(breaker')
  <2> DEFINE v == [w EXCEPT !.pc = pc]
  <2>1. walk' = [walk EXCEPT ![c] = v]
    BY <1>0, <1>g DEF Goto, GoodWalks
  <2>2. GoodWalk(v)
    BY <1>0, <1>g DEF GoodWalk, Walk
  <2> QED
    BY <1>0, <1>g, <2>1, <2>2, OneWalk
<1>e. ASSUME walk' = [walk EXCEPT ![c] = NoWalk], GoodBreakers(breaker')
      PROVE  GoodWalks' /\ GoodBreakers(breaker')
  BY <1>0, <1>e, IdleWalk, OneWalk
<1>1. CASE StartWalk(c)
  <2>1. PICK kind \in Kinds :
           LET v == [NoWalk EXCEPT !.kind = kind]
           IN  Consult(c, v, 1, breaker) \/ Exhaust(c, v, 1, breaker, FALSE)
    BY <1>1 DEF StartWalk
  <2>2. GoodWalk([NoWalk EXCEPT !.kind = kind]) /\ [NoWalk EXCEPT !.kind = kind].output = {}
    BY ChainAssumption DEF GoodWalk, NoWalk, Walk, Places
  <2> QED
    BY <1>0, <2>1, <2>2, LoopKeeps
<1>2. CASE CheckQuota(c) \/ CheckFails(c)
  <2>1. PICK pc \in {"granted", "denied"} : Goto(c, pc)
    BY <1>2 DEF CheckQuota, CheckFails
  <2>2. w.pc = "quota" /\ UNCHANGED breaker
    BY <1>2 DEF CheckQuota, CheckFails
  <2> QED
    BY <1>0, <1>g, <2>1, <2>2 DEF GoodWalk
<1>3. CASE SkipTier(c)
  <2>1. w.pc = "denied" /\ Continue(c, w.place + 1, breaker)
    BY <1>3 DEF SkipTier
  <2>2. w.output = {}
    BY <1>0, <2>1 DEF GoodWalk
  <2> QED
    BY <1>0, <2>1, <2>2, LoopKeeps DEF Continue
<1>4. CASE Dispatch(c)
  <2> DEFINE v == [w EXCEPT !.pc = "call", !.attempts = w.attempts + 1]
  <2>1. walk' = [walk EXCEPT ![c] = v]
    BY <1>0, <1>4 DEF Dispatch, GoodWalks
  <2>2. w.pc = "granted" /\ UNCHANGED breaker
    BY <1>4 DEF Dispatch
  <2>3. w.attempts \in Nat /\ w.output = {} /\ (w.kind = "stream" => w.attempts < 2)
    BY <1>0, <2>2 DEF GoodWalk, Walk
  <2>4. v \in Walk /\ v.output = {} /\ v.attempts = w.attempts + 1 /\ v.kind = w.kind
    <3>1. ASSUME NEW u \in Walk, NEW n \in Nat
          PROVE  LET x == [u EXCEPT !.pc = "call", !.attempts = n]
                 IN  x \in Walk /\ x.output = u.output /\ x.attempts = n /\ x.kind = u.kind
      BY <3>1 DEF Walk
    <3>2. w.attempts + 1 \in Nat
      BY <2>3
    <3> QED
      BY <1>0, <2>3, <3>1, <3>2
  <2>5. GoodWalk(v)
    BY <2>3, <2>4 DEF GoodWalk
  <2> QED
    BY <1>0, <2>1, <2>2, <2>5, OneWalk
<1>5. CASE Token(c)
  <2> DEFINE v == [w EXCEPT !.output = w.output \cup {t}]
  <2>1. walk' = [walk EXCEPT ![c] = v]
    BY <1>0, <1>5 DEF Token, GoodWalks
  <2>2. w.pc = "call" /\ UNCHANGED breaker
    BY <1>5 DEF Token
  <2>3. GoodWalk(v)
    BY <1>0, <2>2 DEF GoodWalk, Walk
  <2> QED
    BY <1>0, <2>1, <2>2, <2>3, OneWalk
<1>6. CASE Reply(c) \/ RecordQuota(c) \/ RecordFails(c)
  <2>1. PICK pc \in {"reply", "done"} : Goto(c, pc)
    BY <1>6 DEF Reply, RecordQuota, RecordFails
  <2>2. UNCHANGED breaker
    BY <1>6 DEF Reply, RecordQuota, RecordFails
  <2> QED
    BY <1>g, <2>1, <2>2
<1>7. CASE CallFails(c)
  <2> DEFINE brk == [breaker EXCEPT ![t] = RecordFailure(t, breaker[t])]
  <2>1. GoodBreakers(brk)
    <3>1. GoodBreaker(t, RecordFailure(t, breaker[t]))
      BY <1>0, FailureKeeps
    <3> QED
      BY <1>0, <3>1, OneBreaker
  <2>2. CASE w.output # {}
    <3>1. breaker' = brk /\ walk' = [walk EXCEPT ![c] = NoWalk]
      BY <1>7, <2>2 DEF CallFails
    <3> QED
      BY <1>e, <2>1, <3>1
  <2>3. CASE w.output = {}
    <3>1. Continue(c, w.place + 1, brk)
      BY <1>7, <2>3 DEF CallFails
    <3> HIDE DEF brk
    <3> QED
      BY <1>0, <2>1, <2>3, <3>1, LoopKeeps DEF Continue
  <2> QED
    BY <2>2, <2>3
<1>8. CASE Succeed(c)
  <2>1. GoodBreaker(t, RecordSuccess(t, breaker[t]))
    BY <1>0, SuccessKeeps
  <2>2. GoodBreakers([breaker EXCEPT ![t] = RecordSuccess(t, breaker[t])])
    BY <1>0, <2>1, OneBreaker
  <2> QED
    BY <1>8, <1>e, <2>2 DEF Succeed
<1>9. CASE Cancel(c)
  BY <1>0, <1>9, <1>e DEF Cancel
<1> QED
  BY <1>1, <1>2, <1>3, <1>4, <1>5, <1>6, <1>7, <1>8, <1>9 DEF WalkStep

\* QuotasStep: the quotas and the bounds stay typed; a reservation expires only if
\* there is one more than there are calls.
LEMMA QuotasStep ==
    ASSUME ChainInv, [Next]_vars
    PROVE  /\ reserved' \in [Tiers -> Nat]
           /\ header' \in [Tiers -> {"none", "left", "exhausted"}]
           /\ neurons' \in Nat /\ touched' \in BOOLEAN
           /\ walks' \in 0 .. MaxWalks /\ days' \in 0 .. MaxDays /\ faults' \in 0 .. MaxFaults
<1>0. /\ reserved \in [Tiers -> Nat]
      /\ header \in [Tiers -> {"none", "left", "exhausted"}]
      /\ neurons \in Nat /\ touched \in BOOLEAN
      /\ walks \in 0 .. MaxWalks /\ days \in 0 .. MaxDays /\ faults \in 0 .. MaxFaults
  BY DEF ChainInv, ChainTypeOK
<1>1. reserved' \in [Tiers -> Nat]
  <2>1. CASE UNCHANGED reserved
    BY <1>0, <2>1
  <2>2. ASSUME NEW c \in Callers, CheckQuota(c) PROVE reserved' \in [Tiers -> Nat]
    <3>1. reserved' = reserved \/ reserved' = [reserved EXCEPT ![Tier(c)] = reserved[Tier(c)] + 1]
      BY <2>2 DEF CheckQuota, Reserve
    <3> QED
      BY <1>0, <3>1
  <2>3. ASSUME NEW t \in Tiers, ReservationExpires(t) PROVE reserved' \in [Tiers -> Nat]
    <3>1. reserved' = [reserved EXCEPT ![t] = reserved[t] - 1] /\ reserved[t] > Cardinality(Calling(t))
      BY <2>3 DEF ReservationExpires
    <3>2. Cardinality(Calling(t)) \in Nat
      BY ChainAssumption, FS_Subset, FS_CardinalityType DEF Calling
    <3> QED
      BY <1>0, <3>1, <3>2
  <2> QED
    BY <2>1, <2>2, <2>3
    DEF Next, WalkStep, Clock, vars, quotaVars, StartWalk, CheckFails, SkipTier, Dispatch,
        Token, Reply, CallFails, RecordQuota, RecordFails, Succeed, Cancel, CoolDown,
        ReadState, HeaderExpires, PoolExpires, NewDay
<1>2. header' \in [Tiers -> {"none", "left", "exhausted"}]
  <2>1. CASE UNCHANGED header
    BY <1>0, <2>1
  <2>2. ASSUME NEW c \in Callers, RecordQuota(c), ~UNCHANGED header
        PROVE  header' \in [Tiers -> {"none", "left", "exhausted"}]
    <3>1. PICK r \in {header[Tier(c)], "left", "exhausted"} :
             header' = [header EXCEPT ![Tier(c)] = r]
      BY <2>2 DEF RecordQuota, RecordHeader, RecordNeurons, RecordNothing
    <3>2. Tier(c) \in Tiers
      BY ChainAssumption DEF ChainInv, ChainTypeOK, Tier, Walk, Places
    <3> QED
      BY <1>0, <3>1, <3>2
  <2>3. ASSUME NEW t \in Tiers, HeaderExpires(t)
        PROVE  header' \in [Tiers -> {"none", "left", "exhausted"}]
    BY <1>0, <2>3 DEF HeaderExpires
  <2> QED
    BY <2>1, <2>2, <2>3
    DEF Next, WalkStep, Clock, vars, quotaVars, StartWalk, CheckQuota, CheckFails, SkipTier,
        Dispatch, Token, Reply, CallFails, RecordFails, Succeed, Cancel, CoolDown,
        ReadState, ReservationExpires, PoolExpires, NewDay
<1>3. neurons' \in Nat /\ touched' \in BOOLEAN
  <2>1. CASE UNCHANGED <<neurons, touched>>
    BY <1>0, <2>1
  <2>2. ASSUME NEW c \in Callers, RecordQuota(c), ~UNCHANGED <<neurons, touched>>
        PROVE  neurons' \in Nat /\ touched' \in BOOLEAN
    <3>1. neurons' = neurons + 1 /\ touched' = TRUE
      BY <2>2 DEF RecordQuota, RecordHeader, RecordNeurons, RecordNothing
    <3>2. neurons' \in Nat
      BY <1>0, <3>1
    <3> QED
      BY <3>1, <3>2
  <2>3. CASE PoolExpires
    BY <1>0, <2>3 DEF PoolExpires
  <2>4. CASE NewDay
    BY <1>0, <2>4 DEF NewDay
  <2> QED
    BY <2>1, <2>2, <2>3, <2>4
    DEF Next, WalkStep, Clock, vars, quotaVars, StartWalk, CheckQuota, CheckFails, SkipTier,
        Dispatch, Token, Reply, CallFails, RecordFails, Succeed, Cancel, CoolDown,
        ReadState, ReservationExpires, HeaderExpires
<1>4. walks' \in 0 .. MaxWalks /\ days' \in 0 .. MaxDays /\ faults' \in 0 .. MaxFaults
  <2>1. CASE UNCHANGED bounds
    BY <1>0, <2>1 DEF bounds
  <2>2. ASSUME NEW c \in Callers, StartWalk(c) \/ CheckFails(c) \/ RecordFails(c) \/ Cancel(c)
        PROVE  walks' \in 0 .. MaxWalks /\ days' \in 0 .. MaxDays /\ faults' \in 0 .. MaxFaults
    <3>1. /\ days' = days
          /\ \/ walks < MaxWalks /\ walks' = walks + 1 /\ faults' = faults
             \/ faults < MaxFaults /\ faults' = faults + 1 /\ walks' = walks
      BY <2>2 DEF StartWalk, CheckFails, RecordFails, Cancel
    <3> QED
      BY <1>0, <3>1, ChainAssumption
  <2>3. CASE NewDay
    BY <1>0, <2>3, ChainAssumption DEF NewDay
  <2> QED
    BY <2>1, <2>2, <2>3
    DEF Next, WalkStep, Clock, vars, CheckQuota, SkipTier, Dispatch, Token, Reply,
        CallFails, RecordQuota, Succeed, CoolDown, ReadState, ReservationExpires,
        HeaderExpires, PoolExpires, bounds
<1> QED
  BY <1>1, <1>2, <1>3, <1>4

\* ChainStep: the invariant is inductive.
LEMMA ChainStep ==
    ASSUME ChainInv, [Next]_vars
    PROVE  ChainInv'
<1>0. GoodBreakers(breaker) /\ GoodWalks
  BY DEF ChainInv
<1>1. GoodWalks' /\ GoodBreakers(breaker')
  <2>1. ASSUME NEW c \in Callers, WalkStep(c) PROVE GoodWalks' /\ GoodBreakers(breaker')
    BY <2>1, WalksStep
  <2>2. CASE UNCHANGED <<walk, breaker>>
    <3>1. walk' \in [Callers -> Walk] /\ \A c \in Callers : GoodWalk(walk'[c])
      BY <1>0, <2>2 DEF GoodWalks
    <3> QED
      BY <1>0, <2>2, <3>1 DEF GoodWalks, GoodWalk, Walk, Places
  <2>3. ASSUME NEW t \in Tiers, CoolDown(t) \/ ReadState(t)
        PROVE  GoodWalks' /\ GoodBreakers(breaker')
    <3> DEFINE b == breaker[t]
    <3>1. GoodBreaker(t, b)
      BY <1>0 DEF GoodBreakers
    <3>2. GoodBreaker(t, Read(b)) /\ GoodBreaker(t, [b EXCEPT !.cooled = TRUE])
      <4>1. GoodBreaker(t, Read(b))
        BY <3>1, ReadKeeps
      <4> HIDE DEF b
      <4>2. GoodBreaker(t, [b EXCEPT !.cooled = TRUE])
        BY <3>1 DEF GoodBreaker, Sound, Breaker
      <4> QED
        BY <4>1, <4>2
    <3>3. PICK d \in {Read(b), [b EXCEPT !.cooled = TRUE]} :
             breaker' = [breaker EXCEPT ![t] = d]
      BY <1>0, <2>3 DEF CoolDown, ReadState, GoodBreakers
    <3>4. GoodBreakers(breaker')
      <4>1. GoodBreaker(t, d)
        BY <3>2, <3>3
      <4> QED
        BY <1>0, <3>3, <4>1, OneBreaker
    <3>5. GoodWalks'
      <4>1. walk' = walk
        BY <2>3 DEF CoolDown, ReadState
      <4> QED
        BY <1>0, <4>1 DEF GoodWalks, GoodWalk, Walk, Places
    <3> QED
      BY <3>4, <3>5
  <2> QED
    BY <2>1, <2>2, <2>3
    DEF Next, Clock, vars, ReservationExpires, HeaderExpires, PoolExpires, NewDay
<1>2. breaker' \in [Tiers -> Breaker] /\ walk' \in [Callers -> Walk]
  BY <1>1 DEF GoodBreakers, GoodWalks, Walk, Places
<1>3. ChainTypeOK'
  BY <1>2, QuotasStep DEF ChainTypeOK, Walk, Places
<1> QED
  BY <1>1, <1>3 DEF ChainInv, GoodBreakers, GoodBreaker, Sound, Breaker

\* InferenceSafety: for any chain, thresholds and number of requests, every reachable
\* state is well typed, the counter of a breaker is the run of failures at the end of
\* its window and below its threshold while it is closed, and no caller gets tokens
\* of two tiers.
THEOREM InferenceSafety == Spec => [](ChainTypeOK /\ BreakersSound /\ OneTierOutput)
<1>1. ChainInv /\ [Next]_vars => ChainInv'
  BY ChainStep
<1>2. ChainInv => ChainTypeOK /\ BreakersSound /\ OneTierOutput
  <2> SUFFICES ASSUME ChainInv PROVE ChainTypeOK /\ BreakersSound /\ OneTierOutput
    OBVIOUS
  <2>1. BreakersSound
    BY DEF ChainInv, GoodBreakers, GoodBreaker, BreakersSound
  <2>2. OneTierOutput
    BY DEF ChainInv, GoodWalks, GoodWalk, OneTierOutput, Tier
  <2> QED
    BY <2>1, <2>2 DEF ChainInv
<1> QED
  BY <1>1, <1>2, ChainInit, PTL DEF Spec
-----------------------------------------------------------------------------
\* A call at a provider of a sliding window is covered by a reservation that is still
\* there, or by a check that failed open; and there are no more reservations than
\* the window holds.
Reservations ==
    \A t \in Tiers : QuotaKind[t] = "sliding" =>
        /\ reserved[t] <= Ceiling
        /\ Cardinality(Calling(t)) <= reserved[t] + faults

\* CallingFinite: the calls at a provider can be counted, before and after a step.
LEMMA CallingFinite ==
    ASSUME NEW t \in Tiers
    PROVE  /\ IsFiniteSet(Calling(t)) /\ Cardinality(Calling(t)) \in Nat
           /\ IsFiniteSet(Calling(t)') /\ Cardinality(Calling(t)') \in Nat
<1>1. Calling(t) \subseteq Callers /\ Calling(t)' \subseteq Callers
  BY DEF Calling
<1> QED
  BY <1>1, ChainAssumption, FS_Subset, FS_CardinalityType

\* CallingFewer, CallingOneMore: what the steps below do to the count.
LEMMA CallingFewer ==
    ASSUME NEW t \in Tiers, Calling(t)' \subseteq Calling(t)
    PROVE  Cardinality(Calling(t)') <= Cardinality(Calling(t))
BY CallingFinite, FS_Subset

LEMMA CallingOneMore ==
    ASSUME NEW t \in Tiers, NEW c, Calling(t)' \subseteq Calling(t) \cup {c}
    PROVE  Cardinality(Calling(t)') <= Cardinality(Calling(t)) + 1
<1> DEFINE S == Calling(t)
           T == Calling(t)'
<1>1. IsFiniteSet(S) /\ Cardinality(S) \in Nat /\ Cardinality(T) \in Nat
  BY CallingFinite
<1>2. /\ IsFiniteSet(S \cup {c})
      /\ Cardinality(S \cup {c}) \in {Cardinality(S), Cardinality(S) + 1}
  BY <1>1, FS_AddElement
<1>3. Cardinality(T) <= Cardinality(S \cup {c})
  BY <1>2, FS_Subset
<1> HIDE DEF S, T
<1>4. Cardinality(T) <= Cardinality(S) + 1
  BY <1>1, <1>2, <1>3
<1> QED
  BY <1>4 DEF S, T

\* CallingGrows: a request gets to a provider only through the check of its quota.
LEMMA CallingGrows ==
    ASSUME ChainInv, [Next]_vars, NEW t \in Tiers
    PROVE  \/ Calling(t)' \subseteq Calling(t)
           \/ \E c \in Callers : /\ CheckQuota(c) \/ CheckFails(c)
                                 /\ Tier(c) = t
                                 /\ walk'[c].pc = "granted"
                                 /\ Calling(t)' \subseteq Calling(t) \cup {c}
<1>w. walk \in [Callers -> Walk]
  BY DEF ChainInv, ChainTypeOK
\* a request that its step does not bring to the provider
<1>o. ASSUME NEW c \in Callers,
             \A d \in Callers \ {c} : walk'[d] = walk[d],
             walk'[c].pc \in {"granted", "call"} =>
                walk[c].pc \in {"granted", "call"} /\ walk'[c].place = walk[c].place
      PROVE  Calling(t)' \subseteq Calling(t)
  BY <1>o DEF Calling, Tier
<1>g. ASSUME NEW c \in Callers, NEW pc, Goto(c, pc)
      PROVE  /\ \A d \in Callers \ {c} : walk'[d] = walk[d]
             /\ walk'[c].pc = pc /\ walk'[c].place = walk[c].place
  BY <1>w, <1>g DEF Goto, Walk
<1>e. ASSUME NEW c \in Callers, walk' = [walk EXCEPT ![c] = NoWalk]
      PROVE  Calling(t)' \subseteq Calling(t)
  <2>1. walk'[c].pc = "idle" /\ \A d \in Callers \ {c} : walk'[d] = walk[d]
    BY <1>w, <1>e DEF NoWalk
  <2> QED
    BY <1>o, <2>1
<1>l. ASSUME NEW c \in Callers, NEW w \in Walk, NEW place, NEW brk,
             \/ Consult(c, w, place, brk)
             \/ \E outOfBudget \in BOOLEAN : Exhaust(c, w, place, brk, outOfBudget)
      PROVE  Calling(t)' \subseteq Calling(t)
  <2>1. ASSUME NEW i \in Places,
               walk' = [walk EXCEPT ![c] = [w EXCEPT !.pc = "quota", !.place = i]]
        PROVE  Calling(t)' \subseteq Calling(t)
    <3>1. walk'[c].pc = "quota" /\ \A d \in Callers \ {c} : walk'[d] = walk[d]
      BY <1>w, <2>1 DEF Walk
    <3> QED
      BY <1>o, <3>1
  <2> QED
    BY <1>e, <1>l, <2>1 DEF Consult, Exhaust
<1>1. ASSUME NEW c \in Callers, StartWalk(c) PROVE Calling(t)' \subseteq Calling(t)
  <2>1. PICK kind \in Kinds :
           LET v == [NoWalk EXCEPT !.kind = kind]
           IN  Consult(c, v, 1, breaker) \/ Exhaust(c, v, 1, breaker, FALSE)
    BY <1>1 DEF StartWalk
  <2>2. [NoWalk EXCEPT !.kind = kind] \in Walk
    BY ChainAssumption DEF NoWalk, Walk, Places
  <2> QED
    BY <1>l, <2>1, <2>2
<1>2. ASSUME NEW c \in Callers, SkipTier(c) \/ CallFails(c)
      PROVE  Calling(t)' \subseteq Calling(t)
  <2>1. \/ \E place, brk : Continue(c, place, brk)
        \/ walk' = [walk EXCEPT ![c] = NoWalk]
    BY <1>2 DEF SkipTier, CallFails
  <2> QED
    BY <1>e, <1>l, <1>w, <2>1 DEF Continue
<1>3. ASSUME NEW c \in Callers, Dispatch(c) PROVE Calling(t)' \subseteq Calling(t)
  <2>1. /\ \A d \in Callers \ {c} : walk'[d] = walk[d]
        /\ walk'[c].place = walk[c].place
    BY <1>w, <1>3 DEF Dispatch, Walk
  <2> QED
    BY <1>3, <1>o, <2>1 DEF Dispatch
<1>4. ASSUME NEW c \in Callers, Token(c) PROVE Calling(t)' \subseteq Calling(t)
  <2>1. /\ \A d \in Callers \ {c} : walk'[d] = walk[d]
        /\ walk'[c].place = walk[c].place
    BY <1>w, <1>4 DEF Token, Walk
  <2> QED
    BY <1>4, <1>o, <2>1 DEF Token
<1>5. ASSUME NEW c \in Callers, Reply(c) \/ RecordQuota(c) \/ RecordFails(c)
      PROVE  Calling(t)' \subseteq Calling(t)
  <2>1. PICK pc \in {"reply", "done"} : Goto(c, pc)
    BY <1>5 DEF Reply, RecordQuota, RecordFails
  <2> QED
    BY <1>g, <1>o, <2>1
<1>6. ASSUME NEW c \in Callers, Succeed(c) \/ Cancel(c)
      PROVE  Calling(t)' \subseteq Calling(t)
  BY <1>e, <1>6 DEF Succeed, Cancel
<1>7. ASSUME NEW c \in Callers, CheckQuota(c) \/ CheckFails(c)
      PROVE  \/ Calling(t)' \subseteq Calling(t)
             \/ /\ Tier(c) = t
                /\ walk'[c].pc = "granted"
                /\ Calling(t)' \subseteq Calling(t) \cup {c}
  <2>1. PICK pc \in {"granted", "denied"} : Goto(c, pc)
    BY <1>7 DEF CheckQuota, CheckFails
  <2>2. /\ \A d \in Callers \ {c} : walk'[d] = walk[d]
        /\ walk'[c].pc = pc /\ walk'[c].place = walk[c].place
    BY <1>g, <2>1
  <2>3. CASE pc = "granted" /\ Tier(c) = t
    BY <2>2, <2>3 DEF Calling, Tier
  <2>4. CASE pc = "denied"
    BY <1>o, <2>2, <2>4
  <2>5. CASE Tier(c) # t
    BY <2>2, <2>5 DEF Calling, Tier
  <2> QED
    BY <2>1, <2>3, <2>4, <2>5
<1>8. ASSUME UNCHANGED walk PROVE Calling(t)' \subseteq Calling(t)
  BY <1>8 DEF Calling, Tier
<1> QED
  BY <1>1, <1>2, <1>3, <1>4, <1>5, <1>6, <1>7, <1>8
  DEF Next, WalkStep, Clock, vars, CoolDown, ReadState, ReservationExpires,
      HeaderExpires, PoolExpires, NewDay

\* ReservedEffects: only a check takes a reservation, and none expires under a call.
LEMMA ReservedEffects ==
    ASSUME ChainInv, [Next]_vars, NEW t \in Tiers, QuotaKind[t] = "sliding"
    PROVE  \/ reserved'[t] = reserved[t]
           \/ reserved'[t] = reserved[t] + 1 /\ reserved[t] < Ceiling
           \/ /\ reserved'[t] = reserved[t] - 1
              /\ reserved[t] > Cardinality(Calling(t))
              /\ UNCHANGED walk
<1>r. reserved \in [Tiers -> Nat]
  BY DEF ChainInv, ChainTypeOK
<1>1. ASSUME NEW c \in Callers, CheckQuota(c)
      PROVE  \/ reserved'[t] = reserved[t]
             \/ reserved'[t] = reserved[t] + 1 /\ reserved[t] < Ceiling
  BY <1>1, <1>r DEF CheckQuota, Reserve, QuotaLeft
<1>2. ASSUME NEW u \in Tiers, ReservationExpires(u)
      PROVE  \/ reserved'[t] = reserved[t]
             \/ /\ reserved'[t] = reserved[t] - 1
                /\ reserved[t] > Cardinality(Calling(t))
                /\ UNCHANGED walk
  BY <1>2, <1>r DEF ReservationExpires
<1>3. CASE UNCHANGED reserved
  BY <1>3
<1> QED
  BY <1>1, <1>2, <1>3
  DEF Next, WalkStep, Clock, vars, quotaVars, StartWalk, CheckFails, SkipTier, Dispatch,
      Token, Reply, CallFails, RecordQuota, RecordFails, Succeed, Cancel, CoolDown,
      ReadState, HeaderExpires, PoolExpires, NewDay

\* CheckReserves: a check that lets a request by has paid with a reservation or, when
\* Redis is not there, with a fault.
LEMMA CheckReserves ==
    ASSUME ChainInv, NEW c \in Callers, CheckQuota(c) \/ CheckFails(c),
           QuotaKind[Tier(c)] = "sliding", walk'[c].pc = "granted"
    PROVE  \/ reserved'[Tier(c)] = reserved[Tier(c)] + 1 /\ faults' = faults
           \/ reserved' = reserved /\ faults' = faults + 1
<1>w. walk \in [Callers -> Walk] /\ reserved \in [Tiers -> Nat] /\ Tier(c) \in Tiers
  BY ChainAssumption DEF ChainInv, ChainTypeOK, Tier, Walk, Places
<1>1. CASE CheckQuota(c)
  <2>1. QuotaLeft(Tier(c))
    <3>1. ~QuotaLeft(Tier(c)) => Goto(c, "denied")
      BY <1>1 DEF CheckQuota
    <3>2. ~Goto(c, "denied")
      BY <1>w DEF Goto, Walk
    <3> QED
      BY <3>1, <3>2
  <2> QED
    BY <1>1, <1>w, <2>1 DEF CheckQuota, Reserve, bounds
<1>2. CASE CheckFails(c)
  BY <1>2 DEF CheckFails, quotaVars
<1> QED
  BY <1>1, <1>2

\* ReservationsStep: the invariant is inductive.
LEMMA ReservationsStep ==
    ASSUME ChainInv, Reservations, [Next]_vars
    PROVE  Reservations'
<1> SUFFICES ASSUME NEW t \in Tiers, QuotaKind[t] = "sliding"
             PROVE  /\ reserved'[t] <= Ceiling
                    /\ Cardinality(Calling(t)') <= reserved'[t] + faults'
  BY DEF Reservations
<1> DEFINE n == Cardinality(Calling(t))
           m == Cardinality(Calling(t)')
<1>0. /\ n \in Nat /\ m \in Nat /\ Ceiling \in Nat
      /\ reserved[t] \in Nat /\ faults \in Nat
      /\ reserved[t] <= Ceiling /\ n <= reserved[t] + faults
  BY CallingFinite, ChainAssumption DEF ChainInv, ChainTypeOK, Reservations
<1>f. faults' = faults \/ faults' = faults + 1
  BY DEF Next, WalkStep, Clock, vars, bounds, StartWalk, CheckQuota, CheckFails,
     SkipTier, Dispatch, Token, Reply, CallFails, RecordQuota, RecordFails, Succeed,
     Cancel, CoolDown, ReadState, ReservationExpires, HeaderExpires, PoolExpires,
     NewDay
<1>r. \/ reserved'[t] = reserved[t]
      \/ reserved'[t] = reserved[t] + 1 /\ reserved[t] < Ceiling
      \/ /\ reserved'[t] = reserved[t] - 1 /\ reserved[t] > n
         /\ UNCHANGED walk
  BY ReservedEffects
<1>1. reserved'[t] <= Ceiling
  <2> HIDE DEF n
  <2> QED
    BY <1>0, <1>r
<1>2. CASE Calling(t)' \subseteq Calling(t)
  <2>1. m <= n
    BY <1>2, CallingFewer
  <2> HIDE DEF n, m
  <2>2. m <= reserved'[t] + faults'
    BY <1>0, <1>f, <1>r, <2>1
  <2> QED
    BY <1>1, <2>2 DEF m
<1>3. ASSUME NEW c \in Callers, CheckQuota(c) \/ CheckFails(c), Tier(c) = t,
             walk'[c].pc = "granted", Calling(t)' \subseteq Calling(t) \cup {c}
      PROVE  m <= reserved'[t] + faults'
  <2>1. m <= n + 1
    BY <1>3, CallingOneMore
  <2>2. \/ reserved'[t] = reserved[t] + 1 /\ faults' = faults
        \/ reserved'[t] = reserved[t] /\ faults' = faults + 1
    BY <1>3, CheckReserves
  <2> HIDE DEF n, m
  <2> QED
    BY <1>0, <2>1, <2>2
<1> QED
  BY <1>1, <1>2, <1>3, CallingGrows

\* CeilingHolds: however many requests check at a time, no more calls are at a
\* provider of a sliding window than the window holds and checks failed open.
THEOREM CeilingHolds == Spec => []InFlightWithinCeiling
<1>1. Init => Reservations
  <2> SUFFICES ASSUME Init, NEW t \in Tiers
               PROVE  reserved[t] <= Ceiling /\ Cardinality(Calling(t)) <= reserved[t] + faults
    BY DEF Reservations
  <2>1. Calling(t) = {}
    BY DEF Init, Calling, NoWalk
  <2>2. Cardinality(Calling(t)) = 0 /\ reserved[t] = 0 /\ faults = 0
    BY <2>1, FS_EmptySet DEF Init
  <2> QED
    BY <2>2, ChainAssumption
<1>2. ChainInv /\ Reservations => InFlightWithinCeiling
  <2> SUFFICES ASSUME ChainInv, Reservations, NEW t \in Tiers, QuotaKind[t] = "sliding"
               PROVE  Cardinality(Calling(t)) <= Ceiling + faults
    BY DEF InFlightWithinCeiling
  <2> DEFINE n == Cardinality(Calling(t))
  <2>1. /\ n \in Nat /\ reserved[t] \in Nat /\ faults \in Nat /\ Ceiling \in Nat
        /\ reserved[t] <= Ceiling /\ n <= reserved[t] + faults
    BY CallingFinite, ChainAssumption DEF ChainInv, ChainTypeOK, Reservations
  <2> HIDE DEF n
  <2>2. n <= Ceiling + faults
    BY <2>1
  <2> QED
    BY <2>2 DEF n
<1>3. ChainInv /\ Reservations /\ [Next]_vars => ChainInv' /\ Reservations'
  BY ChainStep, ReservationsStep
<1> QED
  BY <1>1, <1>2, <1>3, ChainInit, PTL DEF Spec
=============================================================================
