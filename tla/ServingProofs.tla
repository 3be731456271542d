---------------------------- MODULE ServingProofs ----------------------------
(***************************************************************************)
(* The safety of what serves the clients: the rate limiter, the mint of    *)
(* container tokens, the address search and the tiles.  Each has an        *)
(* inductive invariant in its own module; each proof here has one lemma    *)
(* per group of actions and a theorem that names what a run checks.  Last, *)
(* what is proved of each holds of the instance that MCServing composes.   *)
(***************************************************************************)
EXTENDS MCServing, FiniteSetTheorems, SequenceTheorems, WellFoundedInduction, TLAPS

-----------------------------------------------------------------------------
(* The rate limiter.                                                       *)

LEMMA RateStarts == RateInit => RateInv
  BY RateAssumption DEF RateInit, RateInv, RateTypeOK, Gone

LEMMA CallKeeps ==
  ASSUME RateInv, Call
  PROVE  RateInv'
<1>1. /\ key \in [count : 0 .. Times + 2, left : 0 .. Window]
      /\ passed \in Nat /\ waited \in 0 .. Window + 1
      /\ passed <= key.count /\ passed <= Times
      /\ Times \in Nat /\ Times > 0 /\ Window \in Nat /\ Window > 0
  BY RateAssumption DEF RateInv, RateTypeOK
<1>2. CASE key = Gone
  <2>1. key' = [count |-> 1, left |-> Window]
    BY <1>1, <1>2 DEF Call, Counted, Left, Gone
  <2>2. passed = 0
    BY <1>1, <1>2 DEF Gone
  <2>3. answer' = "pass" /\ passed' = 1 /\ waited' = 0
    BY <1>1, <1>2, <2>2 DEF Call, Counted, OverLimit, Gone
  <2>4. QED
    BY <1>1, <2>1, <2>3 DEF Call, RateInv, RateTypeOK, Gone
<1>3. CASE key # Gone
  <2>1. key.count > 0 /\ key.left > 0 /\ waited + key.left <= Window
    BY <1>3 DEF RateInv
  <2>2. /\ key'.left = key.left
        /\ key'.count = IF key.count > Times + 1 THEN key.count ELSE key.count + 1
        /\ key' \in [count : 0 .. Times + 2, left : 0 .. Window]
    BY <1>1, <2>1 DEF Call, Counted, Left
  <2>3. CASE OverLimit(key'.count)
    <3>1. answer' = "429" /\ passed' = passed /\ waited' = waited
      BY <2>3 DEF Call
    <3>2. passed' <= key'.count
      BY <1>1, <2>2, <3>1
    <3>3. QED
      BY <1>1, <2>1, <2>2, <3>1, <3>2 DEF Call, RateInv, RateTypeOK
  <2>4. CASE ~OverLimit(key'.count)
    <3>1. answer' = "pass" /\ passed' = passed + 1 /\ waited' = 0
      BY <2>4 DEF Call
    <3>2. key'.count <= Times /\ key'.count = key.count + 1
      BY <1>1, <2>2, <2>4 DEF OverLimit
    <3>3. passed' <= key'.count /\ passed' <= Times /\ key'.count > 0
      BY <1>1, <3>1, <3>2
    <3>4. waited' + key'.left <= Window
      BY <1>1, <2>2, <3>1
    <3>5. QED
      BY <1>1, <2>1, <2>2, <3>1, <3>3, <3>4 DEF Call, RateInv, RateTypeOK
  <2>5. QED
    BY <2>3, <2>4
<1>4. QED
  BY <1>2, <1>3

LEMMA WindowTickKeeps ==
  ASSUME RateInv, WindowTick
  PROVE  RateInv'
<1>1. /\ key \in [count : 0 .. Times + 2, left : 0 .. Window]
      /\ passed \in Nat /\ waited \in 0 .. Window + 1
      /\ passed <= key.count /\ passed <= Times
      /\ Times \in Nat /\ Window \in Nat
  BY RateAssumption DEF RateInv, RateTypeOK
<1>2. waited' \in 0 .. Window + 1 /\ waited' <= waited + 1
  BY <1>1 DEF WindowTick
<1>3. CASE key.left <= 1
  <2>1. key' = Gone /\ passed' = 0
    BY <1>3 DEF WindowTick
  <2>2. QED
    BY <1>1, <1>2, <2>1 DEF WindowTick, RateInv, RateTypeOK, Gone
<1>4. CASE key.left > 1
  <2>1. /\ key'.left = key.left - 1 /\ key'.count = key.count
        /\ key' \in [count : 0 .. Times + 2, left : 0 .. Window]
        /\ passed' = passed
    BY <1>1, <1>4 DEF WindowTick
  <2>2. key # Gone
    BY <1>4 DEF Gone
  <2>3. key.count > 0 /\ waited + key.left <= Window
    BY <2>2 DEF RateInv
  <2>4. waited' + key'.left <= Window
    BY <1>1, <1>2, <2>1, <2>3
  <2>5. QED
    BY <1>1, <1>2, <1>4, <2>1, <2>3, <2>4 DEF WindowTick, RateInv, RateTypeOK
<1>5. QED
  BY <1>1, <1>3, <1>4

LEMMA RateStep == RateInv /\ [RateNext]_rateVars => RateInv'
<1> SUFFICES ASSUME RateInv, [RateNext]_rateVars
             PROVE  RateInv'
  OBVIOUS
<1>1. CASE CallWithoutRedis
  BY <1>1 DEF CallWithoutRedis, RateInv, RateTypeOK
<1>2. CASE UNCHANGED rateVars
  BY <1>2 DEF rateVars, RateInv, RateTypeOK
<1>3. QED
  BY <1>1, <1>2, CallKeeps, WindowTickKeeps DEF RateNext

LEMMA RateIsFair == RateInv => RefusalsAreFair
<1> SUFFICES ASSUME RateInv, key # Gone
             PROVE  waited < Window
  BY DEF RefusalsAreFair, WindowIsBounded, RefusalEnds, RateInv
<1>1. key.left > 0 /\ waited + key.left <= Window
  BY DEF RateInv
<1>2. key.left \in Nat /\ waited \in Nat /\ Window \in Nat
  BY RateAssumption DEF RateInv, RateTypeOK
<1>3. QED
  BY <1>1, <1>2

(* For every limit and window: no window lets more than its limit through, *)
(* and a refused client that keeps asking waits less than a window.        *)
THEOREM WindowsAreFair == RateSpec => []RefusalsAreFair
<1>1. RateSpec => []RateInv
  BY RateStarts, RateStep, PTL DEF RateSpec
<1>2. QED
  BY <1>1, RateIsFair, PTL

-----------------------------------------------------------------------------
(* The mint of a container's token.                                        *)

(* A new mint joins the others, which stay as they are.                    *)
LEMMA BeginAppends ==
  ASSUME MintInv, NEW by \in {"miss", "startup"}, mints' = Begin(by)
  PROVE  /\ mints' \in Seq(MintType) /\ Len(mints') = Len(mints) + 1
         /\ \A i \in DOMAIN mints : i \in DOMAIN mints' /\ mints'[i] = mints[i]
         /\ \A i \in DOMAIN mints' : i \in DOMAIN mints \/ i = Len(mints')
         /\ mints'[Len(mints')] = [state |-> "minting", expiry |-> 0, by |-> by]
         /\ Len(mints) \in Nat /\ DOMAIN mints = 1 .. Len(mints)
         /\ DOMAIN mints' = 1 .. Len(mints')
<1> DEFINE new == [state |-> "minting", expiry |-> 0, by |-> by]
<1>1. mints \in Seq(MintType) /\ new \in MintType
  BY DEF MintInv, MintTypeOK, MintType
<1>2. mints' = Append(mints, new)
  BY DEF Begin
<1> HIDE DEF new
<1>3. /\ mints' \in Seq(MintType) /\ Len(mints') = Len(mints) + 1
      /\ \A i \in 1 .. Len(mints) : mints'[i] = mints[i]
      /\ mints'[Len(mints) + 1] = new
  BY <1>1, <1>2, AppendProperties
<1>4. Len(mints) \in Nat /\ DOMAIN mints = 1 .. Len(mints)
      /\ DOMAIN mints' = 1 .. Len(mints')
  BY <1>1, <1>3
<1>5. QED
  BY <1>3, <1>4 DEF new

(* Beginning a mint that a miss waits for, or the one at startup.          *)
LEMMA JoinKeeps ==
  ASSUME MintInv, NEW c \in Callers, JoinOrMint(c)
  PROVE  MintInv'
<1>1. MintTypeOK /\ FlightsAreTracked /\ JoinsAreLate
  BY DEF MintInv
<1>2. /\ caller[c].pc = "missed" /\ UNCHANGED <<cached, now>>
      /\ caller' = [caller EXCEPT ![c].pc = "waiting", ![c].mint = flight']
  BY DEF JoinOrMint
<1>3. /\ mints' \in Seq(MintType) /\ flight' \in DOMAIN mints' /\ flight' \in 1 .. Len(mints')
      /\ \A i \in DOMAIN mints : i \in DOMAIN mints' /\ mints'[i] = mints[i]
      /\ flight' \notin caller[c].over
      /\ flight = 0 => flight' \notin DOMAIN mints
      /\ flight # 0 => flight' = flight
  <2>1. CASE flight = 0
    <3>1. mints' = Begin("miss") /\ flight' = Len(mints')
      BY <2>1 DEF JoinOrMint
    <3>2. flight' \notin DOMAIN mints
      BY <3>1, BeginAppends
    <3>3. flight' \notin caller[c].over
      BY <1>1, <3>2 DEF JoinsAreLate
    <3>4. QED
      BY <2>1, <3>1, <3>2, <3>3, BeginAppends
  <2>2. CASE flight # 0
    BY <1>1, <1>2, <2>2 DEF JoinOrMint, MintTypeOK, JoinsAreLate
  <2>3. QED
    BY <2>1, <2>2
<1>4. \A i \in DOMAIN mints' :
         i \in DOMAIN mints \/ (i = flight' /\ mints'[i].by = "miss"
                                  /\ mints'[i].state = "minting")
  BY BeginAppends DEF JoinOrMint
<1>5. caller' \in [Callers -> CallerType]
  <2>1. flight' \in Nat
    BY <1>3
  <2>2. QED
    BY ZenonT(30), <1>1, <1>2, <2>1 DEF MintTypeOK, CallerType
<1>6. /\ \A d \in Callers : d # c => caller'[d] = caller[d]
      /\ caller'[c].pc = "waiting" /\ caller'[c].mint = flight'
      /\ caller'[c].over = caller[c].over
  BY <1>1, <1>2 DEF MintTypeOK, CallerType
<1>7. \A i \in DOMAIN mints : Finished(i)' <=> Finished(i)
  BY <1>3 DEF Finished
<1>8. MintTypeOK'
  <2>1. \A d \in Callers : caller'[d].pc = "waiting" => caller'[d].mint \in DOMAIN mints'
    BY <1>1, <1>3, <1>6 DEF MintTypeOK
  <2>2. QED
    BY <1>1, <1>2, <1>3, <1>5, <2>1 DEF MintTypeOK
<1>9. FlightsAreTracked'
  <2>1. ASSUME NEW i \in DOMAIN mints', ~Finished(i)', mints'[i].by = "miss"
        PROVE  i = flight'
    BY <1>1, <1>3, <1>4, <1>7, <2>1 DEF FlightsAreTracked, MintTypeOK
  <2>2. \A i \in DOMAIN mints' : mints'[i].by = "startup" => i = 1
    BY <1>1, <1>3, <1>4 DEF FlightsAreTracked
  <2>3. \A i \in DOMAIN mints' : mints'[i].state # "cancelled"
    BY <1>1, <1>3, <1>4 DEF FlightsAreTracked
  <2>4. QED
    BY <2>1, <2>2, <2>3 DEF FlightsAreTracked
<1>10. JoinsAreLate'
  <2> SUFFICES ASSUME NEW d \in Callers
               PROVE  (/\ \A i \in caller[d].over : i \in DOMAIN mints /\ Finished(i)
                       /\ caller[d].pc = "missed" => flight \notin caller[d].over
                       /\ caller[d].pc \in {"waiting", "failed"} =>
                            caller[d].mint \in DOMAIN mints \ caller[d].over
                       /\ caller[d].pc = "failed" =>
                            mints[caller[d].mint].state = "failed")'
    BY DEF JoinsAreLate
  <2>1. caller'[d].over = caller[d].over
    BY <1>6
  <2>2. \A i \in caller'[d].over : i \in DOMAIN mints' /\ Finished(i)'
    BY <1>1, <1>3, <1>7, <2>1 DEF JoinsAreLate
  <2>3. CASE d = c
    BY <1>3, <1>6, <2>2, <2>3
  <2>4. CASE d # c
    <3>1. caller'[d] = caller[d]
      BY <1>6, <2>4
    <3>2. caller[d].over \subseteq DOMAIN mints
      BY <1>1 DEF JoinsAreLate
    <3>3. caller[d].pc = "missed" => flight' \notin caller[d].over
      BY <1>1, <1>3, <3>2 DEF JoinsAreLate
    <3>4. caller[d].pc \in {"waiting", "failed"} =>
            caller[d].mint \in DOMAIN mints' \ caller[d].over
      BY <1>1, <1>3 DEF JoinsAreLate
    <3>5. caller[d].pc = "failed" => mints'[caller[d].mint].state = "failed"
      BY <1>1, <1>3 DEF JoinsAreLate
    <3>6. QED
      BY <2>2, <3>1, <3>3, <3>4, <3>5
  <2>5. QED
    BY <2>3, <2>4
<1>11. CopyDiesEarly'
  BY <1>2 DEF MintInv, CopyDiesEarly
<1>12. CopiesHaveLifeLeft'
  BY <1>6 DEF MintInv, CopiesHaveLifeLeft
<1>13. QED
  BY <1>8, <1>9, <1>10, <1>11, <1>12 DEF MintInv

(* The startup mint is the first of the process.                           *)
LEMMA StartupKeeps ==
  ASSUME MintInv, StartupMint
  PROVE  MintInv'
<1>1. MintTypeOK /\ FlightsAreTracked /\ JoinsAreLate
  BY DEF MintInv
<1>2. /\ mints = << >> /\ mints' = Begin("startup")
      /\ UNCHANGED <<flight, cached, caller, now>>
  BY DEF StartupMint
<1>3. /\ mints' \in Seq(MintType) /\ DOMAIN mints = {} /\ DOMAIN mints' = {1}
      /\ mints'[1].by = "startup" /\ mints'[1].state = "minting" /\ Len(mints') = 1
  BY <1>2, BeginAppends
<1>4. flight = 0
  BY <1>1, <1>2 DEF MintTypeOK
<1>5. MintTypeOK'
  BY <1>1, <1>2, <1>3, <1>4 DEF MintTypeOK
<1>6. FlightsAreTracked'
  BY <1>3 DEF FlightsAreTracked
<1>7. JoinsAreLate'
  BY <1>1, <1>2, <1>3 DEF JoinsAreLate
<1>8. CopyDiesEarly' /\ CopiesHaveLifeLeft'
  BY <1>2 DEF MintInv, CopyDiesEarly, CopiesHaveLifeLeft
<1>9. QED
  BY <1>5, <1>6, <1>7, <1>8 DEF MintInv

(* A mint moves on: it never leaves an end, and never ends cancelled.      *)
LEMMA MintStepKeeps ==
  ASSUME MintInv, MintStep
  PROVE  MintInv'
<1>1. MintTypeOK /\ FlightsAreTracked /\ JoinsAreLate
  BY DEF MintInv
<1>2. PICK i \in DOMAIN mints : Minted(i) \/ MintFails(i) \/ Stored(i)
  BY DEF MintStep
<1>3. /\ UNCHANGED <<flight, caller, now>>
      /\ mints[i].state \in {"minting", "storing"}
  BY <1>2 DEF Minted, MintFails, Stored
<1>4. mints[i] \in MintType /\ now \in Nat
  BY <1>1, MintAssumption DEF MintTypeOK
<1>5. PICK m \in MintType :
         /\ mints' = [mints EXCEPT ![i] = m]
         /\ m.by = mints[i].by /\ m.state \in {"storing", "failed", "minted"}
  <2>1. CASE Minted(i)
    <3>1. PICK life \in Lives :
             mints' = [mints EXCEPT ![i].state = "storing", ![i].expiry = now + life]
      BY <2>1 DEF Minted
    <3> DEFINE new == [mints[i] EXCEPT !.state = "storing", !.expiry = now + life]
    <3>2. new \in MintType /\ new.by = mints[i].by /\ new.state = "storing"
      <4>1. now + life \in Nat
        BY <1>4, MintAssumption
      <4>2. QED
        BY <1>4, <4>1 DEF MintType
    <3>3. mints' = [mints EXCEPT ![i] = new]
      BY <1>1, <3>1 DEF MintTypeOK
    <3> HIDE DEF new
    <3>4. QED
      BY <3>2, <3>3
  <2>2. CASE MintFails(i)
    <3>1. [mints[i] EXCEPT !.state = "failed"] \in MintType
      BY <1>4 DEF MintType
    <3>2. mints' = [mints EXCEPT ![i] = [mints[i] EXCEPT !.state = "failed"]]
      BY <1>1, <2>2 DEF MintFails, MintTypeOK
    <3>3. QED
      BY <1>4, <3>1, <3>2 DEF MintType
  <2>3. CASE Stored(i)
    <3>1. [mints[i] EXCEPT !.state = "minted", !.expiry = 0] \in MintType
      BY <1>4 DEF MintType
    <3>2. mints' = [mints EXCEPT ![i] =
                      [mints[i] EXCEPT !.state = "minted", !.expiry = 0]]
      BY <1>1, <2>3 DEF Stored, MintTypeOK
    <3>3. QED
      BY <1>4, <3>1, <3>2 DEF MintType
  <2>4. QED
    BY <1>2, <2>1, <2>2, <2>3
<1>6. /\ mints' \in Seq(MintType) /\ DOMAIN mints' = DOMAIN mints /\ Len(mints') = Len(mints)
      /\ \A j \in DOMAIN mints : mints'[j] = IF j = i THEN m ELSE mints[j]
  BY <1>1, <1>5 DEF MintTypeOK
<1>7. \A j \in DOMAIN mints : /\ mints'[j].by = mints[j].by
                              /\ Finished(j) => mints'[j] = mints[j] /\ Finished(j)'
                              /\ mints'[j].state # "cancelled"
  BY <1>1, <1>3, <1>5, <1>6 DEF Finished, FlightsAreTracked
<1>8. FlightsAreTracked'
  BY <1>1, <1>3, <1>6, <1>7 DEF FlightsAreTracked
<1>9. JoinsAreLate'
  <2>1. \A c \in Callers : \A j \in caller[c].over : j \in DOMAIN mints' /\ Finished(j)'
    BY <1>1, <1>6, <1>7 DEF JoinsAreLate
  <2>2. \A c \in Callers : caller[c].pc = "failed" => mints'[caller[c].mint].state = "failed"
    BY <1>1, <1>7 DEF JoinsAreLate, Finished
  <2>3. QED
    BY <1>1, <1>3, <1>6, <2>1, <2>2 DEF JoinsAreLate
<1>10. cached' \in [expiry : Nat, dies : Nat] /\ CopyDiesEarly'
  <2>1. CASE UNCHANGED cached
    BY <1>1, <2>1 DEF MintTypeOK, MintInv, CopyDiesEarly
  <2>2. CASE cached' # cached
    <3> DEFINE expiry == mints[i].expiry
    <3>1. /\ ContainerTokenTTL(expiry) > 0
          /\ cached' = [expiry |-> expiry, dies |-> now + ContainerTokenTTL(expiry)]
      BY <1>2, <2>2 DEF Minted, MintFails, Stored
    <3>2. expiry \in Nat
      BY <1>4 DEF MintType
    <3> HIDE DEF expiry
    <3>3. ContainerTokenTTL(expiry) = expiry - now - Margin /\ expiry > now + Margin
      BY <3>1 DEF ContainerTokenTTL
    <3>4. QED
      BY <1>4, <3>1, <3>2, <3>3, MintAssumption DEF CopyDiesEarly
  <2>3. QED
    BY <2>1, <2>2
<1>11. MintTypeOK'
  BY <1>1, <1>3, <1>6, <1>10 DEF MintTypeOK
<1>12. CopiesHaveLifeLeft'
  BY <1>3 DEF MintInv, CopiesHaveLifeLeft
<1>13. QED
  BY <1>8, <1>9, <1>10, <1>11, <1>12 DEF MintInv

(* One caller moves, and nothing else does.                                *)
LEMMA CallerMoves ==
  ASSUME MintInv, NEW c \in Callers, NEW new \in CallerType,
         caller' = [caller EXCEPT ![c] = new],
         UNCHANGED <<mints, flight, cached, now>>,
         \A i \in new.over : i \in DOMAIN mints /\ Finished(i),
         new.pc = "missed" => flight \notin new.over,
         new.pc \in {"waiting", "failed"} => new.mint \in DOMAIN mints \ new.over,
         new.pc = "failed" => mints[new.mint].state = "failed",
         new.pc = "hit" => new.left >= Margin
  PROVE  MintInv'
<1>1. MintTypeOK /\ FlightsAreTracked /\ JoinsAreLate /\ CopyDiesEarly /\ CopiesHaveLifeLeft
  BY DEF MintInv
<1>2. \A d \in Callers : caller'[d] = IF d = c THEN new ELSE caller[d]
  BY <1>1 DEF MintTypeOK
<1>3. MintTypeOK'
  BY <1>1, <1>2 DEF MintTypeOK
<1>4. FlightsAreTracked' /\ CopyDiesEarly'
  BY <1>1 DEF FlightsAreTracked, Finished, CopyDiesEarly
<1>5. \A i : Finished(i)' <=> Finished(i)
  BY DEF Finished
<1>6. JoinsAreLate'
  BY <1>1, <1>2, <1>5 DEF JoinsAreLate
<1>7. CopiesHaveLifeLeft'
  BY <1>1, <1>2 DEF CopiesHaveLifeLeft
<1>8. QED
  BY <1>3, <1>4, <1>6, <1>7 DEF MintInv

LEMMA EndedTyped ==
  ASSUME NEW how \in {"hit", "got", "gone"}
  PROVE  Ended(how) \in CallerType /\ Ended(how).pc = how /\ Ended(how).over = {}
  BY DEF Ended, NoCall, CallerType

LEMMA CallerKeeps ==
  ASSUME MintInv, NEW c \in Callers, Ask(c) \/ ReadCopy(c) \/ Answered(c) \/ GiveUp(c)
  PROVE  MintInv'
<1>1. MintTypeOK /\ FlightsAreTracked /\ JoinsAreLate /\ CopyDiesEarly
  BY DEF MintInv
<1>2. caller[c] \in CallerType /\ DOMAIN mints \subseteq Nat
  BY <1>1 DEF MintTypeOK
<1>3. CASE Ask(c)
  <2> DEFINE new == [caller[c] EXCEPT !.pc = "reading", !.over = {i \in DOMAIN mints : Finished(i)}]
  <2>1. new \in CallerType
    BY <1>2 DEF CallerType
  <2>2. caller' = [caller EXCEPT ![c] = new]
    BY <1>1, <1>3 DEF Ask, MintTypeOK
  <2>3. new.pc = "reading" /\ new.over = {i \in DOMAIN mints : Finished(i)}
    BY <1>2 DEF CallerType
  <2> HIDE DEF new
  <2>4. QED
    BY <1>3, <2>1, <2>2, <2>3, CallerMoves DEF Ask
<1>4. CASE ReadCopy(c)
  <2>1. UNCHANGED <<mints, flight, cached, now>> /\ caller[c].pc = "reading"
        /\ (flight # 0 => ~Finished(flight))
    BY <1>4 DEF ReadCopy
  <2>2. CASE /\ cached.dies > now
             /\ caller' = [caller EXCEPT ![c] = [Ended("hit") EXCEPT !.left = cached.expiry - now]]
    <3> DEFINE new == [Ended("hit") EXCEPT !.left = cached.expiry - now]
    <3>1. cached.dies \in Nat /\ cached.expiry \in Nat /\ now \in Nat
      BY <1>1, MintAssumption DEF MintTypeOK
    <3>2. cached.dies + Margin = cached.expiry
      BY <1>1, <2>2, <3>1 DEF CopyDiesEarly, NoCopy
    <3>3. cached.expiry - now \in Nat /\ cached.expiry - now >= Margin
      BY <2>2, <3>1, <3>2, MintAssumption
    <3>4. /\ new \in CallerType /\ new.pc = "hit" /\ new.over = {}
          /\ new.left = cached.expiry - now
      BY <3>3 DEF Ended, NoCall, CallerType
    <3>5. caller' = [caller EXCEPT ![c] = new]
      BY <2>2
    <3> HIDE DEF new
    <3>6. QED
      BY <2>1, <3>3, <3>4, <3>5, CallerMoves
  <2>3. CASE caller' = [caller EXCEPT ![c].pc = "missed"]
    <3> DEFINE new == [caller[c] EXCEPT !.pc = "missed"]
    <3>1. new \in CallerType /\ new.pc = "missed" /\ new.over = caller[c].over
      BY <1>2 DEF CallerType
    <3>2. caller' = [caller EXCEPT ![c] = new]
      BY <1>1, <2>3 DEF MintTypeOK
    <3> HIDE DEF new
    <3>3. \A i \in caller[c].over : i \in DOMAIN mints /\ Finished(i)
      BY <1>1 DEF JoinsAreLate
    <3>4. flight \notin caller[c].over
      BY <1>1, <2>1, <3>3 DEF MintTypeOK
    <3>5. QED
      BY <2>1, <3>1, <3>2, <3>3, <3>4, CallerMoves
  <2>4. QED
    BY <1>4, <2>2, <2>3 DEF ReadCopy
<1>5. CASE Answered(c)
  <2>1. /\ UNCHANGED <<mints, flight, cached, now>> /\ caller[c].pc = "waiting"
        /\ Finished(caller[c].mint)
    BY <1>5 DEF Answered
  <2>2. CASE mints[caller[c].mint].state = "minted"
    <3>1. caller' = [caller EXCEPT ![c] = Ended("got")]
      BY <1>5, <2>2 DEF Answered
    <3>2. QED
      BY <2>1, <3>1, EndedTyped, CallerMoves
  <2>3. CASE mints[caller[c].mint].state # "minted"
    <3> DEFINE new == [caller[c] EXCEPT !.pc = "failed"]
    <3>1. /\ new \in CallerType /\ new.pc = "failed" /\ new.over = caller[c].over
          /\ new.mint = caller[c].mint
      BY <1>2 DEF CallerType
    <3>2. caller' = [caller EXCEPT ![c] = new]
      BY <1>1, <1>5, <2>3 DEF Answered, MintTypeOK
    <3> HIDE DEF new
    <3>3. \A i \in caller[c].over : i \in DOMAIN mints /\ Finished(i)
      BY <1>1 DEF JoinsAreLate
    <3>4. caller[c].mint \in DOMAIN mints \ caller[c].over
      BY <1>1, <2>1 DEF JoinsAreLate
    <3>5. mints[caller[c].mint].state = "failed"
      BY <1>1, <2>1, <2>3, <3>4 DEF Finished, FlightsAreTracked
    <3>6. QED
      BY <2>1, <3>1, <3>2, <3>3, <3>4, <3>5, CallerMoves
  <2>4. QED
    BY <2>2, <2>3
<1>6. CASE GiveUp(c)
  BY <1>6, EndedTyped, CallerMoves DEF GiveUp, AfterGiveUp
<1>7. QED
  BY <1>3, <1>4, <1>5, <1>6

(* The callback forgets a flight that ended; time passes.                  *)
LEMMA CallbackKeeps ==
  ASSUME MintInv, Callback \/ MintTick
  PROVE  MintInv'
<1>1. MintTypeOK /\ FlightsAreTracked /\ JoinsAreLate /\ CopyDiesEarly /\ CopiesHaveLifeLeft
  BY DEF MintInv
<1>2. UNCHANGED <<mints, cached, caller>> /\ \A i : Finished(i)' <=> Finished(i)
  BY DEF Callback, MintTick, Finished
<1>3. MintTypeOK'
  BY <1>1, <1>2, MintAssumption DEF MintTypeOK, Callback, MintTick
<1>4. FlightsAreTracked'
  BY <1>1, <1>2 DEF FlightsAreTracked, Callback, Popped, MintTick
<1>5. JoinsAreLate'
  <2>1. flight' = flight \/ flight' = 0
    BY DEF Callback, MintTick
  <2>2. 0 \notin DOMAIN mints
    BY <1>1 DEF MintTypeOK
  <2>3. QED
    BY <1>1, <1>2, <2>1, <2>2 DEF JoinsAreLate
<1>6. CopyDiesEarly' /\ CopiesHaveLifeLeft'
  BY <1>1, <1>2 DEF CopyDiesEarly, CopiesHaveLifeLeft
<1>7. QED
  BY <1>3, <1>4, <1>5, <1>6 DEF MintInv

LEMMA MintStarts == MintInit => MintInv
<1> SUFFICES ASSUME MintInit
             PROVE  MintInv
  OBVIOUS
<1>1. NoCall \in CallerType /\ NoCall.pc = "idle" /\ NoCall.over = {}
  BY DEF NoCall, CallerType
<1>2. \A c \in Callers : caller[c] = NoCall
  BY DEF MintInit
<1>3. MintTypeOK
  BY <1>1, <1>2, MintAssumption DEF MintInit, MintTypeOK, NoCopy
<1>4. QED
  BY <1>1, <1>2, <1>3 DEF MintInit, MintInv, FlightsAreTracked, JoinsAreLate,
     CopyDiesEarly, CopiesHaveLifeLeft

LEMMA MintNextKeeps == MintInv /\ [MintNext]_mintVars => MintInv'
<1> SUFFICES ASSUME MintInv, [MintNext]_mintVars
             PROVE  MintInv'
  OBVIOUS
<1>1. CASE UNCHANGED mintVars
  BY <1>1 DEF mintVars, MintInv, MintTypeOK, FlightsAreTracked, Finished, JoinsAreLate,
     CopyDiesEarly, CopiesHaveLifeLeft
<1>2. ASSUME NEW c \in Callers, Ask(c) \/ LoopStep(c) \/ GiveUp(c)
      PROVE  MintInv'
  BY <1>2, CallerKeeps, JoinKeeps DEF LoopStep
<1>3. QED
  BY <1>1, <1>2, MintStepKeeps, CallbackKeeps, StartupKeeps DEF MintNext

LEMMA TrackedMintsAreSound == MintInv => MintsAreSound
<1> SUFFICES ASSUME MintInv
             PROVE  MintsAreSound
  OBVIOUS
<1>1. FlightsAreTracked /\ JoinsAreLate /\ CopiesHaveLifeLeft
  BY DEF MintInv
<1>2. ASSUME NEW S, NEW x, S \subseteq {x}
      PROVE  Cardinality(S) <= 1
  <2>1. IsFiniteSet({x}) /\ Cardinality({x}) = 1
    BY FS_Singleton
  <2>2. Cardinality(S) <= Cardinality({x})
    BY <1>2, <2>1, FS_Subset
  <2>3. QED
    BY <2>1, <2>2
<1>3. {i \in DOMAIN mints : ~Finished(i) /\ mints[i].by = "miss"} \subseteq {flight}
  BY <1>1 DEF FlightsAreTracked
<1>4. {i \in DOMAIN mints : mints[i].by = "startup"} \subseteq {1}
  BY <1>1 DEF FlightsAreTracked
<1>5. OneMintAtATime
  BY <1>2, <1>3, <1>4 DEF OneMintAtATime
<1>6. NobodyFailsForAnother
  BY <1>1 DEF JoinsAreLate, NobodyFailsForAnother
<1>7. QED
  BY <1>1, <1>5, <1>6 DEF MintsAreSound

(* For any number of callers, token lives and margin: misses coalesce into *)
(* one mint, nobody fails for a mint that was given up or had failed       *)
(* before it asked, and a copied token has its margin to live.             *)
THEOREM TokensAreShared == MintSpec => []MintsAreSound
<1>1. MintSpec => []MintInv
  BY MintStarts, MintNextKeeps, PTL DEF MintSpec
<1>2. QED
  BY <1>1, TrackedMintsAreSound, PTL

-----------------------------------------------------------------------------
(* The address search.                                                     *)

(* One search moves; the locks of the others stay theirs.                  *)
LEMMA SearchMoves ==
  ASSUME SearchInv, NEW v \in Visitors, NEW new \in SearchType,
         search' = [search EXCEPT ![v] = new],
         UNCHANGED <<parcels, served, suggested>>,
         lock' \in [Points -> Visitors \cup {None}],
         \A p \in Points : lock[p] \in Visitors \ {v} => lock'[p] = lock[p],
         Fits(v, new)'
  PROVE  SearchInv'
<1>1. SearchTypeOK
  BY DEF SearchInv
<1>2. \A w \in Visitors : search'[w] = IF w = v THEN new ELSE search[w]
  BY <1>1 DEF SearchTypeOK
<1>3. SearchTypeOK'
  BY <1>1, <1>2 DEF SearchTypeOK
<1>4. ASSUME NEW w \in Visitors, w # v
      PROVE  Fits(w, search[w])'
  <2>1. Fits(w, search[w]) /\ search'[w] = search[w]
    BY <1>2, <1>4 DEF SearchInv
  <2>2. search[w].pc \in {"locked", "found", "new"} =>
          lock[search[w].at] = w /\ search[w].at \in Points
    BY <2>1 DEF Fits, HoldsItsLock, IsMatched
  <2>3. HoldsItsLock(w, search[w])'
    BY <1>4, <2>1, <2>2 DEF HoldsItsLock
  <2>4. IsAlone(search[w])' /\ IsMatched(search[w])' /\ KnowsWhatItFound(search[w])'
    BY <2>1 DEF Fits, IsAlone, IsMatched, IsWhereMatched, KnowsWhatItFound
  <2>5. QED
    BY <2>3, <2>4 DEF Fits
<1>5. Fits(v, search[v])'
  BY <1>2 DEF Fits, HoldsItsLock, IsAlone, IsMatched, IsWhereMatched, KnowsWhatItFound
<1>6. OneParcelPerPlace' /\ ParcelsAreWhereMatched'
  BY DEF SearchInv, OneParcelPerPlace, ParcelsAreWhereMatched, IsWhereMatched
<1>7. QED
  BY <1>3, <1>4, <1>5, <1>6 DEF SearchInv

LEMMA NoSearchFits ==
  ASSUME NEW v
  PROVE  NoSearch \in SearchType /\ Fits(v, NoSearch)'
<1>1. NoSearch \in SearchType /\ NoSearch.pc = "idle"
  BY DEF NoSearch, SearchType, Tracts, Counties
<1>2. QED
  BY <1>1 DEF Fits, HoldsItsLock, IsAlone, IsMatched, KnowsWhatItFound

(* A search is matched, where Census or a served suggestion puts it.       *)
LEMMA MatchedFits ==
  ASSUME SearchInv, NEW p \in Points, NEW from \in {"census", "served"},
         IsWhereMatched(p, from), UNCHANGED suggested,
         NEW s \in Matched(p, from), NEW v
  PROVE  s \in SearchType /\ Fits(v, s)'
<1>1. PICK m \in Metadata(p) :
         s = [NoSearch EXCEPT !.pc = "matched", !.at = p, !.from = from,
                              !.tract = m.tract, !.county = m.county]
  BY DEF Matched
<1>2. m.tract \in Tracts /\ m.county \in Counties
  BY DEF Metadata, Tracts
<1>3. s \in SearchType /\ s.pc = "matched" /\ s.at = p /\ s.from = from
  BY <1>1, <1>2, NoSearchFits DEF SearchType, Counties
<1>4. QED
  BY <1>3 DEF Fits, HoldsItsLock, IsAlone, IsMatched, IsWhereMatched, KnowsWhatItFound

LEMMA ForwardKeeps ==
  ASSUME SearchInv, NEW v \in Visitors, Forward(v)
  PROVE  SearchInv'
<1>1. UNCHANGED <<parcels, lock, served, suggested>> /\ SearchTypeOK
  BY DEF Forward, SearchInv
<1>2. PICK a \in DOMAIN CensusPoint, c \in Points \cup {NoPoint} :
        \E s \in (IF CensusPoint[a] = NoPoint THEN {} ELSE Matched(CensusPoint[a], "census"))
                   \cup {IF c = NoPoint THEN NoSearch
                         ELSE [NoSearch EXCEPT !.pc = "unmatched", !.coords = c]} :
          search' = [search EXCEPT ![v] = s]
  BY DEF Forward
<1>3. PICK s : /\ search' = [search EXCEPT ![v] = s]
               /\ \/ CensusPoint[a] # NoPoint /\ s \in Matched(CensusPoint[a], "census")
                  \/ s = NoSearch
                  \/ s = [NoSearch EXCEPT !.pc = "unmatched", !.coords = c]
  BY <1>2
<1>4. s \in SearchType /\ Fits(v, s)'
  <2>1. CASE CensusPoint[a] # NoPoint /\ s \in Matched(CensusPoint[a], "census")
    <3>1. CensusPoint[a] \in Points
      BY <2>1, SearchAssumption
    <3>2. IsWhereMatched(CensusPoint[a], "census")
      BY DEF IsWhereMatched
    <3>3. QED
      BY <1>1, <2>1, <3>1, <3>2, MatchedFits
  <2>2. CASE s = NoSearch
    BY <2>2, NoSearchFits
  <2>3. CASE s = [NoSearch EXCEPT !.pc = "unmatched", !.coords = c]
    <3>1. s \in SearchType /\ s.pc = "unmatched"
      BY <2>3, NoSearchFits DEF SearchType
    <3>2. QED
      BY <3>1 DEF Fits, HoldsItsLock, IsAlone, IsMatched, KnowsWhatItFound
  <2>4. QED
    BY <1>3, <2>1, <2>2, <2>3
<1>5. QED
  BY <1>1, <1>3, <1>4, SearchMoves DEF SearchTypeOK

LEMMA ReverseKeeps ==
  ASSUME SearchInv, NEW v \in Visitors, Reverse(v)
  PROVE  SearchInv'
<1>1. UNCHANGED <<parcels, lock, served, suggested>> /\ SearchTypeOK
  BY DEF Reverse, SearchInv
<1>2. PICK s : /\ search' = [search EXCEPT ![v] = s]
               /\ \/ /\ ServedName(search[v].coords)
                     /\ s \in Matched(search[v].coords, "served")
                  \/ s = NoSearch
  BY DEF Reverse
<1>3. s \in SearchType /\ Fits(v, s)'
  <2>1. CASE ServedName(search[v].coords) /\ s \in Matched(search[v].coords, "served")
    <3>1. search[v].coords \in suggested /\ search[v].coords \in Points
      BY <1>1, <2>1, SearchAssumption DEF ServedName, SearchTypeOK
    <3>2. IsWhereMatched(search[v].coords, "served")
      BY <3>1 DEF IsWhereMatched
    <3>3. QED
      BY <1>1, <2>1, <3>1, <3>2, MatchedFits
  <2>2. CASE s = NoSearch
    BY <2>2, NoSearchFits
  <2>3. QED
    BY <1>2, <2>1, <2>2
<1>4. QED
  BY <1>1, <1>2, <1>3, SearchMoves DEF SearchTypeOK

(* The lock of the point is taken while nobody holds it.                   *)
LEMMA LockKeeps ==
  ASSUME SearchInv, NEW v \in Visitors, LockLocation(v)
  PROVE  SearchInv'
<1>1. /\ search[v].pc = "matched" /\ lock[search[v].at] = None
      /\ lock' = [lock EXCEPT ![search[v].at] = v]
      /\ search' = [search EXCEPT ![v].pc = "locked"]
      /\ UNCHANGED <<parcels, served, suggested>>
  BY DEF LockLocation, LockFree, AtPc
<1>2. SearchTypeOK /\ search[v] \in SearchType /\ Fits(v, search[v])
  BY DEF SearchInv, SearchTypeOK
<1>3. /\ search[v].at \in Points /\ IsWhereMatched(search[v].at, search[v].from)
      /\ search[v].from \in {"census", "served"}
  BY <1>1, <1>2 DEF Fits, IsMatched
<1>0. PICK new : new = [search[v] EXCEPT !.pc = "locked"]
  OBVIOUS
<1>4. /\ new \in SearchType /\ new.pc = "locked" /\ new.at = search[v].at
      /\ new.from = search[v].from
  BY <1>0, <1>2 DEF SearchType
<1>5. search' = [search EXCEPT ![v] = new]
  BY <1>0, <1>1, <1>2 DEF SearchTypeOK
<1>6. /\ lock' \in [Points -> Visitors \cup {None}] /\ lock'[new.at] = v
      /\ \A p \in Points : lock[p] \in Visitors \ {v} => lock'[p] = lock[p]
  BY <1>1, <1>2, <1>3, <1>4, SearchAssumption DEF SearchTypeOK
<1>7. Fits(v, new)'
  BY <1>1, <1>3, <1>4, <1>6 DEF Fits, HoldsItsLock, IsAlone, IsMatched, IsWhereMatched,
     KnowsWhatItFound
<1>8. QED
  BY <1>1, <1>4, <1>5, <1>6, <1>7, SearchMoves

LEMMA FindKeeps ==
  ASSUME SearchInv, NEW v \in Visitors, FindNearbyParcel(v)
  PROVE  SearchInv'
<1>1. search[v].pc = "locked" /\ UNCHANGED <<parcels, lock, served, suggested>>
  BY DEF FindNearbyParcel, AtPc
<1>2. SearchTypeOK /\ search[v] \in SearchType /\ Fits(v, search[v])
  BY DEF SearchInv, SearchTypeOK
<1>3. /\ search[v].at \in Points /\ IsWhereMatched(search[v].at, search[v].from)
      /\ search[v].from \in {"census", "served"} /\ lock[search[v].at] = v
  BY <1>1, <1>2 DEF Fits, IsMatched, HoldsItsLock
<1>4. CASE Nearby(search[v].at) = {}
  <2>0. PICK new : new = [search[v] EXCEPT !.pc = "new", !.seen = DOMAIN parcels]
    OBVIOUS
  <2>1. DOMAIN parcels \subseteq Nat
    BY <1>2 DEF SearchTypeOK
  <2>2. /\ new \in SearchType /\ new.pc = "new" /\ new.at = search[v].at
        /\ new.from = search[v].from /\ new.seen = DOMAIN parcels
    BY <1>2, <2>0, <2>1 DEF SearchType
  <2>3. search' = [search EXCEPT ![v] = new]
    BY <1>2, <1>4, <2>0 DEF FindNearbyParcel, SearchTypeOK
  <2>4. ASSUME NEW i \in DOMAIN parcels
        PROVE  /\ parcels[i].point # search[v].at
               /\ Distance(parcels[i].point, search[v].at) > Radius
    <3>0. parcels[i] \in ParcelType
      BY <1>2 DEF SearchTypeOK
    <3>1. parcels[i].point \in Int /\ search[v].at \in Int /\ Radius \in Nat
      BY <1>3, <3>0, SearchAssumption DEF ParcelType
    <3>2. ~(Distance(parcels[i].point, search[v].at) <= Radius)
      BY <1>4 DEF Nearby
    <3>3. QED
      BY <3>1, <3>2 DEF Distance
  <2>5. Fits(v, new)'
    BY <1>1, <1>3, <2>2, <2>4 DEF Fits, HoldsItsLock, IsAlone, IsMatched, IsWhereMatched,
       KnowsWhatItFound, Distance
  <2>6. QED
    BY <1>1, <1>2, <2>2, <2>3, <2>5, SearchMoves DEF SearchTypeOK
<1>5. CASE Nearby(search[v].at) # {}
  <2>1. PICK i \in Nearest(search[v].at) :
          search' = [search EXCEPT ![v].pc = "found", ![v].near = i, ![v].from = None,
                       ![v].lacked = {f \in {"tract", "county"} : parcels[i][f] = None}]
    BY <1>5 DEF FindNearbyParcel
  <2>0. PICK lacks, new :
          /\ lacks = {f \in {"tract", "county"} : parcels[i][f] = None}
          /\ new = [search[v] EXCEPT !.pc = "found", !.near = i, !.from = None,
                                     !.lacked = lacks]
    OBVIOUS
  <2>2. i \in DOMAIN parcels /\ i \in Nat
    BY <1>2 DEF Nearest, Nearby, SearchTypeOK
  <2>3. /\ "tract" \notin lacks => parcels[i].tract # None
        /\ "county" \notin lacks => parcels[i].county # None
        /\ lacks \in SUBSET {"tract", "county"}
    BY <2>0
  <2>4. search' = [search EXCEPT ![v] = new]
    BY <1>2, <2>0, <2>1 DEF SearchTypeOK
  <2>5. /\ new \in SearchType /\ new.pc = "found" /\ new.at = search[v].at
        /\ new.near = i /\ new.lacked = lacks
    BY <1>2, <2>0, <2>2, <2>3 DEF SearchType
  <2>6. Fits(v, new)'
    BY <1>1, <1>3, <2>2, <2>3, <2>5 DEF Fits, HoldsItsLock, IsAlone, IsMatched,
       KnowsWhatItFound
  <2>7. QED
    BY <1>1, <1>2, <2>4, <2>5, <2>6, SearchMoves DEF SearchTypeOK
<1>6. QED
  BY <1>4, <1>5

(* The session is closed, and its locks with it.                           *)
LEMMA EndKeeps ==
  ASSUME SearchInv, NEW v \in Visitors, Refused(v) \/ Answer(v) \/ Crash(v)
  PROVE  SearchInv'
<1>1. /\ UNCHANGED <<parcels, served, suggested>>
      /\ search' = [search EXCEPT ![v] = NoSearch] /\ lock' = Unlocked(v)
  BY DEF Refused, Answer, Crash, End
<1>2. SearchTypeOK
  BY DEF SearchInv
<1>3. /\ lock' \in [Points -> Visitors \cup {None}]
      /\ \A p \in Points : lock[p] \in Visitors \ {v} => lock'[p] = lock[p]
  BY <1>1, <1>2 DEF Unlocked, SearchTypeOK
<1>4. QED
  BY <1>1, <1>3, NoSearchFits, SearchMoves

(* A suggestion served stays a place a search may be matched to.           *)
LEMMA SuggestKeeps ==
  ASSUME SearchInv, NEW p \in Suggestions, Suggest(p) \/ Forget(p)
  PROVE  SearchInv'
<1>1. UNCHANGED <<parcels, lock, search>> /\ SearchTypeOK
  BY DEF Suggest, Forget, SearchInv
<1>2. suggested \subseteq suggested' /\ served' \subseteq suggested'
      /\ suggested' \subseteq Suggestions
  BY <1>1 DEF Suggest, Forget, SearchTypeOK
<1>3. SearchTypeOK'
  BY <1>1, <1>2 DEF SearchTypeOK
<1>4. \A point, from : IsWhereMatched(point, from) => IsWhereMatched(point, from)'
  BY <1>2 DEF IsWhereMatched
<1>5. ASSUME NEW v \in Visitors
      PROVE  Fits(v, search[v])'
  <2>1. Fits(v, search[v]) /\ search'[v] = search[v]
    BY <1>1 DEF SearchInv
  <2>2. IsMatched(search[v])'
    BY <1>4, <2>1 DEF Fits, IsMatched
  <2>3. QED
    BY <1>1, <2>1, <2>2 DEF Fits, HoldsItsLock, IsAlone, KnowsWhatItFound
<1>6. OneParcelPerPlace' /\ ParcelsAreWhereMatched'
  BY <1>1, <1>4 DEF SearchInv, OneParcelPerPlace, ParcelsAreWhereMatched
<1>7. QED
  BY <1>3, <1>5, <1>6 DEF SearchInv

(* The parcels a search finds keep their place and gain what they lacked.  *)
LEMMA BackfillHeals ==
  ASSUME SearchInv, NEW v \in Visitors, Backfill(v)
  PROVE  /\ parcels' \in Seq(ParcelType) /\ DOMAIN parcels' = DOMAIN parcels
         /\ \A i \in DOMAIN parcels :
              /\ parcels'[i].point = parcels[i].point /\ parcels'[i].from = parcels[i].from
              /\ parcels'[i].seen = parcels[i].seen
              /\ parcels[i].tract # None => parcels'[i].tract # None
              /\ parcels[i].county # None => parcels'[i].county # None
         /\ search[v].near \in DOMAIN parcels
         /\ search[v].tract # None => parcels'[search[v].near].tract # None
         /\ search[v].county # None => parcels'[search[v].near].county # None
<1>1. /\ parcels \in Seq(ParcelType) /\ search[v] \in SearchType
      /\ search[v].pc = "found" /\ KnowsWhatItFound(search[v])
  BY DEF SearchInv, SearchTypeOK, Backfill, AtPc, Fits
<1>2. /\ search[v].near \in DOMAIN parcels
      /\ "tract" \notin search[v].lacked => parcels[search[v].near].tract # None
      /\ "county" \notin search[v].lacked => parcels[search[v].near].county # None
  BY <1>1 DEF KnowsWhatItFound
<1>3. PICK i, s : i = search[v].near /\ s = search[v]
  OBVIOUS
<1>4. PICK tract, county :
        /\ tract = IF "tract" \in Heals(s) THEN s.tract ELSE parcels[i].tract
        /\ county = IF "county" \in Heals(s) THEN s.county ELSE parcels[i].county
  OBVIOUS
<1>5. parcels[i] \in ParcelType
  BY <1>1, <1>2, <1>3
<1>6. /\ tract \in Tracts /\ county \in Counties
      /\ parcels[i].tract # None => tract # None
      /\ parcels[i].county # None => county # None
      /\ s.tract # None => tract # None
      /\ s.county # None => county # None
  BY <1>1, <1>2, <1>3, <1>4, <1>5 DEF Heals, ParcelType, SearchType
<1>7. PICK fresh : fresh = [parcels[i] EXCEPT !.tract = tract, !.county = county]
  OBVIOUS
<1>8. /\ fresh \in ParcelType /\ fresh.point = parcels[i].point /\ fresh.from = parcels[i].from
      /\ fresh.seen = parcels[i].seen /\ fresh.tract = tract /\ fresh.county = county
  BY <1>5, <1>6, <1>7 DEF ParcelType
<1>9. parcels' = [parcels EXCEPT ![i] = fresh]
  <2>1. parcels' = [parcels EXCEPT
                      ![i].tract = IF "tract" \in Heals(s) THEN s.tract ELSE @,
                      ![i].county = IF "county" \in Heals(s) THEN s.county ELSE @]
    BY <1>3 DEF Backfill
  <2>2. QED
    BY <1>1, <1>2, <1>3, <1>4, <1>5, <1>7, <2>1 DEF ParcelType
<1>10. /\ parcels' \in Seq(ParcelType) /\ DOMAIN parcels' = DOMAIN parcels
       /\ \A j \in DOMAIN parcels : parcels'[j] = IF j = i THEN fresh ELSE parcels[j]
  BY <1>1, <1>2, <1>3, <1>8, <1>9
<1>11. QED
  BY <1>2, <1>3, <1>6, <1>8, <1>10

LEMMA BackfillKeeps ==
  ASSUME SearchInv, NEW v \in Visitors, Backfill(v)
  PROVE  SearchInv'
<1>1. /\ SearchTypeOK /\ search[v] \in SearchType /\ search[v].pc = "found"
      /\ UNCHANGED <<served, suggested>>
  BY DEF SearchInv, SearchTypeOK, Backfill, AtPc
<1>2. search[v].at \in Points /\ lock[search[v].at] = v
  BY <1>1 DEF SearchInv, Fits, IsMatched, HoldsItsLock
<1>3. PICK new : new = [search[v] EXCEPT !.pc = "done", !.at = NoPoint, !.lacked = {}]
  OBVIOUS
<1>4. /\ new \in SearchType /\ new.pc = "done" /\ new.near = search[v].near
      /\ new.tract = search[v].tract /\ new.county = search[v].county
  BY <1>1, <1>3 DEF SearchType
<1>5. search' = [search EXCEPT ![v] = new]
  BY <1>1, <1>3 DEF Backfill, SearchTypeOK
<1>6. \A w \in Visitors : search'[w] = IF w = v THEN new ELSE search[w]
  BY <1>1, <1>5 DEF SearchTypeOK
<1>7. /\ lock' \in [Points -> Visitors \cup {None}]
      /\ \A p \in Points : lock[p] # v => lock'[p] = lock[p]
  BY <1>1, <1>2 DEF Backfill, SearchTypeOK
<1>8. SearchTypeOK'
  <2>1. \A i \in DOMAIN parcels' : parcels'[i].seen \subseteq 1 .. (i - 1)
    BY <1>1, BackfillHeals DEF SearchTypeOK
  <2>2. search' \in [Visitors -> SearchType]
    BY <1>1, <1>4, <1>5 DEF SearchTypeOK
  <2>3. QED
    BY <1>1, <1>7, <2>1, <2>2, BackfillHeals DEF SearchTypeOK
<1>9. ASSUME NEW w \in Visitors
      PROVE  Fits(w, search[w])'
  <2>1. CASE w = v
    <3>1. search'[w] = new
      BY <1>6, <2>1
    <3>2. KnowsWhatItFound(search[w])'
      BY <1>4, <3>1, BackfillHeals DEF KnowsWhatItFound
    <3>3. QED
      BY <1>4, <3>1, <3>2 DEF Fits, HoldsItsLock, IsAlone, IsMatched
  <2>2. CASE w # v
    <3>1. Fits(w, search[w]) /\ search'[w] = search[w] /\ search[w] \in SearchType
      BY <1>1, <1>6, <2>2 DEF SearchInv, SearchTypeOK
    <3>2. HoldsItsLock(w, search[w])'
      BY <1>7, <2>2, <3>1 DEF Fits, HoldsItsLock, IsMatched
    <3>3. IsAlone(search[w])'
      BY <3>1, BackfillHeals DEF Fits, IsAlone
    <3>4. IsMatched(search[w])'
      BY <1>1, <3>1 DEF Fits, IsMatched, IsWhereMatched
    <3>5. KnowsWhatItFound(search[w])'
      BY <3>1, BackfillHeals DEF Fits, KnowsWhatItFound
    <3>6. QED
      BY <3>2, <3>3, <3>4, <3>5 DEF Fits
  <2>3. QED
    BY <2>1, <2>2
<1>10. OneParcelPerPlace'
  BY BackfillHeals DEF SearchInv, OneParcelPerPlace
<1>11. ParcelsAreWhereMatched'
  BY <1>1, BackfillHeals DEF SearchInv, ParcelsAreWhereMatched, IsWhereMatched
<1>12. QED
  BY <1>8, <1>9, <1>10, <1>11 DEF SearchInv

(* What an insertion does to the parcels: one more, at the locked point.   *)
LEMMA InsertAppends ==
  ASSUME SearchInv, NEW v \in Visitors, InsertParcel(v)
  PROVE  \E fresh \in ParcelType :
           /\ fresh.point = search[v].at /\ fresh.from = search[v].from
           /\ fresh.tract = search[v].tract /\ fresh.county = search[v].county
           /\ fresh.seen = search[v].seen
           /\ parcels' \in Seq(ParcelType) /\ Len(parcels') = Len(parcels) + 1
           /\ Len(parcels) \in Nat
           /\ DOMAIN parcels = 1 .. Len(parcels)
           /\ DOMAIN parcels' = 1 .. (Len(parcels) + 1)
           /\ \A i \in DOMAIN parcels : parcels'[i] = parcels[i]
           /\ parcels'[Len(parcels) + 1] = fresh
<1>1. parcels \in Seq(ParcelType) /\ search[v] \in SearchType
  BY DEF SearchInv, SearchTypeOK
<1>2. search[v].pc = "new" /\ search[v].at \in Points /\ search[v].from \in {"census", "served"}
  BY DEF SearchInv, InsertParcel, AtPc, Fits, IsMatched
<1>3. PICK fresh : fresh = [point |-> search[v].at, tract |-> search[v].tract,
                        county |-> search[v].county, from |-> search[v].from,
                        seen |-> search[v].seen]
  OBVIOUS
<1>4. fresh \in ParcelType
  BY <1>1, <1>2, <1>3 DEF ParcelType, SearchType
<1>5. parcels' = Append(parcels, fresh)
  BY <1>3 DEF InsertParcel
<1>6. QED
  BY <1>1, <1>3, <1>4, <1>5, AppendProperties

LEMMA InsertKeeps ==
  ASSUME SearchInv, NEW v \in Visitors, InsertParcel(v)
  PROVE  SearchInv'
<1>1. /\ SearchTypeOK /\ search[v] \in SearchType /\ search[v].pc = "new"
      /\ UNCHANGED <<served, suggested>>
  BY DEF SearchInv, SearchTypeOK, InsertParcel, AtPc
<1>2. /\ search[v].at \in Points /\ lock[search[v].at] = v
      /\ IsWhereMatched(search[v].at, search[v].from)
      /\ search[v].seen \subseteq DOMAIN parcels
      /\ \A i \in DOMAIN parcels : parcels[i].point # search[v].at
      /\ \A i \in search[v].seen : Distance(parcels[i].point, search[v].at) > Radius
  BY <1>1 DEF SearchInv, Fits, IsMatched, HoldsItsLock, IsAlone
<1>3. PICK fresh \in ParcelType :
        /\ fresh.point = search[v].at /\ fresh.from = search[v].from
        /\ fresh.tract = search[v].tract /\ fresh.county = search[v].county
        /\ fresh.seen = search[v].seen
        /\ parcels' \in Seq(ParcelType) /\ Len(parcels') = Len(parcels) + 1
        /\ Len(parcels) \in Nat
        /\ DOMAIN parcels = 1 .. Len(parcels)
        /\ DOMAIN parcels' = 1 .. (Len(parcels) + 1)
        /\ \A i \in DOMAIN parcels : parcels'[i] = parcels[i]
        /\ parcels'[Len(parcels) + 1] = fresh
  BY InsertAppends
<1>4. PICK n : n = Len(parcels) + 1
  OBVIOUS
<1>5. /\ n \in Nat /\ n \notin DOMAIN parcels /\ parcels'[n] = fresh /\ n \in DOMAIN parcels'
      /\ DOMAIN parcels \subseteq DOMAIN parcels' /\ Len(parcels') = n
      /\ \A i \in DOMAIN parcels' : i \in DOMAIN parcels \/ i = n
      /\ \A i \in DOMAIN parcels : i < n /\ i \in Nat
  BY <1>3, <1>4
<1>6. PICK new : new = [search[v] EXCEPT !.pc = "done", !.at = NoPoint, !.from = None,
                                         !.near = n, !.seen = {}]
  OBVIOUS
<1>7. /\ new \in SearchType /\ new.pc = "done" /\ new.near = n
      /\ new.tract = search[v].tract /\ new.county = search[v].county
  BY <1>1, <1>5, <1>6 DEF SearchType
<1>8. search' = [search EXCEPT ![v] = new]
  BY <1>1, <1>5, <1>6 DEF InsertParcel, SearchTypeOK
<1>9. \A w \in Visitors : search'[w] = IF w = v THEN new ELSE search[w]
  BY <1>1, <1>8 DEF SearchTypeOK
<1>10. /\ lock' \in [Points -> Visitors \cup {None}]
       /\ \A p \in Points : lock[p] # v => lock'[p] = lock[p]
  BY <1>1, <1>2 DEF InsertParcel, SearchTypeOK
<1>11. SearchTypeOK'
  <2>1. search' \in [Visitors -> SearchType]
    BY <1>1, <1>7, <1>8 DEF SearchTypeOK
  <2>2. \A i \in DOMAIN parcels' : parcels'[i].seen \subseteq 1 .. (i - 1)
    <3>1. fresh.seen \subseteq 1 .. (n - 1)
      BY <1>2, <1>3, <1>4
    <3>2. QED
      BY <1>1, <1>3, <1>5, <3>1 DEF SearchTypeOK
  <2>3. QED
    BY <1>1, <1>3, <1>10, <2>1, <2>2 DEF SearchTypeOK
<1>12. ASSUME NEW w \in Visitors
       PROVE  Fits(w, search[w])'
  <2>1. CASE w = v
    <3>1. search'[w] = new
      BY <1>9, <2>1
    <3>2. KnowsWhatItFound(search[w])'
      BY <1>3, <1>5, <1>7, <3>1 DEF KnowsWhatItFound
    <3>3. QED
      BY <1>7, <3>1, <3>2 DEF Fits, HoldsItsLock, IsAlone, IsMatched
  <2>2. CASE w # v
    <3>1. Fits(w, search[w]) /\ search'[w] = search[w] /\ search[w] \in SearchType
      BY <1>1, <1>9, <2>2 DEF SearchInv, SearchTypeOK
    <3>2. HoldsItsLock(w, search[w])'
      BY <1>10, <2>2, <3>1 DEF Fits, HoldsItsLock, IsMatched
    <3>3. IsAlone(search[w])'
      <4>1. search[w].pc = "new" => search[w].at # search[v].at
        BY <1>2, <2>2, <3>1 DEF Fits, HoldsItsLock
      <4>2. IsAlone(search[w])
        BY <3>1 DEF Fits
      <4>3. ASSUME search[w].pc = "new"
            PROVE  /\ search[w].seen \subseteq DOMAIN parcels'
                   /\ \A i \in DOMAIN parcels' : parcels'[i].point # search[w].at
                   /\ \A i \in search[w].seen :
                        Distance(parcels'[i].point, search[w].at) > Radius
        BY <1>3, <1>5, <4>1, <4>2, <4>3 DEF IsAlone
      <4>4. QED
        BY <3>1, <4>3 DEF IsAlone
    <3>4. IsMatched(search[w])'
      BY <1>1, <3>1 DEF Fits, IsMatched, IsWhereMatched
    <3>5. KnowsWhatItFound(search[w])'
      BY <1>3, <1>5, <3>1 DEF Fits, KnowsWhatItFound
    <3>6. QED
      BY <3>2, <3>3, <3>4, <3>5 DEF Fits
  <2>3. QED
    BY <2>1, <2>2
<1>13. OneParcelPerPlace'
  <2> SUFFICES ASSUME NEW i \in DOMAIN parcels', NEW j \in DOMAIN parcels', i < j,
                      Distance(parcels'[i].point, parcels'[j].point) <= Radius
               PROVE  parcels'[i].point # parcels'[j].point /\ i \notin parcels'[j].seen
    BY DEF OneParcelPerPlace
  <2>1. i \in DOMAIN parcels
    BY <1>5
  <2>2. CASE j \in DOMAIN parcels
    BY <1>3, <2>1, <2>2 DEF SearchInv, OneParcelPerPlace
  <2>3. CASE j = n
    <3>1. ~(Distance(parcels[i].point, search[v].at) > Radius)
      <4>1. parcels[i] \in ParcelType
        BY <1>1, <2>1 DEF SearchTypeOK
      <4>2. Distance(parcels[i].point, search[v].at) \in Int
        <5>1. parcels[i].point \in Int /\ search[v].at \in Int
          BY <1>2, <4>1, SearchAssumption DEF ParcelType
        <5>2. QED
          BY <5>1 DEF Distance
      <4>3. Distance(parcels[i].point, search[v].at) <= Radius
        BY <1>3, <1>5, <2>1, <2>3
      <4>4. QED
        BY <4>2, <4>3, SearchAssumption
    <3>2. QED
      BY <1>2, <1>3, <1>5, <2>1, <2>3, <3>1
  <2>4. QED
    BY <1>5, <2>2, <2>3
<1>14. ParcelsAreWhereMatched'
  BY <1>1, <1>2, <1>3, <1>5 DEF SearchInv, ParcelsAreWhereMatched, IsWhereMatched
<1>15. QED
  BY <1>11, <1>12, <1>13, <1>14 DEF SearchInv

LEMMA SearchStarts == SearchInit => SearchInv
<1> SUFFICES ASSUME SearchInit
             PROVE  SearchInv
  OBVIOUS
<1>1. NoSearch \in SearchType /\ NoSearch.pc = "idle"
  BY DEF NoSearch, SearchType, Tracts, Counties
<1>2. parcels \in Seq(ParcelType) /\ DOMAIN parcels = {}
  BY DEF SearchInit
<1>3. SearchTypeOK /\ \A v \in Visitors : search[v] = NoSearch
  BY <1>1, <1>2 DEF SearchInit, SearchTypeOK
<1>4. OneParcelPerPlace /\ ParcelsAreWhereMatched
  BY <1>2 DEF OneParcelPerPlace, ParcelsAreWhereMatched
<1>5. QED
  BY <1>1, <1>3, <1>4 DEF SearchInv, Fits, HoldsItsLock, IsAlone, IsMatched, KnowsWhatItFound

LEMMA SearchNextKeeps == SearchInv /\ [SearchNext]_searchVars => SearchInv'
<1> SUFFICES ASSUME SearchInv, [SearchNext]_searchVars
             PROVE  SearchInv'
  OBVIOUS
<1>1. CASE UNCHANGED searchVars
  BY <1>1 DEF searchVars, SearchInv, SearchTypeOK, Fits, HoldsItsLock, IsAlone, IsMatched,
     IsWhereMatched, KnowsWhatItFound, OneParcelPerPlace, ParcelsAreWhereMatched
<1>2. ASSUME NEW v \in Visitors, Forward(v) \/ LockLocation(v) \/ SearchStep(v) \/ Crash(v)
      PROVE  SearchInv'
  BY <1>2, ForwardKeeps, LockKeeps, ReverseKeeps, FindKeeps, BackfillKeeps, InsertKeeps, EndKeeps
     DEF SearchStep
<1>3. ASSUME NEW p \in Suggestions, Suggest(p) \/ Forget(p)
      PROVE  SearchInv'
  BY <1>3, SuggestKeeps
<1>4. QED
  BY <1>1, <1>2, <1>3 DEF SearchNext

LEMMA SearchedParcelsAreSound == SearchInv => ParcelsAreSound
BY DEF SearchInv, Fits, KnowsWhatItFound, AtPc, FoundParcelsHeal, ParcelsAreSound

(* For any number of visitors, points and radius: no two parcels are at    *)
(* one point, two within the radius come only from searches that looked at *)
(* the same time, none lies where a client says, and a search that knows   *)
(* tract or county leaves it recorded.                                     *)
THEOREM PlacesHaveOneParcel == SearchSpec => []ParcelsAreSound
<1>1. SearchSpec => []SearchInv
  BY SearchStarts, SearchNextKeeps, PTL DEF SearchSpec
<1>2. QED
  BY <1>1, SearchedParcelsAreSound, PTL

-----------------------------------------------------------------------------
(* The tiles of a served period.                                           *)

LEMMA TileConstants ==
  /\ Versions \subseteq Nat \ {0} /\ 1 \in Versions
  /\ MaxTime \in Nat /\ CopyMargin \in Nat /\ CopyMargin >= 1
  /\ Life \in Nat /\ CopyMargin < Life
  /\ RowTTL \in Nat /\ StacTTL \in Nat /\ StacTTL >= 1
<1>1. DOMAIN Mosaic = 1 .. Len(Mosaic) /\ Len(Mosaic) \in Nat /\ Len(Mosaic) > 0
  BY TileAssumption, EmptySeq
<1>2. QED
  BY <1>1, TileAssumption DEF Versions

(* The parts of the invariant that a step's arithmetic needs.              *)
LEMMA TileFacts ==
  ASSUME TileInv
  PROVE  /\ time \in Nat /\ time <= MaxTime
         /\ \A v \in Versions : replaced[v] \in Nat /\ replaced[v] <= MaxTime + 1
         /\ \A t \in DOMAIN tokens : t \in Nat /\ t >= 1 /\ tokens[t] \in Nat
         /\ DOMAIN tokens = 1 .. Len(tokens) /\ Len(tokens) \in Nat /\ copy \in Nat
         /\ copy # 0 => copy \in DOMAIN tokens
<1>1. time \in Nat /\ time <= MaxTime
  BY TileConstants DEF TileInv
<1>2. \A v \in Versions : replaced[v] \in Nat /\ replaced[v] <= MaxTime + 1
  BY TileConstants DEF TileInv, Never
<1>3. tokens \in Seq(Nat) /\ copy \in 0 .. Len(tokens)
  BY DEF TileInv, TokensOK
<1>4. QED
  BY <1>1, <1>2, <1>3

LEMMA TileStarts == TileInit => TileInv
<1> SUFFICES ASSUME TileInit PROVE TileInv
  OBVIOUS
<1>1. \A r \in Requests : req[r] = Idle
  BY DEF TileInit
<1>2. Idle \in RequestType
  BY DEF Idle, RequestType
<1>3. Idle.pc = "idle"
  BY DEF Idle
<1>4. req \in [Requests -> RequestType] /\ \A r \in Requests : RequestOK(req[r])
  BY <1>1, <1>2, <1>3 DEF TileInit, RequestOK
<1>5. time = 0 /\ time \in 0 .. MaxTime /\ row = 1 /\ row \in Versions
  BY TileConstants DEF TileInit
<1>6. replaced \in [Versions -> 0 .. Never] /\ \A v \in Versions : replaced[v] = Never
  BY TileConstants DEF TileInit, Never
<1>7. TokensOK
  BY DEF TileInit, TokensOK
<1>8. CachesOK
  BY <1>5, TileConstants DEF TileInit, CachesOK, NoItem, NoEntry, EntryType
<1>9. \A i \in titiler : ItemOK(i)
  BY DEF TileInit
<1>10. QED
  BY <1>4, <1>5, <1>6, <1>7, <1>8, <1>9 DEF TileInv

(* A token to be had outlives its copy's margin; the others stay as issued *)
(* and the copy, if it changes, is one that no URL names yet.              *)
LEMMA TokenLives ==
  ASSUME TileInv, NEW t \in 1 .. MaxTokens, Token(t), time' = time
  PROVE  /\ t \in DOMAIN tokens' /\ tokens'[t] \in Nat
         /\ time + CopyMargin < tokens'[t] /\ tokens'[t] <= time + Life
         /\ DOMAIN tokens \subseteq DOMAIN tokens'
         /\ \A u \in DOMAIN tokens : tokens'[u] = tokens[u]
         /\ copy' = copy \/ copy' \notin DOMAIN tokens
         /\ copy' # 0 => tokens'[copy'] <= tokens'[t]
         /\ t \in DOMAIN tokens => t = copy /\ copy' = copy
         /\ TokensOK'
<1>1. TokensOK /\ tokens \in Seq(Nat) /\ copy \in 0 .. Len(tokens)
  BY DEF TileInv, TokensOK
<1>2. CASE copy # 0 /\ t = copy /\ UNCHANGED <<tokens, copy>>
  <2>1. tokens' = tokens /\ copy' = copy /\ t \in DOMAIN tokens
    BY <1>2, TileFacts
  <2>2. time + CopyMargin < tokens[t] /\ tokens[t] <= time + Life
    BY <1>1, <1>2, <2>1 DEF TokensOK
  <2>3. TokensOK'
    BY <1>1, <2>1 DEF TokensOK
  <2>4. QED
    BY <1>2, <2>1, <2>2, <2>3, TileFacts
<1>3. CASE t = Len(tokens) + 1 /\ tokens' = Append(tokens, time + Life) /\ copy' \in {t, copy}
  <2>1. time + Life \in Nat /\ time + CopyMargin < time + Life
    BY TileFacts, TileConstants
  <2>2. /\ tokens' \in Seq(Nat) /\ Len(tokens') = Len(tokens) + 1 /\ tokens'[t] = time + Life
        /\ \A u \in DOMAIN tokens : tokens'[u] = tokens[u]
    BY <1>1, <1>3, <2>1, AppendProperties
  <2>3. DOMAIN tokens' = 1 .. Len(tokens) + 1 /\ DOMAIN tokens = 1 .. Len(tokens) /\ Len(tokens) \in Nat
    BY <1>1, <2>2
  <2>4. copy' = copy \/ copy' \notin DOMAIN tokens
    BY <1>3, <2>3
  <2>5. \A u \in DOMAIN tokens' : tokens'[u] <= time + Life
    BY <1>1, <1>3, <2>1, <2>2, <2>3 DEF TokensOK
  <2>6. copy' # 0 => copy' \in DOMAIN tokens' /\ tokens'[copy'] <= tokens'[t]
    BY <1>1, <1>3, <2>2, <2>3, <2>5
  <2>7. copy' # 0 => time + CopyMargin < tokens'[copy']
    BY <1>1, <1>3, <2>1, <2>2, <2>3 DEF TokensOK
  <2>8. TokensOK'
    BY <1>1, <1>3, <2>2, <2>3, <2>5, <2>7 DEF TokensOK
  <2>9. QED
    BY <1>3, <2>1, <2>2, <2>3, <2>4, <2>6, <2>8
<1>4. QED
  BY <1>2, <1>3 DEF Token

(* A request that a step leaves alone, while Titiler gains no item but     *)
(* ones that outlive the requests in flight, stays as it should be.        *)
LEMMA RequestsStay ==
  ASSUME TileInv, UNCHANGED <<source, replaced, time>>,
         DOMAIN tokens \subseteq DOMAIN tokens',
         \A t \in DOMAIN tokens : tokens'[t] = tokens[t],
         \A i \in titiler' :
            i \in titiler \/ (tokens'[i.token] \in Nat /\ time + 1 < tokens'[i.token])
  PROVE  \A s \in Requests : req'[s] = req[s] => RequestOK(req[s])'
<1> SUFFICES ASSUME NEW s \in Requests, req'[s] = req[s]
             PROVE  RequestOK(req[s])'
  OBVIOUS
<1>1. req[s] \in RequestType /\ RequestOK(req[s])
  BY DEF TileInv
<1>2. Lateness(req[s])' = Lateness(req[s]) /\ Lateness(req[s]) \in {0, 1}
  BY <1>1 DEF Lateness, RequestType
<1>3. LongestStale' = LongestStale
  BY DEF LongestStale
<1>4. \A k : /\ HeldOK(req[s].version, k, req[s])' = HeldOK(req[s].version, k, req[s])
            /\ HeldOK(req[s].item, k, req[s])' = HeldOK(req[s].item, k, req[s])
  BY <1>2 DEF HeldOK, Lateness
<1>5. ASSUME IsUrlKey(req[s].key)
      PROVE  /\ IsUrlKey(req[s].key)'
             /\ req[s].key[1] = "token" => tokens'[req[s].key[2]] = tokens[req[s].key[2]]
             /\ KeyEnds(req[s].key, req[s].item)' = KeyEnds(req[s].key, req[s].item)
  BY <1>5 DEF IsUrlKey, KeyEnds
<1>6. AskOK(req[s]) => AskOK(req[s])'
  <2> SUFFICES ASSUME AskOK(req[s]) PROVE AskOK(req[s])'
    OBVIOUS
  <2>1. IsUrlKey(req[s].key) /\ source' = "landsat"
    BY DEF AskOK
  <2>2. IF req[s].key[1] = "token" THEN time' + CopyMargin < tokens'[req[s].key[2]] + Lateness(req[s])
        ELSE time' <= req[s].key[2] + Lateness(req[s])
    BY <1>5, <2>1 DEF AskOK
  <2>3. ASSUME NEW i \in titiler', i.key = req[s].key
        PROVE  time' + 1 < tokens'[i.token] + Lateness(req[s])
    <3>1. CASE i \in titiler
      <4>1. i.token \in DOMAIN tokens
        BY <3>1 DEF TileInv, ItemOK
      <4>2. QED
        BY <2>3, <3>1, <4>1 DEF AskOK
    <3>2. CASE tokens'[i.token] \in Nat /\ time + 1 < tokens'[i.token]
      BY <1>2, <3>2, TileFacts
    <3>3. QED
      BY <3>1, <3>2
  <2>4. QED
    BY <1>2, <1>5, <2>1, <2>2, <2>3 DEF AskOK
<1>7. QED
  BY <1>1, <1>2, <1>3, <1>4, <1>5, <1>6 DEF RequestOK, AskOK

(* The items Titiler already has, whatever tokens are added.               *)
LEMMA ItemsStay ==
  ASSUME TileInv, UNCHANGED <<replaced, time>>,
         DOMAIN tokens \subseteq DOMAIN tokens',
         \A t \in DOMAIN tokens : tokens'[t] = tokens[t],
         copy' = copy \/ copy' \notin DOMAIN tokens
  PROVE  \A i \in titiler : ItemOK(i)'
<1> SUFFICES ASSUME NEW i \in titiler
             PROVE  ItemOK(i)'
  OBVIOUS
<1>1. ItemOK(i)
  BY DEF TileInv
<1>2. IsUrlKey(i.key) /\ IsUrlKey(i.key)'
  BY <1>1 DEF ItemOK, IsUrlKey
<1>3. KeyEnds(i.key, i.version)'
  BY <1>1, <1>2 DEF ItemOK, IsUrlKey, KeyEnds
<1>4. i.token \in DOMAIN tokens' /\ tokens'[i.token] = tokens[i.token] /\ i.version \in Versions
  BY <1>1 DEF ItemOK
<1>5. i.key = <<"token", copy'>> => copy' = copy /\ copy \in DOMAIN tokens
  BY <1>2 DEF IsUrlKey
<1>6. i.key = <<"token", copy'>> => tokens'[copy'] <= tokens'[i.token]
  BY <1>1, <1>4, <1>5 DEF ItemOK
<1>7. i.key[1] = "bucket" => i.key[2] + CopyMargin < tokens'[i.token]
  BY <1>1, <1>4 DEF ItemOK
<1>8. QED
  BY <1>2, <1>3, <1>4, <1>6, <1>7 DEF ItemOK

(* One request moves.                                                      *)
LEMMA RequestMoves ==
  ASSUME TileInv, NEW r \in Requests, UNCHANGED <<source, row, replaced, time>>,
         DOMAIN tokens \subseteq DOMAIN tokens',
         \A t \in DOMAIN tokens : tokens'[t] = tokens[t],
         \A i \in titiler' :
            i \in titiler \/ (tokens'[i.token] \in Nat /\ time + 1 < tokens'[i.token]),
         \A i \in titiler' : ItemOK(i)',
         TokensOK', CachesOK',
         req' = [req EXCEPT ![r] = req'[r]], req'[r] \in RequestType, RequestOK(req[r])'
  PROVE  TileInv'
<1>1. \A s \in Requests : req'[s] = req[s] => RequestOK(req[s])'
  BY RequestsStay
<1>2. req \in [Requests -> RequestType]
  BY DEF TileInv
<1>3. req' \in [Requests -> RequestType] /\ \A s \in Requests : s # r => req'[s] = req[s]
  BY <1>2
<1>4. \A s \in Requests : RequestOK(req[s])'
  BY <1>1, <1>3
<1>5. row' = row /\ time' = time /\ replaced' = replaced
  OBVIOUS
<1>6. QED
  BY <1>3, <1>4, <1>5 DEF TileInv, Never

(* A request moves and nothing it shares with the others does.             *)
LEMMA RequestMovesAlone ==
  ASSUME TileInv, NEW r \in Requests,
         UNCHANGED <<source, row, replaced, rowCache, tokens, copy, raw, titiler, time>>,
         req' = [req EXCEPT ![r] = req'[r]], req'[r] \in RequestType, RequestOK(req[r])'
  PROVE  TileInv'
<1>1. TokensOK' /\ CachesOK'
  BY DEF TileInv, TokensOK, CachesOK
<1>2. \A i \in titiler' : ItemOK(i)'
  BY ItemsStay
<1>3. QED
  BY <1>1, <1>2, RequestMoves

LEMMA FoundTyped ==
  ASSUME NEW v \in Versions \cup {0}
  PROVE  Found(v) \in RequestType /\ Found(v).pc = "url" /\ Found(v).version = v /\ ~Found(v).late
  BY DEF Found, Idle, RequestType

LEMMA IdleTyped == Idle \in RequestType /\ ~Idle.late
  BY DEF Idle, RequestType

LEMMA LoadTyped ==
  ASSUME NEW v \in Versions, NEW p \in Processes
  PROVE  /\ [Idle EXCEPT !.pc = "load", !.proc = p, !.version = v] \in RequestType
         /\ [Idle EXCEPT !.pc = "load", !.proc = p, !.version = v].pc = "load"
         /\ [Idle EXCEPT !.pc = "load", !.proc = p, !.version = v].version = v
         /\ ~[Idle EXCEPT !.pc = "load", !.proc = p, !.version = v].late
<1>1. \A q \in RequestType :
         /\ [q EXCEPT !.pc = "load", !.proc = p, !.version = v] \in RequestType
         /\ [q EXCEPT !.pc = "load", !.proc = p, !.version = v].pc = "load"
         /\ [q EXCEPT !.pc = "load", !.proc = p, !.version = v].version = v
  BY DEF RequestType
<1>2. \A q \in RequestType : ~q.late =>
         ~[q EXCEPT !.pc = "load", !.proc = p, !.version = v].late
  BY DEF RequestType
<1>3. QED
  BY <1>1, <1>2, IdleTyped

LEMMA LateFoundTyped ==
  ASSUME NEW v \in Versions, NEW late \in BOOLEAN
  PROVE  /\ [Found(v) EXCEPT !.late = late] \in RequestType
         /\ [Found(v) EXCEPT !.late = late].pc = "url"
         /\ [Found(v) EXCEPT !.late = late].version = v
         /\ Lateness([Found(v) EXCEPT !.late = late]) = IF late THEN 1 ELSE 0
<1>1. \A q \in RequestType : /\ [q EXCEPT !.late = late] \in RequestType
                            /\ [q EXCEPT !.late = late].pc = q.pc
                            /\ [q EXCEPT !.late = late].version = q.version
  BY DEF RequestType
<1>2. \A q \in RequestType : Lateness([q EXCEPT !.late = late]) = IF late THEN 1 ELSE 0
  BY DEF RequestType, Lateness
<1>3. QED
  BY <1>1, <1>2, FoundTyped

LEMMA IdleFits ==
  ASSUME NEW r \in Requests, req'[r] = Idle
  PROVE  req'[r] \in RequestType /\ RequestOK(req[r])'
  BY DEF Idle, RequestType, RequestOK

(* A row in the cache stopped being served at most a unit before it was    *)
(* put there.                                                              *)
LEMMA FreshRowHeld ==
  ASSUME TileInv, NEW p \in Processes, RowIsFresh(p)
  PROVE  /\ rowCache[p].version \in Versions
         /\ time <= replaced[rowCache[p].version] + RowTTL
<1>1. rowCache[p] \in EntryType /\ rowCache[p].version # 0 /\ time < rowCache[p].at + RowTTL
  BY DEF TileInv, CachesOK, RowIsFresh
<1>2. rowCache[p].version \in Versions /\ rowCache[p].at \in Nat
  BY <1>1 DEF EntryType
<1>3. rowCache[p].at <= replaced[rowCache[p].version] + 1
  BY <1>1 DEF TileInv, CachesOK
<1>4. replaced[rowCache[p].version] \in Nat /\ time \in Nat
  BY <1>2, TileFacts
<1>5. QED
  BY <1>1, <1>2, <1>3, <1>4, TileConstants

LEMMA ReadRowKeeps ==
  ASSUME TileInv, NEW r \in Requests, NEW p \in Processes, ReadRow(r, p)
  PROVE  TileInv'
<1>1. /\ UNCHANGED <<source, row, replaced, rowCache, tokens, copy, raw, titiler, time>>
      /\ req \in [Requests -> RequestType]
  BY DEF ReadRow, TileInv
<1>2. CASE source = "landsat" /\ req' = [req EXCEPT ![r] = Found(0)]
  <2>1. req'[r] = Found(0) /\ req' = [req EXCEPT ![r] = req'[r]]
    BY <1>1, <1>2
  <2>2. req'[r] \in RequestType /\ req'[r].pc = "url"
    BY <2>1, FoundTyped
  <2>3. RequestOK(req[r])'
    BY <1>1, <1>2, <2>2 DEF RequestOK
  <2>4. QED
    BY <1>1, <2>1, <2>2, <2>3, RequestMovesAlone
<1>3. CASE RowIsFresh(p) /\ req' = [req EXCEPT ![r] = Found(rowCache[p].version)]
  <2>1. req'[r] = Found(rowCache[p].version) /\ req' = [req EXCEPT ![r] = req'[r]]
    BY <1>1, <1>3
  <2>2. /\ rowCache[p].version \in Versions
        /\ time <= replaced[rowCache[p].version] + RowTTL
    BY <1>3, FreshRowHeld
  <2>3. /\ req'[r] \in RequestType /\ req'[r].pc = "url"
        /\ req'[r].version = rowCache[p].version /\ req'[r].late = FALSE
    BY <2>1, <2>2, FoundTyped DEF RequestType
  <2>4. HeldOK(req[r].version, RowTTL, req[r])'
    <3>1. replaced[rowCache[p].version] \in Nat
      BY <2>2, TileFacts
    <3>2. time <= replaced[rowCache[p].version] + RowTTL + 0
      BY <2>2, <3>1, TileFacts, TileConstants
    <3>3. QED
      BY <1>1, <2>2, <2>3, <3>2 DEF HeldOK, Lateness
  <2>5. RequestOK(req[r])'
    BY <2>3, <2>4 DEF RequestOK
  <2>6. QED
    BY <1>1, <2>1, <2>3, <2>5, RequestMovesAlone
<1>4. CASE /\ source # "landsat" /\ row # 0
           /\ req' = [req EXCEPT ![r] = [Idle EXCEPT !.pc = "load", !.proc = p, !.version = row]]
  <2>1. /\ req'[r] = [Idle EXCEPT !.pc = "load", !.proc = p, !.version = row]
        /\ req' = [req EXCEPT ![r] = req'[r]]
    BY <1>1, <1>4
  <2>2. row \in Versions /\ replaced[row] = Never
    BY <1>4, TileConstants DEF TileInv
  <2>3. /\ req'[r] \in RequestType /\ req'[r].pc = "load"
        /\ req'[r].version = row /\ ~req'[r].late
    <3>1. PICK q : q = [Idle EXCEPT !.pc = "load", !.proc = p, !.version = row]
      OBVIOUS
    <3>2. q \in RequestType /\ q.pc = "load" /\ q.version = row /\ ~q.late
      BY <2>2, <3>1, LoadTyped, Zenon
    <3>3. req'[r] = q
      BY <2>1, <3>1, Zenon
    <3>4. QED
      BY <3>2, <3>3
  <2>4. HeldOK(req[r].version, 0, req[r])'
    BY <1>1, <2>2, <2>3, TileFacts, TileConstants DEF HeldOK, Lateness, Never
  <2>5. RequestOK(req[r])'
    BY <1>1, <1>4, <2>3, <2>4 DEF RequestOK
  <2>6. QED
    BY <1>1, <2>1, <2>3, <2>5, RequestMovesAlone
<1>5. QED
  BY <1>2, <1>3, <1>4 DEF ReadRow

LEMMA PutCachedRowKeeps ==
  ASSUME TileInv, NEW r \in Requests, PutCachedRow(r)
  PROVE  TileInv'
<1>1. /\ UNCHANGED <<source, row, replaced, tokens, copy, raw, titiler, time>>
      /\ req \in [Requests -> RequestType] /\ rowCache \in [Processes -> EntryType]
      /\ req[r] \in RequestType /\ req[r].pc = "load"
  BY DEF PutCachedRow, TileInv, CachesOK, InStep
<1>2. /\ req' = [req EXCEPT ![r] = [Found(req[r].version) EXCEPT !.late = req[r].late]]
      /\ rowCache' = [rowCache EXCEPT ![req[r].proc] = [version |-> req[r].version, at |-> time]]
  BY DEF PutCachedRow
<1>3. source # "landsat" /\ req[r].version \in Versions
  BY <1>1 DEF TileInv, RequestOK, HeldOK
<1>4. /\ time <= replaced[req[r].version] + 0 + Lateness(req[r])
      /\ Lateness(req[r]) = (IF req[r].late THEN 1 ELSE 0)
  BY <1>1 DEF TileInv, RequestOK, HeldOK, Lateness, RequestType
<1>5. /\ req'[r] = [Found(req[r].version) EXCEPT !.late = req[r].late]
      /\ req' = [req EXCEPT ![r] = req'[r]]
  BY <1>1, <1>2
<1>6. /\ req'[r] \in RequestType /\ req'[r].pc = "url"
      /\ req'[r].version = req[r].version /\ Lateness(req'[r]) = Lateness(req[r])
  <2>1. req[r].late \in BOOLEAN
    BY <1>1 DEF RequestType
  <2>2. QED
    BY <1>3, <1>4, <1>5, <2>1, LateFoundTyped
<1>7. RequestOK(req[r])'
  <2>1. Lateness(req[r])' = Lateness(req'[r])
    BY DEF Lateness
  <2>2. Lateness(req[r]) \in Nat /\ replaced[req[r].version] \in Nat /\ time \in Nat
    BY <1>3, <1>4, TileFacts
  <2>3. time <= replaced[req[r].version] + RowTTL + Lateness(req[r])
    BY <1>4, <2>2, TileConstants
  <2>4. HeldOK(req[r].version, RowTTL, req[r])'
    BY <1>1, <1>3, <1>6, <2>1, <2>3 DEF HeldOK
  <2>5. QED
    BY <1>6, <2>4 DEF RequestOK
<1>8. CachesOK'
  <2>1. [version |-> req[r].version, at |-> time] \in EntryType
    BY <1>3, TileFacts DEF EntryType
  <2>2. rowCache' \in [Processes -> EntryType]
    BY <1>1, <1>2, <2>1
  <2>3. time <= replaced[req[r].version] + 1
    BY <1>3, <1>4, TileFacts
  <2>4. \A q \in Processes : rowCache'[q] = [version |-> req[r].version, at |-> time]
                            \/ rowCache'[q] = rowCache[q]
    BY <1>1, <1>2
  <2>5. \A q \in Processes :
          /\ rowCache'[q].at <= time
          /\ rowCache'[q].version # 0 => rowCache'[q].at <= replaced[rowCache'[q].version] + 1
    BY <2>3, <2>4, TileFacts DEF TileInv, CachesOK
  <2>6. QED
    BY <1>1, <2>2, <2>5 DEF TileInv, CachesOK
<1>9. TokensOK'
  BY <1>1 DEF TileInv, TokensOK
<1>10. \A i \in titiler' : ItemOK(i)'
  BY <1>1, ItemsStay
<1>11. QED
  BY <1>1, <1>5, <1>6, <1>7, <1>8, <1>9, <1>10, RequestMoves

(* What is drawn with a live token, of a version that stopped being served *)
(* recently enough.                                                        *)
LEMMA RenderedFits ==
  ASSUME TileInv, NEW r \in Requests, UNCHANGED source,
         NEW v \in Versions, NEW e \in Nat, time < e,
         time <= replaced[v] + LongestStale, LongestStale \in Nat,
         req'[r] = Rendered(v, e)
  PROVE  req'[r] \in RequestType /\ RequestOK(req[r])'
<1>1. Age(v) \in Nat /\ Age(v) <= LongestStale
  <2>1. replaced[v] \in Nat /\ time \in Nat
    BY TileFacts
  <2>2. QED
    BY <2>1 DEF Age
<1>2. \A q \in RequestType, n \in Nat :
        /\ [q EXCEPT !.pc = "rendered", !.alive = TRUE, !.stale = n] \in RequestType
        /\ [q EXCEPT !.pc = "rendered", !.alive = TRUE, !.stale = n].pc = "rendered"
        /\ [q EXCEPT !.pc = "rendered", !.alive = TRUE, !.stale = n].stale = n
        /\ [q EXCEPT !.pc = "rendered", !.alive = TRUE, !.stale = n].alive
  BY DEF RequestType
<1>3. e > time
  BY TileFacts
<1>4. (e > time) = TRUE
  BY <1>3, Zenon
<1>5. /\ req'[r] \in RequestType /\ req'[r].pc = "rendered"
      /\ req'[r].stale = Age(v) /\ req'[r].alive
  <2>1. Rendered(v, e) = [Idle EXCEPT !.pc = "rendered", !.alive = TRUE, !.stale = Age(v)]
    BY <1>4, Zenon DEF Rendered
  <2>2. PICK n \in Nat : n = Age(v)
    BY <1>1
  <2>3. PICK q : q = [Idle EXCEPT !.pc = "rendered", !.alive = TRUE, !.stale = n]
    OBVIOUS
  <2>4. req'[r] = q
    BY <2>1, <2>2, <2>3, Zenon
  <2>5. q \in RequestType /\ q.pc = "rendered" /\ q.stale = n /\ q.alive
    BY <1>2, <2>3, IdleTyped, Zenon
  <2>6. QED
    BY <2>2, <2>4, <2>5
<1>6. LongestStale' = LongestStale
  BY DEF LongestStale
<1>7. QED
  BY <1>1, <1>5, <1>6 DEF RequestOK

(* A step that had a token: what it leaves to show.                        *)
LEMMA TokenStepKeeps ==
  ASSUME TileInv, NEW r \in Requests, NEW t \in 1 .. MaxTokens, Token(t),
         UNCHANGED <<source, row, replaced, rowCache, raw, titiler, time>>,
         req' = [req EXCEPT ![r] = req'[r]], req'[r] \in RequestType, RequestOK(req[r])'
  PROVE  TileInv'
<1>1. CachesOK'
  BY DEF TileInv, CachesOK
<1>2. /\ DOMAIN tokens \subseteq DOMAIN tokens' /\ TokensOK'
      /\ \A u \in DOMAIN tokens : tokens'[u] = tokens[u]
      /\ copy' = copy \/ copy' \notin DOMAIN tokens
  BY TokenLives
<1>3. \A i \in titiler' : ItemOK(i)'
  BY <1>2, ItemsStay
<1>4. QED
  BY <1>1, <1>2, <1>3, RequestMoves

LEMMA CogTileKeeps ==
  ASSUME TileInv, NEW r \in Requests, CogTile(r)
  PROVE  TileInv'
<1>1. /\ UNCHANGED <<source, row, replaced, rowCache, raw, titiler, time>>
      /\ req \in [Requests -> RequestType] /\ req[r] \in RequestType
      /\ req[r].pc = "url" /\ source # "landsat"
  BY DEF CogTile, TileInv, InStep
<1>2. HeldOK(req[r].version, RowTTL, req[r])
  BY <1>1 DEF TileInv, RequestOK
<1>3. Lateness(req[r]) \in {0, 1}
  BY DEF Lateness
<1>4. req[r].version \in Versions /\ replaced[req[r].version] \in Nat
  BY <1>2, TileFacts DEF HeldOK
<1>5. LongestStale = RowTTL + 1 /\ LongestStale \in Nat
  BY <1>1, TileConstants DEF LongestStale
<1>6. time <= replaced[req[r].version] + LongestStale
  BY SMTT(30), <1>2, <1>3, <1>4, <1>5, TileFacts, TileConstants DEF HeldOK
<1>7. CASE /\ req' = [req EXCEPT ![r] = Rendered(req[r].version, Never + Life)]
           /\ UNCHANGED <<tokens, copy>>
  <2>1. req'[r] = Rendered(req[r].version, Never + Life) /\ req' = [req EXCEPT ![r] = req'[r]]
    BY <1>1, <1>7
  <2>2. Never + Life \in Nat /\ time < Never + Life
    BY TileFacts, TileConstants DEF Never
  <2>3. req'[r] \in RequestType /\ RequestOK(req[r])'
    BY <1>1, <1>4, <1>5, <1>6, <2>1, <2>2, RenderedFits
  <2>4. QED
    BY <1>1, <1>7, <2>1, <2>3, RequestMovesAlone
<1>8. ASSUME NEW t \in 1 .. MaxTokens, Token(t),
             req' = [req EXCEPT ![r] = Rendered(req[r].version, tokens'[t])]
      PROVE  TileInv'
  <2>1. req'[r] = Rendered(req[r].version, tokens'[t]) /\ req' = [req EXCEPT ![r] = req'[r]]
    BY <1>1, <1>8
  <2>2. tokens'[t] \in Nat /\ time + CopyMargin < tokens'[t]
    BY <1>1, <1>8, TokenLives
  <2>3. time < tokens'[t]
    BY <2>2, TileFacts, TileConstants
  <2>4. req'[r] \in RequestType /\ RequestOK(req[r])'
    BY <1>1, <1>4, <1>5, <1>6, <2>1, <2>2, <2>3, RenderedFits
  <2>5. QED
    BY <1>1, <1>8, <2>1, <2>4, TokenStepKeeps
<1>9. CASE Refuse(r) /\ UNCHANGED <<tokens, copy>>
  <2>1. req'[r] = Idle /\ req' = [req EXCEPT ![r] = req'[r]]
    BY <1>1, <1>9 DEF Refuse
  <2>2. QED
    BY <1>1, <1>9, <2>1, IdleFits, RequestMovesAlone
<1>10. QED
  BY <1>7, <1>8, <1>9 DEF CogTile

(* A URL that names a token just had, and one that names the time.         *)
LEMMA AskingTyped ==
  ASSUME NEW k \in {"token", "bucket"} \X Nat, NEW q \in RequestType
  PROVE  /\ Asking(k, q) \in RequestType /\ Asking(k, q).pc = "titiler" /\ Asking(k, q).key = k
         /\ Lateness(Asking(k, q)) = Lateness(q)
<1>1. \A p \in RequestType, b \in BOOLEAN :
        /\ [p EXCEPT !.pc = "titiler", !.key = k, !.late = b] \in RequestType
        /\ [p EXCEPT !.pc = "titiler", !.key = k, !.late = b].pc = "titiler"
        /\ [p EXCEPT !.pc = "titiler", !.key = k, !.late = b].key = k
  BY ZenonT(30) DEF RequestType
<1>2. \A p \in RequestType, b \in BOOLEAN :
        Lateness([p EXCEPT !.pc = "titiler", !.key = k, !.late = b]) = IF b THEN 1 ELSE 0
  BY DEF RequestType, Lateness
<1>3. q.late \in BOOLEAN /\ Idle \in RequestType
  BY IdleTyped DEF RequestType
<1>4. Lateness(Asking(k, q)) = IF q.late THEN 1 ELSE 0
  BY <1>2, <1>3, Zenon DEF Asking
<1>5. QED
  BY <1>1, <1>3, <1>4, Zenon DEF Asking, Lateness

LEMMA StacUrlKeeps ==
  ASSUME TileInv, NEW r \in Requests, StacUrl(r)
  PROVE  TileInv'
<1>1. /\ UNCHANGED <<source, row, replaced, rowCache, raw, titiler, time>>
      /\ req \in [Requests -> RequestType] /\ req[r] \in RequestType
      /\ source = "landsat"
  BY DEF StacUrl, TileInv
<1>2. Lateness(req[r]) \in {0, 1}
  BY DEF Lateness
<1>3. ASSUME NEW t \in 1 .. MaxTokens, Token(t),
             req' = [req EXCEPT ![r] = Asking(UrlVersion("token", t), req[r])]
      PROVE  TileInv'
  <2>1. /\ req'[r] = Asking(<<"token", t>>, req[r]) /\ req' = [req EXCEPT ![r] = req'[r]]
        /\ <<"token", t>> \in {"token", "bucket"} \X Nat
    BY <1>1, <1>3 DEF UrlVersion
  <2>2. /\ req'[r] \in RequestType /\ req'[r].pc = "titiler" /\ req'[r].key = <<"token", t>>
        /\ Lateness(req'[r]) = Lateness(req[r])
    BY <1>1, <2>1, AskingTyped
  <2>3. /\ t \in DOMAIN tokens' /\ tokens'[t] \in Nat /\ time + CopyMargin < tokens'[t]
        /\ t \in DOMAIN tokens => t = copy /\ copy' = copy
        /\ \A u \in DOMAIN tokens : tokens'[u] = tokens[u]
    BY <1>1, <1>3, TokenLives
  <2>4. IsUrlKey(req[r].key)'
    BY <2>1, <2>2, <2>3 DEF IsUrlKey
  <2>5. time + CopyMargin < tokens'[t] + Lateness(req[r])
    BY <1>2, <2>3, TileFacts, TileConstants
  <2>6. ASSUME NEW i \in titiler, i.key = <<"token", t>>
        PROVE  time + 1 < tokens'[i.token] + Lateness(req[r])
    <3>1. ItemOK(i) /\ i.token \in DOMAIN tokens /\ t \in DOMAIN tokens
      BY <2>6 DEF TileInv, ItemOK, IsUrlKey
    <3>2. tokens[copy] <= tokens[i.token] /\ t = copy
      BY <2>3, <2>6, <3>1 DEF ItemOK
    <3>3. /\ tokens[i.token] \in Nat /\ tokens[copy] \in Nat /\ tokens'[i.token] = tokens[i.token]
          /\ tokens'[t] = tokens[copy]
      BY <2>3, <3>1, <3>2, TileFacts
    <3>4. time + 1 < tokens'[i.token]
      BY <2>3, <3>2, <3>3, TileFacts, TileConstants
    <3>5. QED
      BY <1>2, <3>3, <3>4, TileFacts
  <2>7. AskOK(req[r])'
    <3>1. Lateness(req[r])' = Lateness(req[r])
      BY <2>2 DEF Lateness
    <3>2. req'[r].key[1] = "token" /\ req'[r].key[2] = t
      BY <2>2
    <3>3. QED
      BY <1>1, <2>2, <2>4, <2>5, <2>6, <3>1, <3>2 DEF AskOK
  <2>8. RequestOK(req[r])'
    BY <2>2, <2>7 DEF RequestOK
  <2>9. QED
    BY <1>1, <1>3, <2>1, <2>2, <2>8, TokenStepKeeps
<1>4. CASE /\ req' = [req EXCEPT ![r] = Asking(UrlVersion("bucket", time), req[r])]
           /\ UNCHANGED <<tokens, copy>>
  <2>1. /\ req'[r] = Asking(<<"bucket", time>>, req[r]) /\ req' = [req EXCEPT ![r] = req'[r]]
        /\ <<"bucket", time>> \in {"token", "bucket"} \X Nat
    BY <1>1, <1>4, TileFacts DEF UrlVersion
  <2>2. /\ req'[r] \in RequestType /\ req'[r].pc = "titiler" /\ req'[r].key = <<"bucket", time>>
        /\ Lateness(req'[r]) = Lateness(req[r])
    BY <1>1, <2>1, AskingTyped
  <2>3. /\ req'[r].key[1] = "bucket" /\ req'[r].key[2] = time
        /\ Lateness(req[r])' = Lateness(req[r])
    BY <2>2 DEF Lateness
  <2>4. IsUrlKey(req[r].key)'
    BY <1>1, <2>1, <2>2, <2>3, TileFacts DEF IsUrlKey
  <2>5. ASSUME NEW i \in titiler, i.key = <<"bucket", time>>
        PROVE  time + 1 < tokens[i.token] + Lateness(req[r])
    <3>1. i.key[1] = "bucket" /\ i.key[2] = time /\ i.token \in DOMAIN tokens
      BY <2>5 DEF TileInv, ItemOK
    <3>2. time + CopyMargin < tokens[i.token]
      BY <3>1 DEF TileInv, ItemOK
    <3>3. tokens[i.token] \in Nat
      BY <3>1, TileFacts
    <3>4. QED
      BY <1>2, <3>2, <3>3, TileFacts, TileConstants
  <2>6. time <= time + Lateness(req[r])
    BY <1>2, TileFacts
  <2>7. AskOK(req[r])'
    BY <1>1, <1>4, <2>2, <2>3, <2>4, <2>5, <2>6 DEF AskOK
  <2>8. RequestOK(req[r])'
    BY <2>2, <2>7 DEF RequestOK
  <2>9. QED
    BY <1>1, <1>4, <2>1, <2>2, <2>8, RequestMovesAlone
<1>5. QED
  BY <1>3, <1>4 DEF StacUrl

(* An item is kept for so long that what it shows stays within the bound:  *)
(* its URL is asked for while the token or the bucket it names is current. *)
LEMMA AskedItemIsRecent ==
  ASSUME TileInv, NEW q \in RequestType, AskOK(q), NEW v \in Versions, KeyEnds(q.key, v)
  PROVE  time <= replaced[v] + LongestStale /\ LongestStale \in Nat
<1>1. LongestStale = StacTTL + (Life - CopyMargin) + 1 /\ LongestStale \in Nat
  BY TileConstants DEF LongestStale, AskOK
<1>2. Lateness(q) \in {0, 1} /\ replaced[v] \in Nat /\ time \in Nat
  BY TileFacts DEF Lateness
<1>3. q.key[2] \in Nat
  BY DEF RequestType
<1>4. CASE q.key[1] = "token"
  <2>1. q.key[2] \in DOMAIN tokens
    BY <1>4 DEF AskOK, IsUrlKey
  <2>2. tokens[q.key[2]] \in Nat
    BY <2>1, TileFacts
  <2>3. time + CopyMargin < tokens[q.key[2]] + Lateness(q) /\ tokens[q.key[2]] <= replaced[v] + StacTTL + Life
    BY <1>4 DEF AskOK, KeyEnds
  <2>4. QED
    BY <1>1, <1>2, <2>2, <2>3, TileConstants
<1>5. CASE q.key[1] # "token"
  <2>1. time <= q.key[2] + Lateness(q) /\ q.key[2] <= replaced[v] + StacTTL
    BY <1>5 DEF AskOK, KeyEnds
  <2>2. QED
    BY <1>1, <1>2, <1>3, <2>1, TileConstants
<1>6. QED
  BY <1>4, <1>5

(* What is held as the URL is asked for may be kept under it.              *)
LEMMA HeldItemEnds ==
  ASSUME TileInv, NEW q \in RequestType, AskOK(q), NEW v \in Versions,
         time <= replaced[v] + StacTTL \/ time <= replaced[v] + 1
  PROVE  KeyEnds(q.key, v)
<1>1. time \in Nat /\ replaced[v] \in Nat /\ q.key[2] \in Nat
  BY TileFacts DEF RequestType
<1>2. time <= replaced[v] + StacTTL
  BY <1>1, TileConstants
<1>3. CASE q.key[1] = "token"
  <2>1. q.key[2] \in DOMAIN tokens
    BY <1>3 DEF AskOK, IsUrlKey
  <2>2. tokens[q.key[2]] \in Nat /\ tokens[q.key[2]] <= time + Life
    BY <2>1, TileFacts DEF TileInv, TokensOK
  <2>3. tokens[q.key[2]] <= replaced[v] + StacTTL + Life
    BY <1>1, <1>2, <2>2, TileConstants
  <2>4. QED
    BY <1>3, <2>3 DEF KeyEnds
<1>4. CASE q.key[1] # "token"
  <2>1. q.key[2] <= time
    BY <1>4 DEF AskOK, IsUrlKey
  <2>2. QED
    BY <1>1, <1>2, <1>4, <2>1, TileConstants DEF KeyEnds
<1>5. QED
  BY <1>3, <1>4

(* A request that goes on with the URL it asks for.                        *)
LEMMA AskStays ==
  ASSUME NEW r \in Requests, AskOK(req[r]), UNCHANGED <<source, tokens, titiler, time>>,
         req'[r].key = req[r].key, req'[r].late = req[r].late
  PROVE  AskOK(req[r])' /\ Lateness(req[r])' = Lateness(req[r])
<1>1. Lateness(req[r])' = Lateness(req[r])
  BY DEF Lateness
<1>2. IsUrlKey(req[r].key)'
  BY DEF AskOK, IsUrlKey
<1>3. QED
  BY <1>1, <1>2 DEF AskOK

LEMMA AskTitilerKeeps ==
  ASSUME TileInv, NEW r \in Requests, AskTitiler(r)
  PROVE  TileInv'
<1>1. /\ UNCHANGED <<source, row, replaced, rowCache, tokens, copy, raw, titiler, time>>
      /\ req \in [Requests -> RequestType] /\ req[r] \in RequestType
      /\ req[r].pc = "titiler"
  BY DEF AskTitiler, TileInv, InStep
<1>2. AskOK(req[r])
  BY <1>1 DEF TileInv, RequestOK
<1>3. ASSUME NEW i \in titiler, i.key = req[r].key,
             req' = [req EXCEPT ![r] = Rendered(i.version, tokens[i.token])]
      PROVE  TileInv'
  <2>1. /\ req'[r] = Rendered(i.version, tokens[i.token])
        /\ req' = [req EXCEPT ![r] = req'[r]]
    BY <1>1, <1>3
  <2>2. ItemOK(i) /\ i.version \in Versions /\ i.token \in DOMAIN tokens
    BY DEF TileInv, ItemOK
  <2>3. tokens[i.token] \in Nat /\ time < tokens[i.token]
    <3>1. time + 1 < tokens[i.token] + Lateness(req[r])
      BY <1>2, <1>3 DEF AskOK
    <3>2. Lateness(req[r]) \in {0, 1} /\ tokens[i.token] \in Nat
      BY <2>2, TileFacts DEF Lateness
    <3>3. QED
      BY <3>1, <3>2, TileFacts
  <2>4. time <= replaced[i.version] + LongestStale /\ LongestStale \in Nat
    <3>1. KeyEnds(req[r].key, i.version)
      BY <1>3, <2>2 DEF ItemOK
    <3>2. QED
      BY <1>1, <1>2, <2>2, <3>1, AskedItemIsRecent
  <2>5. req'[r] \in RequestType /\ RequestOK(req[r])'
    BY <1>1, <2>1, <2>2, <2>3, <2>4, RenderedFits
  <2>6. QED
    BY <1>1, <2>1, <2>5, RequestMovesAlone
<1>4. CASE Goto(r, "callback")
  <2>1. req'[r] = [req[r] EXCEPT !.pc = "callback"] /\ req' = [req EXCEPT ![r] = req'[r]]
    BY <1>1, <1>4 DEF Goto
  <2>2. /\ req'[r] \in RequestType /\ req'[r].pc = "callback" /\ req'[r].key = req[r].key
        /\ req'[r].late = req[r].late
    BY <1>1, <2>1 DEF RequestType
  <2>3. AskOK(req[r])'
    BY <1>1, <1>2, <2>2, AskStays
  <2>4. RequestOK(req[r])'
    BY <2>2, <2>3 DEF RequestOK
  <2>5. QED
    BY <1>1, <2>1, <2>2, <2>4, RequestMovesAlone
<1>5. CASE Refuse(r)
  <2>1. req'[r] = Idle /\ req' = [req EXCEPT ![r] = req'[r]]
    BY <1>1, <1>5 DEF Refuse
  <2>2. QED
    BY <1>1, <2>1, IdleFits, RequestMovesAlone
<1>6. QED
  BY <1>3, <1>4, <1>5 DEF AskTitiler

LEMMA CallbackRowKeeps ==
  ASSUME TileInv, NEW r \in Requests, CallbackRow(r)
  PROVE  TileInv'
<1>1. /\ UNCHANGED <<source, row, replaced, rowCache, tokens, copy, raw, titiler, time>>
      /\ req \in [Requests -> RequestType] /\ req[r] \in RequestType
      /\ req[r].pc = "callback"
  BY DEF CallbackRow, TileInv, InStep
<1>2. AskOK(req[r])
  BY <1>1 DEF TileInv, RequestOK
<1>3. CASE row = 0 /\ Refuse(r)
  <2>1. req'[r] = Idle /\ req' = [req EXCEPT ![r] = req'[r]]
    BY <1>1, <1>3 DEF Refuse
  <2>2. QED
    BY <1>1, <2>1, IdleFits, RequestMovesAlone
<1>4. CASE row # 0 /\ req' = [req EXCEPT ![r].pc = "item", ![r].item = row]
  <2>1. /\ req'[r] = [req[r] EXCEPT !.pc = "item", !.item = row]
        /\ req' = [req EXCEPT ![r] = req'[r]]
    BY <1>1, <1>4
  <2>2. row \in Versions /\ replaced[row] = Never
    BY <1>4, TileConstants DEF TileInv
  <2>3. /\ req'[r] \in RequestType /\ req'[r].pc = "item" /\ req'[r].key = req[r].key
        /\ req'[r].late = req[r].late /\ req'[r].item = row
    BY <1>1, <2>1, <2>2 DEF RequestType
  <2>4. AskOK(req[r])'
    BY <1>1, <1>2, <2>3, AskStays
  <2>5. HeldOK(req[r].item, 0, req[r])'
    BY <1>1, <2>2, <2>3, TileFacts, TileConstants DEF HeldOK, Lateness, Never
  <2>6. RequestOK(req[r])'
    BY <2>3, <2>4, <2>5 DEF RequestOK
  <2>7. QED
    BY <1>1, <2>1, <2>3, <2>6, RequestMovesAlone
<1>5. QED
  BY <1>3, <1>4 DEF CallbackRow

(* The request goes on to sign a version it may show.                      *)
LEMMA SignFits ==
  ASSUME TileInv, NEW r \in Requests, AskOK(req[r]), req[r] \in RequestType,
         UNCHANGED <<source, replaced, tokens, titiler, time>>,
         NEW v \in Versions, time <= replaced[v] + StacTTL + Lateness(req[r]),
         time <= replaced[v] + StacTTL \/ time <= replaced[v] + 1,
         req'[r] = [req[r] EXCEPT !.pc = "sign", !.item = v]
  PROVE  req'[r] \in RequestType /\ RequestOK(req[r])'
<1>1. /\ req'[r] \in RequestType /\ req'[r].pc = "sign" /\ req'[r].key = req[r].key
      /\ req'[r].late = req[r].late /\ req'[r].item = v
  BY DEF RequestType
<1>2. AskOK(req[r])' /\ Lateness(req[r])' = Lateness(req[r])
  BY <1>1, AskStays
<1>3. HeldOK(req[r].item, StacTTL, req[r])'
  BY <1>1, <1>2 DEF HeldOK
<1>4. KeyEnds(req[r].key, v)
  BY HeldItemEnds
<1>5. KeyEnds(req[r].key, req[r].item)'
  BY <1>1, <1>4 DEF KeyEnds
<1>6. QED
  BY <1>1, <1>2, <1>3, <1>5 DEF RequestOK

LEMMA CallbackItemKeeps ==
  ASSUME TileInv, NEW r \in Requests, CallbackItem(r)
  PROVE  TileInv'
<1>1. /\ UNCHANGED <<source, row, replaced, rowCache, tokens, copy, titiler, time>>
      /\ req \in [Requests -> RequestType] /\ req[r] \in RequestType
      /\ req[r].pc = "item"
  BY DEF CallbackItem, TileInv, InStep
<1>2. AskOK(req[r]) /\ HeldOK(req[r].item, 0, req[r])
  BY <1>1 DEF TileInv, RequestOK
<1>3. TokensOK' /\ CachesOK /\ \A i \in titiler' : ItemOK(i)'
  BY <1>1, ItemsStay DEF TileInv, TokensOK
<1>4. Lateness(req[r]) \in {0, 1} /\ time \in Nat
  BY TileFacts DEF Lateness
<1>5. CASE raw.dies > time /\ raw' = AfterHit
           /\ req' = [req EXCEPT ![r].pc = "sign", ![r].item = raw.version]
  <2>1. /\ req'[r] = [req[r] EXCEPT !.pc = "sign", !.item = raw.version]
        /\ req' = [req EXCEPT ![r] = req'[r]] /\ raw' = raw
    BY <1>1, <1>5 DEF AfterHit
  <2>2. raw.dies \in Nat /\ raw.dies # 0
    BY <1>3, <1>4, <1>5 DEF CachesOK
  <2>3. raw.version \in Versions /\ raw.dies <= replaced[raw.version] + StacTTL + 1
    BY <1>3, <2>2 DEF CachesOK
  <2>4. replaced[raw.version] \in Nat
    BY <2>3, TileFacts
  <2>5. time <= replaced[raw.version] + StacTTL
    BY <1>4, <1>5, <2>2, <2>3, <2>4, TileConstants
  <2>6. time <= replaced[raw.version] + StacTTL + Lateness(req[r])
    BY <1>4, <2>4, <2>5, TileConstants
  <2>7. req'[r] \in RequestType /\ RequestOK(req[r])'
    BY <1>1, <1>2, <2>1, <2>3, <2>5, <2>6, SignFits
  <2>8. CachesOK'
    BY <1>1, <1>3, <2>1 DEF CachesOK
  <2>9. QED
    BY <1>1, <1>3, <2>1, <2>7, <2>8, RequestMoves
<1>6. CASE /\ Goto(r, "sign")
           /\ raw' \in {[version |-> req[r].item, dies |-> time + StacTTL], raw}
  <2>1. req[r].item \in Versions /\ time <= replaced[req[r].item] + 0 + Lateness(req[r])
    BY <1>2 DEF HeldOK
  <2>2. replaced[req[r].item] \in Nat
    BY <2>1, TileFacts
  <2>3. /\ time <= replaced[req[r].item] + 1
        /\ time <= replaced[req[r].item] + StacTTL + Lateness(req[r])
    BY <1>4, <2>1, <2>2, TileConstants
  <2>4. /\ req'[r] = [req[r] EXCEPT !.pc = "sign", !.item = req[r].item]
        /\ req' = [req EXCEPT ![r] = req'[r]]
    BY <1>1, <1>6 DEF Goto, RequestType
  <2>5. req'[r] \in RequestType /\ RequestOK(req[r])'
    BY <1>1, <1>2, <2>1, <2>3, <2>4, SignFits
  <2>6. CachesOK'
    <3>1. CASE raw' = raw
      BY <1>1, <1>3, <3>1 DEF CachesOK
    <3>2. CASE raw' = [version |-> req[r].item, dies |-> time + StacTTL]
      <4>1. raw'.version = req[r].item /\ raw'.dies = time + StacTTL
        BY <3>2
      <4>2. raw'.dies \in Nat /\ raw'.dies <= replaced[req[r].item] + StacTTL + 1
        BY <1>4, <2>2, <2>3, <4>1, TileConstants
      <4>3. raw'.dies <= time' + StacTTL
        BY <1>1, <1>4, <4>1, TileConstants
      <4>4. QED
        BY <1>1, <1>3, <2>1, <4>1, <4>2, <4>3 DEF CachesOK
    <3>3. QED
      BY <1>6, <3>1, <3>2
  <2>7. QED
    BY <1>1, <1>3, <2>4, <2>5, <2>6, RequestMoves
<1>7. CASE Refuse(r) /\ UNCHANGED raw
  <2>1. req'[r] = Idle /\ req' = [req EXCEPT ![r] = req'[r]]
    BY <1>1, <1>7 DEF Refuse
  <2>2. QED
    BY <1>1, <1>7, <2>1, IdleFits, RequestMovesAlone
<1>8. QED
  BY <1>5, <1>6, <1>7 DEF CallbackItem

(* Titiler keeps what the callback signed, under the URL it was asked.     *)
LEMMA SignedItemFits ==
  ASSUME TileInv, NEW r \in Requests, AskOK(req[r]), req[r] \in RequestType,
         NEW t \in 1 .. MaxTokens, Token(t), UNCHANGED <<replaced, time>>,
         req[r].item \in Versions, KeyEnds(req[r].key, req[r].item),
         NEW i, i.key = req[r].key, i.version = req[r].item, i.token = t
  PROVE  ItemOK(i)'
<1>1. /\ t \in DOMAIN tokens' /\ tokens'[t] \in Nat /\ time + CopyMargin < tokens'[t]
      /\ DOMAIN tokens \subseteq DOMAIN tokens'
      /\ \A u \in DOMAIN tokens : tokens'[u] = tokens[u]
      /\ copy' # 0 => tokens'[copy'] <= tokens'[t]
  BY TokenLives
<1>2. IsUrlKey(req[r].key)
  BY DEF AskOK
<1>3. IsUrlKey(i.key)'
  <2>1. /\ i.key \in {"token", "bucket"} \X Nat
        /\ i.key[1] = "token" => i.key[2] \in DOMAIN tokens
        /\ i.key[1] # "token" => i.key[2] <= time
    BY <1>2 DEF IsUrlKey
  <2>2. QED
    BY <1>1, <2>1 DEF IsUrlKey
<1>4. KeyEnds(i.key, i.version)'
  BY <1>1, <1>2 DEF IsUrlKey, KeyEnds
<1>5. i.key = <<"token", copy'>> => tokens'[copy'] <= tokens'[i.token]
  <2> SUFFICES ASSUME i.key = <<"token", copy'>> PROVE tokens'[copy'] <= tokens'[i.token]
    OBVIOUS
  <2>1. copy' \in DOMAIN tokens
    BY <1>2 DEF IsUrlKey
  <2>2. copy' # 0
    BY <2>1, TileFacts
  <2>3. QED
    BY <1>1, <2>2
<1>6. i.key[1] = "bucket" => i.key[2] + CopyMargin < tokens'[i.token]
  <2> SUFFICES ASSUME i.key[1] = "bucket" PROVE i.key[2] + CopyMargin < tokens'[i.token]
    OBVIOUS
  <2>1. i.key[2] <= time /\ i.key[2] \in Nat
    BY <1>2 DEF IsUrlKey
  <2>2. time \in Nat /\ CopyMargin \in Nat /\ i.token = t
    BY TileFacts, TileConstants
  <2>3. time + CopyMargin < tokens'[t] /\ tokens'[t] \in Nat
    BY <1>1
  <2>4. QED
    BY <2>1, <2>2, <2>3
<1>7. i.version \in Versions /\ i.token \in DOMAIN tokens'
  BY <1>1
<1>8. QED
  BY <1>3, <1>4, <1>5, <1>6, <1>7 DEF ItemOK

LEMMA CallbackSignKeeps ==
  ASSUME TileInv, NEW r \in Requests, CallbackSign(r)
  PROVE  TileInv'
<1>1. /\ UNCHANGED <<source, row, replaced, rowCache, raw, time>>
      /\ req \in [Requests -> RequestType] /\ req[r] \in RequestType
      /\ req[r].pc = "sign"
  BY DEF CallbackSign, TileInv, InStep
<1>2. /\ AskOK(req[r]) /\ HeldOK(req[r].item, StacTTL, req[r])
      /\ KeyEnds(req[r].key, req[r].item) /\ req[r].item \in Versions
  BY <1>1 DEF TileInv, RequestOK, HeldOK
<1>3. ASSUME NEW t \in 1 .. MaxTokens, Token(t),
             titiler' = {i \in titiler : i.key # req[r].key}
                          \cup {[key |-> req[r].key, version |-> req[r].item, token |-> t]},
             req' = [req EXCEPT ![r] = Rendered(req[r].item, tokens'[t])]
      PROVE  TileInv'
  <2>1. /\ req'[r] = Rendered(req[r].item, tokens'[t])
        /\ req' = [req EXCEPT ![r] = req'[r]]
    BY <1>1, <1>3
  <2>2. /\ tokens'[t] \in Nat /\ time + CopyMargin < tokens'[t]
        /\ DOMAIN tokens \subseteq DOMAIN tokens' /\ TokensOK'
        /\ \A u \in DOMAIN tokens : tokens'[u] = tokens[u]
        /\ copy' = copy \/ copy' \notin DOMAIN tokens
    BY <1>1, <1>3, TokenLives
  <2>3. time < tokens'[t] /\ time + 1 < tokens'[t]
    BY <2>2, TileFacts, TileConstants
  <2>4. time <= replaced[req[r].item] + LongestStale /\ LongestStale \in Nat
    BY <1>1, <1>2, AskedItemIsRecent
  <2>5. req'[r] \in RequestType /\ RequestOK(req[r])'
    BY <1>1, <1>2, <2>1, <2>2, <2>3, <2>4, RenderedFits
  <2>6. PICK new : new = [key |-> req[r].key, version |-> req[r].item, token |-> t]
    OBVIOUS
  <2>7. new.key = req[r].key /\ new.version = req[r].item /\ new.token = t
    BY <2>6
  <2>8. ItemOK(new)'
    BY <1>1, <1>2, <1>3, <2>7, SignedItemFits
  <2>9. \A i \in titiler' : i \in titiler \/ i = new
    BY <1>3, <2>6
  <2>10. \A i \in titiler : ItemOK(i)'
    BY <1>1, <2>2, ItemsStay
  <2>11. \A i \in titiler' : ItemOK(i)'
    BY <2>8, <2>9, <2>10
  <2>12. \A i \in titiler' :
            i \in titiler \/ (tokens'[i.token] \in Nat /\ time + 1 < tokens'[i.token])
    BY <2>2, <2>3, <2>7, <2>9
  <2>13. CachesOK'
    BY <1>1 DEF TileInv, CachesOK
  <2>14. QED
    BY <1>1, <2>1, <2>2, <2>5, <2>11, <2>12, <2>13, RequestMoves
<1>4. CASE Refuse(r) /\ UNCHANGED <<tokens, copy, titiler>>
  <2>1. req'[r] = Idle /\ req' = [req EXCEPT ![r] = req'[r]]
    BY <1>1, <1>4 DEF Refuse
  <2>2. QED
    BY <1>1, <1>4, <2>1, IdleFits, RequestMovesAlone
<1>5. QED
  BY <1>3, <1>4 DEF CallbackSign

(* A replacement: the version stops being served now, and whatever holds   *)
(* it was asked for no later than now.                                     *)
LEMMA ReplaceKeeps ==
  ASSUME TileInv, Replace
  PROVE  TileInv'
<1>1. /\ UNCHANGED <<source, rowCache, tokens, copy, raw, titiler, req, time>>
      /\ row \in Versions /\ replaced' = [replaced EXCEPT ![row] = time]
      /\ row' \in {row + 1, 0} /\ row' \in Versions \cup {0}
      /\ replaced \in [Versions -> 0 .. Never] /\ time \in 0 .. MaxTime
  BY DEF Replace, TileInv
<1>2. replaced' \in [Versions -> 0 .. Never]
  BY <1>1, TileConstants DEF Never
<1>3. \A v \in Versions : replaced'[v] = IF v = row THEN time ELSE replaced[v]
  BY <1>1
<1>4. \A v \in Versions : replaced'[v] \in Nat /\ replaced[v] \in Nat /\ time \in Nat
  BY <1>3, TileFacts
<1>5. row' # 0 => \A v \in Versions : v >= row' => replaced'[v] = Never
  <2> SUFFICES ASSUME row' # 0, NEW v \in Versions, v >= row'
               PROVE  replaced'[v] = Never
    OBVIOUS
  <2>1. row \in Nat /\ v \in Nat /\ row # 0 /\ row' = row + 1
    BY <1>1, TileConstants
  <2>2. v >= row /\ v # row
    BY <2>1
  <2>3. replaced[v] = Never
    BY <2>1, <2>2 DEF TileInv
  <2>4. QED
    BY <1>3, <2>2, <2>3
<1>6. TokensOK'
  BY <1>1 DEF TileInv, TokensOK
<1>7. CachesOK'
  <2>1. CachesOK
    BY DEF TileInv
  <2>2. raw.dies # 0 => raw.dies <= replaced'[raw.version] + StacTTL + 1
    <3> SUFFICES ASSUME raw.dies # 0 PROVE raw.dies <= replaced'[raw.version] + StacTTL + 1
      OBVIOUS
    <3>1. /\ raw.version \in Versions /\ raw.dies <= replaced[raw.version] + StacTTL + 1
          /\ raw.dies <= time + StacTTL /\ raw.dies \in Nat
      BY <2>1 DEF CachesOK
    <3>2. replaced'[raw.version] \in {time, replaced[raw.version]} /\ replaced[raw.version] \in Nat
      BY <1>3, <1>4, <3>1
    <3>3. QED
      BY <1>4, <3>1, <3>2, TileConstants
  <2>3. ASSUME NEW p \in Processes, rowCache[p].version # 0
        PROVE  rowCache[p].at <= replaced'[rowCache[p].version] + 1
    <3>1. rowCache[p] \in EntryType
      BY <2>1 DEF CachesOK
    <3>2. rowCache[p].version \in Versions /\ rowCache[p].at \in Nat
      BY <2>3, <3>1 DEF EntryType
    <3>3. rowCache[p].at <= replaced[rowCache[p].version] + 1 /\ rowCache[p].at <= time
      BY <2>1, <2>3 DEF CachesOK
    <3>4. /\ replaced'[rowCache[p].version] \in {time, replaced[rowCache[p].version]}
          /\ replaced[rowCache[p].version] \in Nat
      BY <1>3, <1>4, <3>2
    <3>5. QED
      BY <1>4, <3>2, <3>3, <3>4
  <2>4. QED
    BY <1>1, <2>1, <2>2, <2>3 DEF CachesOK
<1>8. ASSUME NEW k, IsUrlKey(k), NEW v \in Versions, KeyEnds(k, v)
      PROVE  KeyEnds(k, v)'
  <2>1. k[2] \in Nat
    BY <1>8 DEF IsUrlKey
  <2>2. replaced'[v] \in {time, replaced[v]} /\ replaced[v] \in Nat /\ time \in Nat
    BY <1>3, <1>4
  <2>3. CASE k[1] = "token"
    <3>1. tokens[k[2]] <= time + Life /\ tokens[k[2]] \in Nat
      BY <1>8, <2>3, TileFacts DEF IsUrlKey, TileInv, TokensOK
    <3>2. tokens[k[2]] <= replaced[v] + StacTTL + Life
      BY <1>8, <2>3 DEF KeyEnds
    <3>3. tokens[k[2]] <= replaced'[v] + StacTTL + Life
      BY <2>2, <3>1, <3>2, TileConstants
    <3>4. QED
      BY <1>1, <2>3, <3>3 DEF KeyEnds
  <2>4. CASE k[1] # "token"
    <3>1. k[2] <= time /\ k[2] <= replaced[v] + StacTTL
      BY <1>8, <2>4 DEF IsUrlKey, KeyEnds
    <3>2. k[2] <= replaced'[v] + StacTTL
      BY <2>1, <2>2, <3>1, TileConstants
    <3>3. QED
      BY <2>4, <3>2 DEF KeyEnds
  <2>5. QED
    BY <2>3, <2>4
<1>9. ASSUME NEW i \in titiler
      PROVE  ItemOK(i)'
  <2>1. ItemOK(i) /\ i.version \in Versions /\ IsUrlKey(i.key) /\ KeyEnds(i.key, i.version)
    BY DEF TileInv, ItemOK
  <2>2. KeyEnds(i.key, i.version)'
    BY <1>8, <2>1
  <2>3. QED
    BY <1>1, <2>1, <2>2 DEF ItemOK, IsUrlKey
<1>10. ASSUME NEW s \in Requests
       PROVE  RequestOK(req[s])'
  <2>1. req[s] \in RequestType /\ RequestOK(req[s])
    BY DEF TileInv
  <2>2. Lateness(req[s])' = Lateness(req[s]) /\ Lateness(req[s]) \in {0, 1}
    BY <1>1 DEF Lateness
  <2>3. \A v \in Versions, k \in Nat :
           time <= replaced[v] + k + Lateness(req[s]) => time' <= replaced'[v] + k + Lateness(req[s])
    BY <1>1, <1>3, <1>4, <2>2
  <2>4. /\ HeldOK(req[s].version, 0, req[s]) => HeldOK(req[s].version, 0, req[s])'
        /\ HeldOK(req[s].version, RowTTL, req[s]) => HeldOK(req[s].version, RowTTL, req[s])'
        /\ HeldOK(req[s].item, 0, req[s]) => HeldOK(req[s].item, 0, req[s])'
        /\ HeldOK(req[s].item, StacTTL, req[s]) => HeldOK(req[s].item, StacTTL, req[s])'
    BY <1>1, <2>2, <2>3, TileConstants DEF HeldOK
  <2>5. AskOK(req[s]) => AskOK(req[s])'
    BY <1>1, <2>2 DEF AskOK, IsUrlKey
  <2>6. req[s].pc = "sign" => KeyEnds(req[s].key, req[s].item)'
    <3> SUFFICES ASSUME req[s].pc = "sign" PROVE KeyEnds(req[s].key, req[s].item)'
      OBVIOUS
    <3>1. /\ IsUrlKey(req[s].key) /\ KeyEnds(req[s].key, req[s].item) /\ req[s].item \in Versions
      BY <2>1 DEF RequestOK, HeldOK, AskOK
    <3>2. req'[s] = req[s]
      BY <1>1
    <3>3. PICK k : k = req[s].key
      OBVIOUS
    <3>4. PICK v \in Versions : v = req[s].item
      BY <3>1
    <3>5. KeyEnds(k, v)'
      BY <1>8, <3>1, <3>3, <3>4
    <3>6. QED
      BY <3>2, <3>3, <3>4, <3>5 DEF KeyEnds
  <2>7. LongestStale' = LongestStale /\ source' = source /\ req' = req
    BY <1>1 DEF LongestStale
  <2>9. req[s].pc = "load" => source' # "landsat" /\ HeldOK(req[s].version, 0, req[s])'
    BY <2>1, <2>4, <2>7 DEF RequestOK
  <2>10. req[s].pc = "url" => source' = "landsat" \/ HeldOK(req[s].version, RowTTL, req[s])'
    BY <2>1, <2>4, <2>7 DEF RequestOK
  <2>11. req[s].pc \in {"titiler", "callback", "item", "sign"} => AskOK(req[s])'
    BY <2>1, <2>5 DEF RequestOK
  <2>12. /\ req[s].pc = "item" => HeldOK(req[s].item, 0, req[s])'
         /\ req[s].pc = "sign" => HeldOK(req[s].item, StacTTL, req[s])'
    BY <2>1, <2>4 DEF RequestOK
  <2>13. req[s].pc = "rendered" => req[s].alive /\ req[s].stale <= LongestStale'
    BY <2>1, <2>7 DEF RequestOK
  <2>14. QED
    BY <2>6, <2>7, <2>9, <2>10, <2>11, <2>12, <2>13 DEF RequestOK
<1>11. QED
  BY <1>1, <1>2, <1>5, <1>6, <1>7, <1>9, <1>10 DEF TileInv, Never

(* A unit of time: no request is late for a second one.                    *)
LEMMA TimeKeeps ==
  ASSUME TileInv, Tick
  PROVE  TileInv'
<1>1. /\ UNCHANGED <<source, row, replaced, rowCache, tokens, page>>
      /\ time' = time + 1 /\ time < MaxTime /\ time \in Nat
      /\ \A r \in Requests : Busy(r) => ~req[r].late
      /\ req' = [r \in Requests |-> IF Busy(r) THEN [req[r] EXCEPT !.late = TRUE] ELSE Idle]
      /\ titiler' \subseteq titiler
  BY TileFacts DEF Tick
<1>2. time' \in 0 .. MaxTime
  BY <1>1, TileConstants
<1>3. TokensOK'
  <2>1. copy' \in {copy, 0} /\ (copy' # 0 => time' + CopyMargin < tokens[copy'])
    BY DEF Tick
  <2>2. \A t \in DOMAIN tokens : tokens[t] <= time' + Life
    <3> SUFFICES ASSUME NEW t \in DOMAIN tokens PROVE tokens[t] <= time' + Life
      OBVIOUS
    <3>1. tokens[t] <= time + Life /\ tokens[t] \in Nat
      BY TileFacts DEF TileInv, TokensOK
    <3>2. QED
      BY <1>1, <3>1, TileConstants
  <2>3. copy' \in 0 .. Len(tokens)
    BY <2>1, TileFacts
  <2>4. QED
    BY <1>1, <2>1, <2>2, <2>3 DEF TileInv, TokensOK
<1>4. CachesOK'
  <2>1. CachesOK
    BY DEF TileInv
  <2>2. \A p \in Processes :
           /\ rowCache'[p].at <= time'
           /\ rowCache'[p].version # 0 => rowCache'[p].at <= replaced'[rowCache'[p].version] + 1
    <3>1. \A p \in Processes : rowCache[p].at \in Nat
      BY <2>1 DEF CachesOK, EntryType
    <3>2. QED
      BY <1>1, <2>1, <3>1 DEF CachesOK
  <2>3. CASE raw' = raw
    <3>1. raw.dies \in Nat /\ raw.dies <= time' + StacTTL
      BY <1>1, <2>1, TileConstants DEF CachesOK
    <3>2. QED
      BY <1>1, <2>1, <2>2, <2>3, <3>1 DEF CachesOK
  <2>4. CASE raw' = NoItem
    <3>1. raw'.dies = 0 /\ 0 <= time' + StacTTL
      BY <1>1, <2>4, TileConstants DEF NoItem
    <3>2. QED
      BY <1>1, <2>1, <2>2, <3>1 DEF CachesOK
  <2>5. QED
    BY <2>3, <2>4 DEF Tick
<1>5. ASSUME NEW i \in titiler'
      PROVE  ItemOK(i)'
  <2>1. i \in titiler /\ ItemOK(i)
    BY <1>1 DEF TileInv
  <2>2. IsUrlKey(i.key)'
    <3>1. IsUrlKey(i.key)
      BY <2>1 DEF ItemOK
    <3>2. i.key[2] \in Nat /\ (i.key[2] <= time => i.key[2] <= time')
      BY <1>1, <3>1 DEF IsUrlKey
    <3>3. QED
      BY <1>1, <3>1, <3>2 DEF IsUrlKey
  <2>3. KeyEnds(i.key, i.version)'
    BY <1>1, <2>1 DEF ItemOK, KeyEnds
  <2>4. i.key = <<"token", copy'>> => tokens[copy'] <= tokens[i.token]
    <3> SUFFICES ASSUME i.key = <<"token", copy'>> PROVE tokens[copy'] <= tokens[i.token]
      OBVIOUS
    <3>1. copy' \in DOMAIN tokens
      BY <2>1 DEF ItemOK, IsUrlKey
    <3>2. copy' = copy
      BY <3>1, TileFacts DEF Tick
    <3>3. QED
      BY <2>1, <3>2 DEF ItemOK
  <2>5. QED
    BY <1>1, <2>1, <2>2, <2>3, <2>4 DEF ItemOK
<1>6. ASSUME NEW s \in Requests
      PROVE  req'[s] \in RequestType /\ RequestOK(req[s])'
  <2>1. req[s] \in RequestType /\ RequestOK(req[s])
    BY DEF TileInv
  <2>2. CASE ~Busy(s)
    <3>1. req'[s] = Idle
      BY <1>1, <2>2
    <3>2. QED
      BY <3>1, IdleFits
  <2>3. CASE Busy(s)
    <3>1. req'[s] = [req[s] EXCEPT !.late = TRUE] /\ ~req[s].late
      BY <1>1, <2>3
    <3>2. /\ req'[s] \in RequestType /\ req'[s].pc = req[s].pc /\ req'[s].key = req[s].key
          /\ req'[s].version = req[s].version /\ req'[s].item = req[s].item /\ req'[s].late
      BY <2>1, <3>1 DEF RequestType
    <3>3. Lateness(req[s]) = 0 /\ Lateness(req[s])' = 1
      BY <3>1, <3>2 DEF Lateness
    <3>4. \A v \in Versions, k \in Nat :
             time <= replaced[v] + k + 0 => time' <= replaced'[v] + k + 1
      BY <1>1, TileFacts
    <3>5. /\ HeldOK(req[s].version, 0, req[s]) => HeldOK(req[s].version, 0, req[s])'
          /\ HeldOK(req[s].version, RowTTL, req[s]) => HeldOK(req[s].version, RowTTL, req[s])'
          /\ HeldOK(req[s].item, 0, req[s]) => HeldOK(req[s].item, 0, req[s])'
          /\ HeldOK(req[s].item, StacTTL, req[s]) => HeldOK(req[s].item, StacTTL, req[s])'
      BY <1>1, <3>2, <3>3, <3>4, TileConstants DEF HeldOK
    <3>6. AskOK(req[s]) => AskOK(req[s])'
      <4> SUFFICES ASSUME AskOK(req[s]) PROVE AskOK(req[s])'
        OBVIOUS
      <4>1. IsUrlKey(req[s].key) /\ req[s].key[2] \in Nat
        BY DEF AskOK, IsUrlKey
      <4>2. IsUrlKey(req[s].key)'
        <5>1. req[s].key[2] <= time => req[s].key[2] <= time'
          BY <1>1, <4>1
        <5>2. QED
          BY <1>1, <3>2, <4>1, <5>1 DEF IsUrlKey
      <4>3. req[s].key[1] = "token" => time' + CopyMargin < tokens[req[s].key[2]] + 1
        <5> SUFFICES ASSUME req[s].key[1] = "token"
                     PROVE  time' + CopyMargin < tokens[req[s].key[2]] + 1
          OBVIOUS
        <5>1. tokens[req[s].key[2]] \in Nat
          BY <4>1, TileFacts DEF IsUrlKey
        <5>2. time + CopyMargin < tokens[req[s].key[2]] + 0
          BY <3>3 DEF AskOK
        <5>3. QED
          BY <1>1, <5>1, <5>2, TileConstants
      <4>4. req[s].key[1] # "token" => time' <= req[s].key[2] + 1
        <5> SUFFICES ASSUME req[s].key[1] # "token" PROVE time' <= req[s].key[2] + 1
          OBVIOUS
        <5>1. time <= req[s].key[2] + 0
          BY <3>3 DEF AskOK
        <5>2. QED
          BY <1>1, <4>1, <5>1
      <4>5. ASSUME NEW i \in titiler', i.key = req[s].key
            PROVE  time' + 1 < tokens[i.token] + 1
        <5>1. i \in titiler /\ i.token \in DOMAIN tokens
          BY <1>1 DEF TileInv, ItemOK
        <5>2. time + 1 < tokens[i.token] + 0 /\ tokens[i.token] \in Nat
          BY <3>3, <4>5, <5>1, TileFacts DEF AskOK
        <5>3. QED
          BY <1>1, <5>2
      <4>6. source' = "landsat" /\ tokens' = tokens
        BY <1>1 DEF AskOK
      <4>7. QED
        BY <3>2, <3>3, <4>2, <4>3, <4>4, <4>5, <4>6 DEF AskOK
    <3>7. req[s].pc = "sign" => KeyEnds(req[s].key, req[s].item)'
      <4> SUFFICES ASSUME req[s].pc = "sign" PROVE KeyEnds(req[s].key, req[s].item)'
        OBVIOUS
      <4>1. KeyEnds(req[s].key, req[s].item)
        BY <2>1 DEF RequestOK
      <4>2. QED
        BY <1>1, <3>2, <4>1 DEF KeyEnds
    <3>8. req[s].pc # "rendered" /\ source' = source
      BY <1>1, <2>3 DEF Busy
    <3>10. req[s].pc = "load" => source' # "landsat" /\ HeldOK(req[s].version, 0, req[s])'
      BY <2>1, <3>5, <3>8 DEF RequestOK
    <3>11. req[s].pc = "url" => source' = "landsat" \/ HeldOK(req[s].version, RowTTL, req[s])'
      BY <2>1, <3>5, <3>8 DEF RequestOK
    <3>12. req[s].pc \in {"titiler", "callback", "item", "sign"} => AskOK(req[s])'
      BY <2>1, <3>6 DEF RequestOK
    <3>13. /\ req[s].pc = "item" => HeldOK(req[s].item, 0, req[s])'
           /\ req[s].pc = "sign" => HeldOK(req[s].item, StacTTL, req[s])'
      BY <2>1, <3>5 DEF RequestOK
    <3>14. QED
      BY <3>2, <3>7, <3>8, <3>10, <3>11, <3>12, <3>13 DEF RequestOK
  <2>4. QED
    BY <2>2, <2>3
<1>7. req' \in [Requests -> RequestType]
  BY <1>1, <1>6
<1>8. QED
  BY <1>1, <1>2, <1>3, <1>4, <1>5, <1>6, <1>7 DEF TileInv, Never

LEMMA TileNextKeeps == TileInv /\ [TileNext]_tileVars => TileInv'
<1> SUFFICES ASSUME TileInv, [TileNext]_tileVars
             PROVE  TileInv'
  OBVIOUS
<1>1. ASSUME NEW r \in Requests, RequestStep(r)
      PROVE  TileInv'
  <2>1. CASE \E p \in Processes : ReadRow(r, p)
    BY <2>1, ReadRowKeeps
  <2>2. CASE PutCachedRow(r)
    BY <2>2, PutCachedRowKeeps
  <2>3. CASE CogTile(r)
    BY <2>3, CogTileKeeps
  <2>4. CASE StacUrl(r)
    BY <2>4, StacUrlKeeps
  <2>5. CASE AskTitiler(r)
    BY <2>5, AskTitilerKeeps
  <2>6. CASE CallbackRow(r)
    BY <2>6, CallbackRowKeeps
  <2>7. CASE CallbackItem(r)
    BY <2>7, CallbackItemKeeps
  <2>8. CASE CallbackSign(r)
    BY <2>8, CallbackSignKeeps
  <2>9. QED
    BY <1>1, <2>1, <2>2, <2>3, <2>4, <2>5, <2>6, <2>7, <2>8 DEF RequestStep
<1>2. CASE Replace
  BY <1>2, ReplaceKeeps
<1>3. CASE Tick
  BY <1>3, TimeKeeps
<1>4. CASE List \/ UNCHANGED tileVars
  <2>1. UNCHANGED <<source, row, replaced, rowCache, tokens, copy, raw, titiler, req, time>>
    BY <1>4 DEF List, tileVars
  <2>2. \A s \in Requests : req'[s] = req[s] => RequestOK(req[s])'
    BY <2>1, RequestsStay
  <2>3. \A i \in titiler' : ItemOK(i)'
    BY <2>1, ItemsStay
  <2>4. TokensOK' /\ CachesOK'
    BY <2>1 DEF TileInv, TokensOK, CachesOK
  <2>5. QED
    BY <2>1, <2>2, <2>3, <2>4 DEF TileInv, Never
<1>5. QED
  BY <1>1, <1>2, <1>3, <1>4 DEF TileNext

LEMMA TrackedTilesAreSound == TileInv => TokensOutliveReads /\ OldScenesGoAway
  BY DEF TileInv, RequestOK, InStep, TokensOutliveReads, OldScenesGoAway

(* Whatever request, warm-up or process put an item where it is found, and *)
(* whichever copy of a token was lost, Titiler never reads an image with a *)
(* token that has expired (proxy_imagery_tile, get_signed_stac_item).      *)
THEOREM TilesAreDrawn == TileSpec => []TokensOutliveReads
<1>1. TileSpec => []TileInv
  BY TileStarts, TileNextKeeps, PTL DEF TileSpec
<1>2. QED
  BY <1>1, TrackedTilesAreSound, PTL

(* A scene that was replaced or removed stops being drawn after the caches *)
(* along its way have run out, one after the other, however the requests   *)
(* that fill them interleave with the replacement.                         *)
THEOREM TilesFollowTheRow == TileSpec => []OldScenesGoAway
<1>1. TileSpec => []TileInv
  BY TileStarts, TileNextKeeps, PTL DEF TileSpec
<1>2. QED
  BY <1>1, TrackedTilesAreSound, PTL

-----------------------------------------------------------------------------
(* No mint is beyond the bound on tokens.                                  *)
FewTokens == Len(tokens) <= MaxTokens

LEMMA TokensStayFew ==
  TileInv /\ FewTokens /\ [TileNext]_tileVars => FewTokens'
<1> SUFFICES ASSUME TileInv, FewTokens, [TileNext]_tileVars
             PROVE  FewTokens'
  OBVIOUS
<1>1. tokens \in Seq(Nat) /\ time + Life \in Nat
  BY TileFacts, TileConstants DEF TileInv, TokensOK
<1>2. ASSUME NEW t \in 1 .. MaxTokens, Token(t)
      PROVE  FewTokens'
  <2>1. CASE UNCHANGED tokens
    BY <2>1 DEF FewTokens
  <2>2. CASE t = Len(tokens) + 1 /\ t <= MaxTokens /\ tokens' = Append(tokens, time + Life)
    <3>1. Len(tokens') = Len(tokens) + 1
      BY <1>1, <2>2, AppendProperties
    <3>2. QED
      BY <2>2, <3>1 DEF FewTokens
  <2>3. QED
    BY <1>2, <2>1, <2>2 DEF Token
<1>3. UNCHANGED tokens \/ \E t \in 1 .. MaxTokens : Token(t)
  BY DEF TileNext, RequestStep, ReadRow, PutCachedRow, CogTile, StacUrl, AskTitiler, CallbackRow,
         CallbackItem, CallbackSign, Replace, List, Tick, tileVars
<1>4. QED
  BY <1>2, <1>3 DEF FewTokens

(* The item in Redis is of some version, or none.                          *)
RawTyped == raw.version \in Versions \cup {0}

LEMMA RawStaysTyped == TileInv /\ RawTyped /\ [TileNext]_tileVars => RawTyped'
<1> SUFFICES ASSUME TileInv, RawTyped, [TileNext]_tileVars
             PROVE  RawTyped'
  OBVIOUS
<1>1. CASE UNCHANGED raw
  BY <1>1 DEF RawTyped
<1>2. CASE raw' = NoItem
  BY <1>2 DEF RawTyped, NoItem
<1>3. ASSUME NEW r \in Requests, CallbackItem(r)
      PROVE  RawTyped'
  <2>1. req[r].item \in Versions
    BY <1>3 DEF CallbackItem, InStep, TileInv, RequestOK, HeldOK
  <2>2. raw'.version \in {raw.version, req[r].item}
    BY <1>3 DEF CallbackItem, AfterHit
  <2>3. QED
    BY <2>1, <2>2 DEF FewTokens, RawTyped
<1>4. UNCHANGED raw \/ raw' = NoItem \/ \E r \in Requests : CallbackItem(r)
  BY DEF TileNext, RequestStep, ReadRow, PutCachedRow, CogTile, StacUrl, AskTitiler, CallbackRow,
         CallbackSign, Replace, List, Tick, tileVars
<1>5. QED
  BY <1>1, <1>2, <1>3, <1>4

LEMMA TilesAreTyped == TileInv /\ FewTokens /\ RawTyped => TileTypeOK
<1> SUFFICES ASSUME TileInv, FewTokens, RawTyped
             PROVE  TileTypeOK
  OBVIOUS
<1>1. copy \in 0 .. Len(tokens) /\ rowCache \in [Processes -> EntryType]
  BY DEF TileInv, TokensOK, CachesOK
<1>2. \A i \in titiler : i.version \in Versions /\ i.token \in DOMAIN tokens
  BY DEF TileInv, ItemOK
<1>3. row \in Versions \cup {0} /\ replaced \in [Versions -> 0 .. Never]
      /\ req \in [Requests -> RequestType]
  BY DEF TileInv
<1>4. QED
  BY <1>1, <1>2, <1>3 DEF FewTokens, RawTyped, TileTypeOK

-----------------------------------------------------------------------------
(* The page: its counts are numbers, and it never shows more than is       *)
(* served.                                                                 *)
PageCounts ==
  /\ pServed \in Nat /\ pFailures \in Nat /\ pShown \in 0 .. pServed
  /\ pServed <= 2 /\ pFailures <= 2
PageValues ==
  /\ pStatus \in P!Statuses /\ pSeen \in P!Statuses \cup {P!NotRead}
  /\ pStatusError \in BOOLEAN /\ pListError \in BOOLEAN /\ pRefetch \in BOOLEAN
PageTyped == PageCounts /\ PageValues

LEMMA PageStartsTyped == P!PollInit => PageTyped
<1>1. P!PollInit => PageCounts
  BY DEF P!PollInit, PageCounts
<1>2. P!PollInit => PageValues
  BY Zenon DEF P!PollInit, PageValues, P!Statuses
<1>3. QED
  BY <1>1, <1>2 DEF PageTyped

LEMMA PageStaysTyped == PageTyped /\ [P!PollNext]_pVars => PageTyped'
<1> SUFFICES ASSUME PageTyped, [P!PollNext]_pVars
             PROVE  PageTyped'
  OBVIOUS
<1>1. PageCounts'
  <2>1. \/ UNCHANGED <<pServed, pFailures>> /\ pShown' \in {pShown, pServed}
        \/ pServed < 2 /\ pServed' = pServed + 1 /\ UNCHANGED <<pShown, pFailures>>
        \/ pFailures < 2 /\ pFailures' = pFailures + 1 /\ UNCHANGED <<pShown, pServed>>
    BY DEF P!PollNext, P!RunStarts, P!RunWrites, P!RunConcludes, P!GrowsOld, P!ReadStatus,
           P!StatusFails, P!ReadImagery, P!ImageryFails, pVars
  <2>2. PageCounts
    BY DEF PageTyped
  <2>3. QED
    BY <2>1, <2>2 DEF PageCounts
<1>2. PageValues'
  <2>1. pStatus' \in P!Statuses
    BY DEF P!PollNext, P!RunStarts, P!RunWrites, P!RunConcludes, P!GrowsOld, P!ReadStatus,
           P!StatusFails, P!ReadImagery, P!ImageryFails, pVars, PageTyped, PageValues, P!Statuses
  <2>2. pSeen' \in {pSeen, pStatus}
    BY DEF P!PollNext, P!RunStarts, P!RunWrites, P!RunConcludes, P!GrowsOld, P!ReadStatus,
           P!StatusFails, P!ReadImagery, P!ImageryFails, pVars
  <2>3. pStatusError' \in BOOLEAN /\ pListError' \in BOOLEAN
    BY DEF P!PollNext, P!RunStarts, P!RunWrites, P!RunConcludes, P!GrowsOld, P!ReadStatus,
           P!StatusFails, P!ReadImagery, P!ImageryFails, pVars, PageTyped, PageValues
  <2>4. pRefetch' \in BOOLEAN
    BY DEF P!PollNext, P!RunStarts, P!RunWrites, P!RunConcludes, P!GrowsOld, P!ReadStatus,
           P!StatusFails, P!ReadImagery, P!ImageryFails, pVars, PageTyped, PageValues,
           P!IsTimelineDelivered
  <2>5. QED
    BY <2>1, <2>2, <2>3, <2>4 DEF PageTyped, PageValues
<1>3. QED
  BY <1>1, <1>2 DEF PageTyped

-----------------------------------------------------------------------------
(* The studies of MCServing share no state.                                *)
servingVars == <<study, mintVars, tileVars, searchVars, rateVars, pVars>>

LEMMA ServingStudiesStart ==
  ServingInit => MintInit /\ TileInit /\ SearchInit /\ RateInit /\ P!PollInit
  BY DEF ServingInit, TParked, RParked

LEMMA ServingStudiesStepApart ==
  [ServingNext]_servingVars =>
    /\ [MintNext]_mintVars /\ [TileNext]_tileVars
    /\ [SearchNext]_searchVars /\ [RateNext]_rateVars /\ [P!PollNext]_pVars
  BY DEF ServingNext, OneRequest, TwoRequests, servingVars

LEMMA ServingSteps == ServingSpec => ServingInit /\ [][ServingNext]_servingVars
  BY PTL DEF ServingSpec, servingVars

(* Every behaviour of the instance that TLC runs is one of each component, *)
(* parked or not: what is proved of a component holds in the instance.     *)
LEMMA ServingStudiesAreComponents ==
  ServingSpec => MintSpec /\ TileSpec /\ SearchSpec /\ RateSpec
<1>1. QED
  BY ServingStudiesStart, ServingStudiesStepApart, ServingSteps, PTL
     DEF MintSpec, TileSpec, SearchSpec, RateSpec

(* Every study keeps its types: tokens, replacements and cached rows stay  *)
(* within their bounds, and the page never shows more than is served       *)
(* (queries.ts, ExplorePage.tsx).                                          *)
THEOREM ServingIsTyped == ServingSpec => []ServingTypeOK
<1>1. MintSpec => []MintInv
  BY MintStarts, MintNextKeeps, PTL DEF MintSpec
<1>2. SearchSpec => []SearchInv
  BY SearchStarts, SearchNextKeeps, PTL DEF SearchSpec
<1>3. RateSpec => []RateInv
  BY RateStarts, RateStep, PTL DEF RateSpec
<1>4. TileSpec => [](TileInv /\ FewTokens /\ RawTyped)
  <2>1. Len(<< >>) = 0 /\ MaxTokens \in Nat
    BY TileAssumption
  <2>2. TileInit => tokens = << >> /\ raw.version = 0
    BY DEF TileInit, NoItem
  <2>3. TileInit => FewTokens /\ RawTyped
    BY <2>1, <2>2 DEF FewTokens, RawTyped
  <2>4. QED
    BY <2>3, TileStarts, TileNextKeeps, TokensStayFew, RawStaysTyped, PTL DEF TileSpec
<1>5. ServingSpec => []PageTyped
  BY ServingStudiesStart, ServingStudiesStepApart, ServingSteps, PageStartsTyped,
     PageStaysTyped, PTL
<1>6. MintInv /\ SearchInv /\ RateInv /\ PageTyped /\ TileInv /\ FewTokens /\ RawTyped
        => ServingTypeOK
  <2>1. PageTyped => P!PollTypeOK
    BY DEF PageTyped, PageCounts, PageValues, P!PollTypeOK
  <2>2. /\ MintInv => MintTypeOK
        /\ SearchInv => SearchTypeOK
        /\ RateInv => RateTypeOK
    BY Zenon DEF MintInv, SearchInv, RateInv
  <2>3. QED
    BY Zenon, <2>1, <2>2, TilesAreTyped DEF ServingTypeOK
<1>7. QED
  BY <1>1, <1>2, <1>3, <1>4, <1>5, <1>6, ServingStudiesAreComponents, PTL

=============================================================================
