------------------------------- MODULE TokenMint -------------------------------
(***************************************************************************)
(* The storage token of one blob container, in one process of the API: a   *)
(* copy in Redis that dies a margin before the token does, one mint in     *)
(* flight that concurrent misses join, and the mint at startup.            *)
(***************************************************************************)
EXTENDS Naturals, Sequences, FiniteSets

CONSTANTS
  Callers,
  Lives,      (* how long a token the service issues may still live        *)
  Margin,     (* _SAS_TOKEN_MARGIN_S                                       *)
  MaxNow      (* bound: time                                               *)

ASSUME MintAssumption == Lives \subseteq Nat /\ Margin \in Nat /\ MaxNow \in Nat

VARIABLES
  mints,      (* [state, expiry, by]: every mint begun in the process      *)
  flight,     (* the mint that misses join, 0 for none                     *)
  cached,     (* [expiry, dies]: the copy in Redis; NoCopy for none        *)
  caller,     (* [pc, mint: the one it waits for, over: the mints that had *)
              (* ended when it asked, left: life left in the copy it hit]  *)
  now
mintVars == <<mints, flight, cached, caller, now>>

NoCopy == [expiry |-> 0, dies |-> 0]
NoCall == [pc |-> "idle", mint |-> 0, over |-> {}, left |-> 0]
Ended(how) == [NoCall EXCEPT !.pc = how]

MintType == [state : {"minting", "storing", "minted", "failed", "cancelled"},
             expiry : Nat, by : {"miss", "startup"}]
CallerType ==
  [pc : {"idle", "reading", "missed", "waiting", "hit", "got", "failed", "gone"},
   mint : Nat, over : SUBSET Nat, left : Nat]

MintTypeOK ==
  /\ mints \in Seq(MintType) /\ flight \in 0 .. Len(mints) /\ now \in 0 .. MaxNow
  /\ cached \in [expiry : Nat, dies : Nat] /\ caller \in [Callers -> CallerType]
  /\ \A c \in Callers : caller[c].pc = "waiting" => caller[c].mint \in DOMAIN mints

MintInit ==
  /\ mints = << >> /\ flight = 0 /\ cached = NoCopy
  /\ caller = [c \in Callers |-> NoCall] /\ now = 0

Finished(i) == mints[i].state \in {"minted", "failed", "cancelled"}
Begin(by) == Append(mints, [state |-> "minting", expiry |-> 0, by |-> by])

-----------------------------------------------------------------------------
(* One caller of _container_token.                                         *)
Ask(c) ==
  /\ caller[c].pc = "idle"
  /\ caller' = [caller EXCEPT ![c].pc = "reading", ![c].over = {i \in DOMAIN mints : Finished(i)}]
  /\ UNCHANGED <<mints, flight, cached, now>>

(* A Redis that does not answer is a miss.  The loop runs the callback of  *)
(* a mint that finished before it handles another answer from the network. *)
ReadCopy(c) ==
  /\ caller[c].pc = "reading" /\ (flight # 0 => ~Finished(flight))
  /\ \/ /\ cached.dies > now
        /\ caller' = [caller EXCEPT ![c] = [Ended("hit") EXCEPT !.left = cached.expiry - now]]
     \/ caller' = [caller EXCEPT ![c].pc = "missed"]
  /\ UNCHANGED <<mints, flight, cached, now>>

(* No await between looking for a flight and putting one there.            *)
(* Mutant: every miss mints for itself.                                    *)
MintAlone(c) ==
  /\ caller[c].pc = "missed"
  /\ mints' = Begin("miss") /\ flight' = Len(mints')
  /\ caller' = [caller EXCEPT ![c].pc = "waiting", ![c].mint = flight']
  /\ UNCHANGED <<cached, now>>
JoinOrMint(c) ==
  /\ caller[c].pc = "missed"
  /\ IF flight = 0
     THEN mints' = Begin("miss") /\ flight' = Len(mints')
     ELSE UNCHANGED <<mints, flight>>
  /\ caller' = [caller EXCEPT ![c].pc = "waiting", ![c].mint = flight']
  /\ UNCHANGED <<cached, now>>

Answered(c) ==
  /\ caller[c].pc = "waiting" /\ Finished(caller[c].mint)
  /\ caller' = [caller EXCEPT ![c] =
       IF mints[caller[c].mint].state = "minted" THEN Ended("got") ELSE [@ EXCEPT !.pc = "failed"]]
  /\ UNCHANGED <<mints, flight, cached, now>>

(* The client disconnects.  The wait is shielded: the mint goes on.        *)
(* Mutant: the wait is not shielded.                                       *)
CancelMint(i) == [mints EXCEPT ![i].state = IF Finished(i) THEN @ ELSE "cancelled"]
AfterGiveUp(i) == mints
GiveUp(c) ==
  /\ caller[c].pc = "waiting"
  /\ caller' = [caller EXCEPT ![c] = Ended("gone")]
  /\ mints' = AfterGiveUp(caller[c].mint)
  /\ UNCHANGED <<flight, cached, now>>

-----------------------------------------------------------------------------
(* A mint: the token, then its copy in Redis, then the callback.           *)
(* Mutant: the copy lives as long as the token.                            *)
TokenLife(expiry) == IF expiry > now THEN expiry - now ELSE 0
ContainerTokenTTL(expiry) == IF expiry > now + Margin THEN expiry - now - Margin ELSE 0

Minted(i) ==
  /\ mints[i].state = "minting"
  /\ \E life \in Lives :
       mints' = [mints EXCEPT ![i].state = "storing", ![i].expiry = now + life]
  /\ UNCHANGED <<flight, cached, caller, now>>
MintFails(i) ==
  /\ mints[i].state = "minting" /\ mints' = [mints EXCEPT ![i].state = "failed"]
  /\ UNCHANGED <<flight, cached, caller, now>>
Stored(i) ==
  /\ mints[i].state = "storing"
  /\ mints' = [mints EXCEPT ![i].state = "minted", ![i].expiry = 0]
  /\ LET ttl == ContainerTokenTTL(mints[i].expiry)
     IN  \/ ttl > 0 /\ cached' = [expiry |-> mints[i].expiry, dies |-> now + ttl]
         \/ UNCHANGED cached   (* no life to copy, or the write failed *)
  /\ UNCHANGED <<flight, caller, now>>

(* Mutant: only a success makes room for the next mint.                    *)
PoppedIfMinted(i) == mints[i].state = "minted"
Popped(i) == Finished(i)
Callback ==
  /\ flight # 0 /\ Popped(flight) /\ flight' = 0
  /\ UNCHANGED <<mints, cached, caller, now>>

(* schedule_startup_mint: outside the flights, so a miss mints beside it.  *)
StartupMint ==
  /\ mints = << >> /\ mints' = Begin("startup")
  /\ UNCHANGED <<flight, cached, caller, now>>

MintTick == now < MaxNow /\ now' = now + 1 /\ UNCHANGED <<mints, flight, cached, caller>>

MintStep == \E i \in DOMAIN mints : Minted(i) \/ MintFails(i) \/ Stored(i)
LoopStep(c) == ReadCopy(c) \/ JoinOrMint(c) \/ Answered(c)
MintNext ==
  \/ \E c \in Callers : Ask(c) \/ LoopStep(c) \/ GiveUp(c)
  \/ MintStep \/ Callback \/ StartupMint \/ MintTick

MintSpec == MintInit /\ [][MintNext]_mintVars

(* The event loop runs what is ready, and a mint ends within its budget.   *)
MintFairness ==
  /\ WF_mintVars(MintStep) /\ WF_mintVars(Callback)
  /\ \A c \in Callers : WF_mintVars(LoopStep(c))

-----------------------------------------------------------------------------
(* A token served from the copy has the margin to live that reading an     *)
(* image may take, however late the copy was written (_container_token_ttl).*)
CopiesHaveLifeLeft ==
  \A c \in Callers : caller[c].pc = "hit" => caller[c].left >= Margin

(* Concurrent misses coalesce: one mint of a miss runs at a time, and one  *)
(* more only at startup.                                                   *)
OneMintAtATime ==
  /\ Cardinality({i \in DOMAIN mints : ~Finished(i) /\ mints[i].by = "miss"}) <= 1
  /\ Cardinality({i \in DOMAIN mints : mints[i].by = "startup"}) <= 1

(* A caller fails only with the service: the mint it waited for was        *)
(* refused, and it was refused after the caller asked.                     *)
NobodyFailsForAnother ==
  \A c \in Callers :
    caller[c].pc = "failed" =>
      mints[caller[c].mint].state = "failed" /\ caller[c].mint \notin caller[c].over

(* Single flight (stac.py, _container_token): misses coalesce, nobody      *)
(* fails for a mint that another gave up or that failed before it asked,   *)
(* and a copy has its margin to live.                                      *)
MintsAreSound == OneMintAtATime /\ NobodyFailsForAnother /\ CopiesHaveLifeLeft

(***************************************************************************)
(* The inductive strengthening of MintsAreSound.                           *)
(***************************************************************************)

(* A miss that is still minting is the flight that the next miss joins,    *)
(* the startup mint is the first of the process, and no mint is cancelled. *)
FlightsAreTracked ==
  /\ \A i \in DOMAIN mints : ~Finished(i) /\ mints[i].by = "miss" => i = flight
  /\ \A i \in DOMAIN mints : mints[i].by = "startup" => i = 1
  /\ \A i \in DOMAIN mints : mints[i].state # "cancelled"

(* What a caller waits for, or would join, had not ended when it asked.    *)
JoinsAreLate ==
  \A c \in Callers :
    /\ \A i \in caller[c].over : i \in DOMAIN mints /\ Finished(i)
    /\ caller[c].pc = "missed" => flight \notin caller[c].over
    /\ caller[c].pc \in {"waiting", "failed"} =>
         caller[c].mint \in DOMAIN mints \ caller[c].over
    /\ caller[c].pc = "failed" => mints[caller[c].mint].state = "failed"

(* The copy dies a margin before its token.                                *)
CopyDiesEarly == cached = NoCopy \/ cached.dies + Margin = cached.expiry

MintInv ==
  MintTypeOK /\ FlightsAreTracked /\ JoinsAreLate /\ CopyDiesEarly /\ CopiesHaveLifeLeft

(* Every caller that stays is answered, also beside clients that leave and *)
(* mints that fail.                                                        *)
EveryCallerIsAnswered ==
  \A c \in Callers :
    caller[c].pc = "reading" ~> caller[c].pc \in {"hit", "got", "failed", "gone"}

=============================================================================
