---------------------------- MODULE RateLimiter -----------------------------
(***************************************************************************)
(* The local rate limiter (agentgateway/src/http/localratelimit.rs): a     *)
(* token bucket of three atomics, shared by every request of a route       *)
(* without a lock.  A caller refills what is due and then takes tokens;    *)
(* each load, compare-and-exchange and fetch-and-add is a step of its own. *)
(* A language-model call is checked with the tokens of its prompt, or with *)
(* none if it was not tokenized, and trued up when its answer is known.    *)
(***************************************************************************)
EXTENDS Integers, FiniteSets, Folds, Functions

CONSTANTS Caller,
          MaxTokens, TokensPerFill,
          Width,     \* 2^64 in the code: available and dropped are u64
          Asked,     \* the numbers of tokens callers ask for
          Amends,    \* the corrections amend_tokens is given
          LastTick   \* bound: the instants looked at, in fill intervals

Uncounted == -1   \* a prompt that was not tokenized

(* RateLimitSpec is refused by Builder::build otherwise.                   *)
ASSUME FillFits ==
  /\ MaxTokens \in Nat /\ TokensPerFill \in 0 .. MaxTokens
  /\ Width \in Nat /\ MaxTokens < Width
ASSUME AskedAssumption == Asked \subseteq Nat /\ Amends \subseteq Int
ASSUME CallersAssumption == IsFiniteSet(Caller) /\ LastTick \in Nat

VARIABLES
  now,        \* the clock, in fill intervals
  available,  \* tokens in the bucket, modulo Width
  dropped,    \* tokens that overflowed the bucket
  refillAt,   \* when the next refill is due
  call,       \* caller -> where its call is
  issued,     \* history: tokens of the intervals that were claimed
  spent       \* history: tokens taken, and removed by amendments

limiterVars == <<now, available, dropped, refillAt, call, issued, spent>>

Idle == [at |-> "idle", want |-> 0, time |-> 0, due |-> 0,
         amount |-> 0, seen |-> 0, refilled |-> FALSE]

LimiterTypeOK ==
  /\ now \in 0 .. LastTick /\ refillAt \in 1 .. LastTick + 1
  /\ available \in 0 .. Width - 1 /\ dropped \in 0 .. Width - 1
  /\ call \in [Caller ->
       [at : {"idle", "refill", "claim", "read", "add", "load", "take",
              "admitted", "refused", "amended"},
        want : Asked \cup {Uncounted, 0}, time : Nat, due : Nat, amount : Nat,
        seen : 0 .. Width - 1, refilled : BOOLEAN]]
  /\ issued \in Nat /\ spent \in Int

LimiterInit ==
  /\ now = 0 /\ refillAt = 1
  /\ available = MaxTokens /\ dropped = 0
  /\ call = [c \in Caller |-> Idle]
  /\ issued = 0 /\ spent = 0

Answered == {"admitted", "refused"}

Answer(c, a) == [Idle EXCEPT !.at = a, !.time = call[c].time]

Move(c, r) == call' = [call EXCEPT ![c] = r]

Tick ==
  /\ now < LastTick /\ now' = now + 1
  /\ UNCHANGED <<available, dropped, refillAt, call, issued, spent>>

-----------------------------------------------------------------------------
(* try_wait_n, available_refill                                            *)

(* Nothing, or more than the bucket holds, is refused at once.             *)
Check(c, n) ==
  /\ call[c].at = "idle"
  /\ Move(c, IF n # Uncounted /\ (n = 0 \/ n > MaxTokens)
             THEN [Idle EXCEPT !.at = "refused", !.time = now]
             ELSE [Idle EXCEPT !.at = "refill", !.want = n, !.time = now])
  /\ UNCHANGED <<now, available, dropped, refillAt, issued, spent>>

(* The time of the call is compared with the next refill.                  *)
RefillDue(c) ==
  /\ call[c].at = "refill"
  /\ Move(c, IF call[c].time < refillAt
             THEN [call[c] EXCEPT !.at = "load", !.refilled = FALSE]
             ELSE [call[c] EXCEPT !.at = "claim", !.due = refillAt])
  /\ UNCHANGED <<now, available, dropped, refillAt, issued, spent>>

Intervals(c) == call[c].time - call[c].due + 1

\* mutant: a store instead of the compare-and-exchange
ClaimAnyway(c) ==
  /\ call[c].at = "claim"
  /\ refillAt' = call[c].due + Intervals(c)
  /\ issued' = issued + Intervals(c) * TokensPerFill
  /\ Move(c, [call[c] EXCEPT !.at = "read",
                             !.amount = Intervals(c) * TokensPerFill])
  /\ UNCHANGED <<now, available, dropped, spent>>


(* compare_exchange on refill_at: one caller claims the intervals.         *)
Claim(c) ==
  /\ call[c].at = "claim"
  /\ IF refillAt = call[c].due
     THEN /\ refillAt' = call[c].due + Intervals(c)
          /\ issued' = issued + Intervals(c) * TokensPerFill
          /\ Move(c, [call[c] EXCEPT !.at = "read",
                                     !.amount = Intervals(c) * TokensPerFill])
     ELSE /\ Move(c, [call[c] EXCEPT !.at = "refill", !.due = 0])
          /\ UNCHANGED <<refillAt, issued>>
  /\ UNCHANGED <<now, available, dropped, spent>>

ReadAvailable(c) ==
  /\ call[c].at = "read"
  /\ Move(c, [call[c] EXCEPT !.at = "add", !.seen = available])
  /\ UNCHANGED <<now, available, dropped, refillAt, issued, spent>>

(* What is added was computed from the value read before: up to the        *)
(* capacity (wrapping if the value was above it), or the whole amount.     *)
ToAdd(c) ==
  IF (call[c].seen + call[c].amount) % Width >= MaxTokens
  THEN MaxTokens - call[c].seen ELSE call[c].amount

AddTokens(c) ==
  /\ call[c].at = "add"
  /\ available' = (available + ToAdd(c)) % Width
  /\ dropped' = (dropped + call[c].amount - ToAdd(c)) % Width
  /\ Move(c, [Idle EXCEPT !.at = "load", !.want = call[c].want,
                          !.time = call[c].time, !.refilled = TRUE])
  /\ UNCHANGED <<now, refillAt, issued, spent>>

(* An uncounted call only looks; a counted one tries to take, or refills   *)
(* again if its refill succeeded and somebody else took the tokens.        *)
LoadAvailable(c) ==
  /\ call[c].at = "load"
  /\ Move(c, CASE call[c].want = Uncounted ->
                    Answer(c, IF available > 0 THEN "admitted" ELSE "refused")
               [] call[c].want # Uncounted /\ available >= call[c].want ->
                    [call[c] EXCEPT !.at = "take", !.seen = available]
               [] call[c].want > available /\ call[c].refilled ->
                    [call[c] EXCEPT !.at = "refill", !.time = now,
                                    !.refilled = FALSE]
               [] OTHER -> Answer(c, "refused"))
  /\ UNCHANGED <<now, available, dropped, refillAt, issued, spent>>

Take(c) ==
  /\ call[c].at = "take"
  /\ IF available = call[c].seen
     THEN /\ available' = available - call[c].want
          /\ spent' = spent + call[c].want
          /\ Move(c, Answer(c, "admitted"))
     ELSE /\ Move(c, [call[c] EXCEPT !.at = "load", !.seen = 0])
          /\ UNCHANGED <<available, spent>>
  /\ UNCHANGED <<now, dropped, refillAt, issued>>

(* amend_tokens saturates at 0 below and at the width above.               *)
Amend(c, n) ==
  /\ call[c].at = "admitted"
  /\ available' = IF n > available THEN 0
                  ELSE IF available - n >= Width THEN Width - 1
                  ELSE available - n
  /\ spent' = spent + available - available'
  /\ Move(c, Answer(c, "amended"))
  /\ UNCHANGED <<now, dropped, refillAt, issued>>

(* The caller's next request (bound: one call of a caller per interval).   *)
Again(c) ==
  /\ call[c].at \in Answered \cup {"amended"}
  /\ call[c].time < now
  /\ Move(c, Idle)
  /\ UNCHANGED <<now, available, dropped, refillAt, issued, spent>>

CallStep(c) ==
  RefillDue(c) \/ Claim(c) \/ ReadAvailable(c) \/ AddTokens(c)
    \/ LoadAvailable(c) \/ Take(c)

LimiterNext ==
  \/ Tick
  \/ \E c \in Caller :
       \/ \E n \in Asked \cup {Uncounted} : Check(c, n)
       \/ CallStep(c)
       \/ \E n \in Amends : Amend(c, n)
       \/ Again(c)

LimiterFairness == \A c \in Caller : WF_limiterVars(CallStep(c))

LimiterSpec == LimiterInit /\ [][LimiterNext]_limiterVars

-----------------------------------------------------------------------------
(* Properties                                                              *)

Claimed(c) == IF call[c].at \in {"read", "add"} THEN call[c].amount ELSE 0

(* Whatever races, no token is lost or made up: the bucket, what it        *)
(* dropped, what was spent and what is being added are the first filling   *)
(* and the tokens issued.                                                  *)
TokensConserved ==
  (available + dropped + spent
     + MapThenFoldSet(+, 0, Claimed, LAMBDA S : CHOOSE c \in S : TRUE, Caller)
     - MaxTokens - issued) % Width = 0

(* Every elapsed interval is refilled once, by one caller.                 *)
IntervalsRefilledOnce == issued = TokensPerFill * (refillAt - 1)

(* The bucket accounts for every token, whatever refills, requests and     *)
(* amendments race.                                                        *)
TokensAccounted ==
  /\ LimiterTypeOK
  /\ TokensConserved
  /\ IntervalsRefilledOnce

(* Every call is answered although it retries when it loses a race: calls  *)
(* that race with finitely many others cannot livelock.                    *)
CallsAnswered ==
  \A c \in Caller : call[c].at = "refill" ~> call[c].at \in Answered

(* "placing an upper bound on the number of tokens available for immediate *)
(* use".                                                                   *)
BurstBounded == available <= MaxTokens
=============================================================================
