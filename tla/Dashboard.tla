----------------------------- MODULE Dashboard ------------------------------
(***************************************************************************)
(* The script of the landing page: pollAll fetches every endpoint again    *)
(* and again, whether the fetches before have settled or not, and the      *)
(* freshness badge is updated when a round has settled and by its own      *)
(* timer.  Time is counted in periods of that timer.                       *)
(***************************************************************************)
EXTENDS Device

CONSTANTS Endpoint,
          STALE,      \* STALE_MS
          PollEvery,  \* the interval of pollAll
          MaxRounds   \* bound: rounds of fetches under way

ASSUME PageAssumption ==
  /\ Endpoint # {}
  /\ STALE \in Nat \ {0} /\ PollEvery \in Nat \ {0} /\ MaxRounds \in Nat \ {0}

Old == 3 * STALE + 1     \* ages beyond it are not told apart
Never == Old + 1

VARIABLES age,      \* Date.now() - last[n], or Never
          rounds,   \* the fetches of each round that have not settled
          pollIn,   \* until the interval of pollAll is over
          freshDue, \* the interval of updateFreshness is over
          badge

pageVars == <<age, rounds, pollIn, freshDue, badge>>

PageInit ==
  /\ age = [n \in Endpoint |-> Never]
  /\ rounds = <<Endpoint>>
  /\ pollIn = PollEvery /\ freshDue = FALSE /\ badge = "connecting"

\* worst > limit, where an endpoint that never answered is infinitely old.
Exceeds(ages, limit) == \E n \in Endpoint : ages[n] > limit

updateFreshness(ages) ==
  CASE \A n \in Endpoint : ages[n] = Never -> "unreachable"
    [] Exceeds(ages, 3 * STALE) -> "error"
    [] Exceeds(ages, STALE) -> "stale"
    [] OTHER -> "live"

PollAll ==
  /\ pollIn = 0 /\ pollIn' = PollEvery
  /\ rounds' = IF Len(rounds) < MaxRounds THEN Append(rounds, Endpoint) ELSE rounds
  /\ UNCHANGED <<age, freshDue, badge>>

Without(i) == [j \in 1..(Len(rounds) - 1) |-> IF j < i THEN rounds[j] ELSE rounds[j + 1]]

\* A fetch settles: answered and rendered, or failed.  The round that is
\* complete updates the badge.
Settle(i, n) ==
  /\ n \in rounds[i]
  /\ \/ Serving /\ age' = [age EXCEPT ![n] = 0]
     \/ UNCHANGED age
  /\ IF rounds[i] = {n}
     THEN rounds' = Without(i) /\ badge' = updateFreshness(age')
     ELSE rounds' = [rounds EXCEPT ![i] = @ \ {n}] /\ UNCHANGED badge
  /\ UNCHANGED <<pollIn, freshDue>>

\* Mutant: the badge has no timer of its own.
FreshnessTimer_None ==
  /\ freshDue /\ freshDue' = FALSE
  /\ UNCHANGED <<age, rounds, pollIn, badge>>

FreshnessTimer ==
  /\ freshDue /\ freshDue' = FALSE
  /\ badge' = updateFreshness(age)
  /\ UNCHANGED <<age, rounds, pollIn>>

PageStep ==
  /\ PollAll \/ FreshnessTimer \/ \E i \in DOMAIN rounds, n \in Endpoint : Settle(i, n)
  /\ UNCHANGED deviceVars

\* Timers that are due run before time goes on.
PageClock ==
  /\ pollIn > 0 /\ ~freshDue
  /\ pollIn' = pollIn - 1 /\ freshDue' = TRUE
  /\ age' = [n \in Endpoint |-> IF age[n] = Never THEN Never ELSE Capped(age[n] + 1, Old)]
  /\ UNCHANGED <<rounds, badge>>
=============================================================================
