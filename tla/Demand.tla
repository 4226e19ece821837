------------------------------- MODULE Demand -------------------------------
(***************************************************************************)
(* What the gate demands of a client: the decision text an operator's map  *)
(* produces for the request, the assurance it stands for, and the target a *)
(* solution's hash must stay below.                                        *)
(*                                                                         *)
(* A text is given by the form it has in the grammar and the number in it. *)
(* Hashes and targets are big-endian sequences of Digits digits in base    *)
(* Base, where the code has 32 in base 256.                                *)
(***************************************************************************)
EXTENDS Integers, Sequences

CONSTANTS
  Base, Digits,
  MaxU64,       \* the largest number `parse::<u64>' reads
  Texts         \* decision texts: [form, n]

ASSUME DemandAssumption ==
  /\ Base \in Nat \ {0, 1} /\ Digits \in Nat \ {0} /\ MaxU64 \in Nat
  /\ Texts \subseteq [form : STRING, n : Nat]

Hashes == [1 .. Digits -> 0 .. Base - 1]
Silent == [form |-> "empty", n |-> 0]   \* pow_gate_decision is not set

NOJS_DEFAULT_DELAY == 2
NOJS_MIN_DELAY == 1
NOJS_MAX_DELAY == 30

AtLeast(a, b) == IF a < b THEN b ELSE a
Clamp(a, low, high) == IF a > high THEN high ELSE AtLeast(a, low)

-----------------------------------------------------------------------------

Configured == 0   \* Challenge { difficulty: None }

MaxI64 == MaxU64 \div 2

\* Decision::parse.  `verify:' without a name, a number that does not fit and
\* every unknown text are the default challenge; a delay that does not fit is
\* the default delay.
Decision(text) ==
  CASE text.form \in {"allow", "deny", "verify"} -> [kind |-> text.form, n |-> Configured]
    [] text.form = "js" -> [kind |-> "challenge", n |-> 1]
    [] text.form = "number" /\ text.n \in 0 .. MaxU64 -> [kind |-> "challenge", n |-> AtLeast(text.n, 1)]
    [] text.form = "nojs" \/ (text.form = "nojs_delay" /\ text.n > MaxI64) ->
         [kind |-> "nojs", n |-> NOJS_DEFAULT_DELAY]
    [] text.form = "nojs_delay" /\ text.n <= MaxI64 ->
         [kind |-> "nojs", n |-> Clamp(text.n, NOJS_MIN_DELAY, NOJS_MAX_DELAY)]
    [] OTHER -> [kind |-> "challenge", n |-> Configured]

\* assurance_for: every decision but nojs stands for proof of work.
AssuranceFor(decision, difficulty) ==
  CASE decision.kind = "nojs" -> [kind |-> "nojs", n |-> decision.n]
    [] decision.kind = "challenge" /\ decision.n # Configured -> [kind |-> "pow", n |-> decision.n]
    [] OTHER -> [kind |-> "pow", n |-> difficulty]

\* difficulty_to_target: floor(Base^Digits / d) by long division, digit by
\* digit; the leading digit of the quotient is 0 and dropped.
Target(d) ==
  LET numerator == <<1>> \o [i \in 1 .. Digits |-> 0]
      rem[i \in 0 .. Digits + 1] == IF i = 0 THEN 0 ELSE (rem[i - 1] * Base + numerator[i]) % d
  IN IF d <= 1 THEN [i \in 1 .. Digits |-> Base - 1]
     ELSE [i \in 1 .. Digits |-> ((rem[i] * Base + numerator[i + 1]) \div d) % Base]

\* hash_below: decided by the first digit that differs.
HashBelow(hash, target) ==
  \E i \in 1 .. Digits : hash[i] < target[i] /\ \A j \in 1 .. i - 1 : hash[j] = target[j]

-----------------------------------------------------------------------------

\* Reference: the number a hash stands for; the difficulty a text demands where
\* this one is configured, 0 for no work; the number that a solution's hash is
\* to be below, `floor(2^256 / difficulty)'.
Value(hash) ==
  LET value[i \in 0 .. Digits] == IF i = 0 THEN 0 ELSE value[i - 1] * Base + hash[i]
  IN value[Digits]

Demanded(text, difficulty) ==
  CASE text.form \in {"nojs", "nojs_delay"} -> 0
    [] text.form = "js" -> 1
    [] text.form = "number" /\ text.n <= MaxU64 -> AtLeast(text.n, 1)
    [] OTHER -> difficulty

HashCount ==
  LET power[i \in 0 .. Digits] == IF i = 0 THEN 1 ELSE power[i - 1] * Base
  IN power[Digits]

Admitted(d) == HashCount \div d

=============================================================================
