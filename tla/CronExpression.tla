---------------------------- MODULE CronExpression ----------------------------
(***************************************************************************)
(* Cron expressions (cron/expression.py): what the five fields may be, the *)
(* values each allows, and the minutes an expression matches.  A field is  *)
(* a record that says in which of the five forms it is written.  Text that *)
(* is no decimal number is refused as a number out of range is: the number *)
(* stands for both.                                                        *)
(***************************************************************************)
EXTENDS Naturals

\* Minute, hour, day of the month, month, day of the week from Sunday
Lowest == <<0, 0, 1, 1, 0>>
Highest == <<59, 23, 31, 12, 6>>
Fields == 1 .. 5

Any == [form |-> "any"]
Every(n) == [form |-> "every", n |-> n]
List(S) == [form |-> "list", of |-> S]
Span(a, b) == [form |-> "span", from |-> a, to |-> b]
Only(n) == [form |-> "only", n |-> n]

\* _parse_value raises for the others
Legal(i) == Lowest[i] .. Highest[i]

\* _parse_field takes field i
Accepted(field, i) ==
  \/ field.form = "any"
  \/ field.form = "every" /\ field.n \in 1 .. (Highest[i] - Lowest[i] + 1)
  \/ field.form = "list" /\ field.of # {} /\ field.of \subseteq Legal(i)
  \/ /\ field.form = "span"
     /\ {field.from, field.to} \subseteq Legal(i)
     /\ field.from <= field.to
  \/ field.form = "only" /\ field.n \in Legal(i)

\* allowed_values: */n counts from the lowest value.
Allowed(field, i) ==
  CASE field.form = "any" -> Legal(i)
    [] field.form = "every" ->
         {Lowest[i] + k * field.n : k \in 0 .. ((Highest[i] - Lowest[i]) \div field.n)}
    [] field.form = "list" -> field.of
    [] field.form = "span" -> field.from .. field.to
    [] field.form = "only" -> {field.n}

\* is_unconstrained: written as *, and not as a form that allows everything
Unconstrained(field) == field.form = "any"

\* parse_cron_expression
Parses(expression) == \A i \in Fields : Accepted(expression[i], i)

\* Python counts the days of the week from Monday.
Weekday(time) == (time.weekday + 1) % 7

\* Mutant: a day that either field allows.
MatchesEitherDay(expression, time) ==
  \/ time.day \in Allowed(expression[3], 3)
  \/ Weekday(time) \in Allowed(expression[5], 5)

\* A field that is constrained decides alone, two of them are alternatives.
MatchesDay(expression, time) ==
  \/ Unconstrained(expression[3]) /\ Unconstrained(expression[5])
  \/ ~Unconstrained(expression[3]) /\ time.day \in Allowed(expression[3], 3)
  \/ ~Unconstrained(expression[5]) /\ Weekday(time) \in Allowed(expression[5], 5)

\* cron_matches
Matches(expression, time) ==
  /\ time.minute \in Allowed(expression[1], 1)
  /\ time.hour \in Allowed(expression[2], 2)
  /\ time.month \in Allowed(expression[4], 4)
  /\ MatchesDay(expression, time)
=============================================================================
