----------------------------- MODULE KeyHealth -----------------------------
(***************************************************************************)
(* The health record of one upstream key                                   *)
(* (internal/scheduler/health.go): its score, its status, the run of 429   *)
(* answers and the end of its cooldown, and what each operation of         *)
(* healthTable makes of it.  A key that was never seen has no record; the  *)
(* table creates one, with full score, on the first operation (ensure).    *)
(***************************************************************************)
EXTENDS Integers

CONSTANTS
  HealthMax,         \* healthMax
  Penalty,           \* loss of score by kind of failure (penalty429, ...)
  RecoverSuccess,    \* recoverSuccess
  CooldownStreak,    \* consecutive429Cooldown
  CooldownFloor,     \* healthCooldownFloor
  ThawScore,         \* healthCooldownFloor + 10
  CooldownTime,      \* cooldownDuration
  None               \* no record

FailureKind == {"rate", "server", "timeout", "quota", "auth"}
KeyStatus == {"active", "cooldown", "banned", "invalid"}
Terminal == {"banned", "invalid"}

ASSUME HealthAssumption ==
  /\ HealthMax \in Nat /\ CooldownFloor \in Nat /\ RecoverSuccess \in Nat
  /\ ThawScore \in 0 .. HealthMax /\ CooldownFloor < ThawScore
  /\ Penalty \in [FailureKind -> Nat] /\ CooldownStreak \in Nat \ {0}
  /\ CooldownTime \in Nat \ {0}

HealthType == [status : KeyStatus, score : 0 .. HealthMax, streak : Nat, until : Nat]
HealthOrNone == HealthType \cup {None}

ASSUME NoneAssumption == None \notin HealthType

Fresh(s) == [status |-> s, score |-> HealthMax, streak |-> 0, until |-> 0]
Ensured(h) == IF h = None THEN Fresh("active") ELSE h

AtLeast(x, low) == IF x < low THEN low ELSE x
AtMost(x, high) == IF x > high THEN high ELSE x

\* Mutant of Seeded: the row of the database replaces the observed record.
SeededAnew(h, s) == Fresh(s)

\* seed: a row of the database initialises a record, and never replaces one.
Seeded(h, s) == IF h = None THEN Fresh(s) ELSE h

\* Mutant of Succeeded: without the upper bound.
SucceededUncapped(h) ==
  LET e == Ensured(h) IN [status |-> IF e.status = "cooldown" THEN "active" ELSE e.status,
                          score |-> e.score + RecoverSuccess, streak |-> 0,
                          until |-> IF e.status = "cooldown" THEN 0 ELSE e.until]

\* markSuccess: a success ends the cooldown, it does not end a ban.
Succeeded(h) ==
  LET e == Ensured(h)
      s == AtMost(e.score + RecoverSuccess, HealthMax)
  IN IF e.status = "cooldown"
     THEN [status |-> "active", score |-> s, streak |-> 0, until |-> 0]
     ELSE [e EXCEPT !.score = s, !.streak = 0]

\* markFailure.  The n-th 429 in a row costs n times the penalty; a network
\* failure leaves the run as it is.
StreakAfter(e, kind) == IF kind = "rate" THEN e.streak + 1
                        ELSE IF kind = "server" THEN 0 ELSE e.streak
ScoreAfter(e, kind) ==
  IF kind = "auth" THEN 0
  ELSE AtLeast(e.score - Penalty[kind] * (IF kind = "rate" THEN e.streak + 1 ELSE 1), 0)
MustCool(e, kind) == \/ kind = "quota"
                     \/ kind = "rate" /\ e.streak + 1 >= CooldownStreak
                     \/ /\ kind # "auth" /\ e.status = "active"
                        /\ ScoreAfter(e, kind) <= CooldownFloor
Failed(h, kind, t) ==
  LET e == Ensured(h)
      cool == MustCool(e, kind)
  IN [status |-> IF kind = "auth" THEN "invalid"
                 ELSE IF cool THEN "cooldown" ELSE e.status,
      score  |-> ScoreAfter(e, kind),
      streak |-> StreakAfter(e, kind),
      until  |-> IF cool THEN t + CooldownTime ELSE e.until]

\* Whether a key may be selected at t, and what asking does to its record:
\* a cooldown that is over ends here.
Usable(h, t) == LET e == Ensured(h)
                IN e.status = "active" \/ (e.status = "cooldown" /\ t >= e.until)
Thawed(e) == [status |-> "active", score |-> AtLeast(e.score, ThawScore),
              streak |-> 0, until |-> 0]
Checked(h, t) == LET e == Ensured(h)
                 IN IF e.status = "cooldown" /\ t >= e.until THEN Thawed(e) ELSE e

\* setStatus: only "active" touches the rest of the record; a key put into
\* cooldown by hand keeps the end of an earlier one, or none.
SetTo(h, s) == LET e == Ensured(h)
               IN IF s = "active" THEN Thawed(e) ELSE [e EXCEPT !.status = s]
=============================================================================
