------------------------------ MODULE Slashing ------------------------------
(***************************************************************************)
(* Equivocation slashing (core/slashing.py): reports handled by several    *)
(* workers on one SQLite file.  A handler looks for an earlier report of   *)
(* the offence, then reads how often the validator was slashed, both in    *)
(* autocommit mode, and then writes the event and the jail record in one   *)
(* transaction.  Time is counted in hours.                                 *)
(***************************************************************************)
EXTENDS Integers, FiniteSets, Functions

CONSTANTS Workers,      \* handlers at work at the same time
          Validators,   \* names reported
          Heights,      \* heights they are reported for
          None,         \* no jail record
          MaxHour,      \* bound: how long a behaviour lasts
          MaxEvents     \* bound: events after which no report is taken up

\* A row of validator_jail.
Record == [until : Nat, count : Nat, total : Nat]

ASSUME SlashingAssumption == MaxHour \in Nat /\ MaxEvents \in Nat /\ None \notin Record

VARIABLES
    events,     \* slashing_events
    jail,       \* validator_jail: the record of each validator, or None
    report,     \* the report each worker handles
    now         \* the clock

vars == <<events, jail, report, now>>

\* The row of an event.  known and at are history: the highest id in the table
\* when its handler looked for an earlier report, and the hour of the commit.
Event == [id : Nat, validator : Validators, height : Heights, percent : Nat,
          known : Nat, at : Nat]
Idle == [pc |-> "idle"]
Report == {Idle}
    \cup [pc : {"checked"}, validator : Validators, height : Heights, known : Nat]
    \cup [pc : {"counted"}, validator : Validators, height : Heights, known : Nat,
          count : Nat]

TypeOK ==
    /\ events \subseteq Event
    /\ jail \in [Validators -> Record \cup {None}]
    /\ report \in [Workers -> Report]
    /\ now \in 0 .. MaxHour

Init ==
    /\ events = {}
    /\ jail = [v \in Validators |-> None]
    /\ report = [w \in Workers |-> Idle]
    /\ now = 0

EventsOf(v) == {e \in events : e.validator = v}
LastId == Cardinality(events)

\* min(0.10 + count * 0.05, 0.50), as the whole per cent that is stored.
Percent(count) == IF count <= 8 THEN 10 + 5 * count ELSE 50

\* Mutant: the query forgets to look for the height that is reported.
CheckOtherHeight(w, v, h) ==
    /\ report[w] = Idle /\ LastId < MaxEvents
    /\ ~ \E e \in EventsOf(v) : e.height # h
    /\ report' = [report EXCEPT ![w] =
         [pc |-> "checked", validator |-> v, height |-> h, known |-> LastId]]
    /\ UNCHANGED <<events, jail, now>>

\* The SELECT for the offence found nothing ...
Check(w, v, h) ==
    /\ report[w] = Idle /\ LastId < MaxEvents
    /\ ~ \E e \in EventsOf(v) : e.height = h
    /\ report' = [report EXCEPT ![w] =
         [pc |-> "checked", validator |-> v, height |-> h, known |-> LastId]]
    /\ UNCHANGED <<events, jail, now>>

\* ... or an event: the answer is "Already reported".
Refuse(w, v, h) ==
    /\ report[w] = Idle
    /\ \E e \in EventsOf(v) : e.height = h
    /\ UNCHANGED vars

\* Mutant: the count of any validator is read.
CountAnyone(w) ==
    /\ report[w].pc = "checked"
    /\ LET r == report[w]
       IN report' = [report EXCEPT ![w] =
            [pc |-> "counted", validator |-> r.validator, height |-> r.height,
             known |-> r.known, count |-> Cardinality(events)]]
    /\ UNCHANGED <<events, jail, now>>

\* Mutant: no default for a validator without a record.
CountWithoutDefault(w) ==
    /\ report[w].pc = "checked"
    /\ LET r == report[w]
           j == jail[r.validator]
       IN report' = [report EXCEPT ![w] =
            [pc |-> "counted", validator |-> r.validator, height |-> r.height,
             known |-> r.known, count |-> IF j = None THEN None ELSE j.count]]
    /\ UNCHANGED <<events, jail, now>>

\* The SELECT of slash_count, on its own.
Count(w) ==
    /\ report[w].pc = "checked"
    /\ LET r == report[w]
           j == jail[r.validator]
       IN report' = [report EXCEPT ![w] =
            [pc |-> "counted", validator |-> r.validator, height |-> r.height,
             known |-> r.known, count |-> IF j = None THEN 0 ELSE j.count]]
    /\ UNCHANGED <<events, jail, now>>

Sentence(count) == now + count + 1

\* Mutant: the update takes the count the handler read.
UpsertStale(j, count) ==
    IF j = None
    THEN [until |-> Sentence(count), count |-> count + 1, total |-> Percent(count)]
    ELSE [until |-> Sentence(count), count |-> count + 1, total |-> j.total + Percent(count)]

\* INSERT ... ON CONFLICT DO UPDATE: the count and the total start from the
\* record that is there, the jail term from the count the handler read.
Upsert(j, count) ==
    IF j = None
    THEN [until |-> Sentence(count), count |-> count + 1, total |-> Percent(count)]
    ELSE [until |-> Sentence(count), count |-> j.count + 1, total |-> j.total + Percent(count)]

\* Mutant: a jailed validator keeps the term it has.
SlashKeepingTerm(w) ==
    /\ report[w].pc = "counted"
    /\ LET r == report[w]
           j == jail[r.validator]
       IN /\ events' = events \cup
               {[id |-> LastId + 1, validator |-> r.validator, height |-> r.height,
                 percent |-> Percent(r.count), known |-> r.known, at |-> now]}
          /\ jail' = [jail EXCEPT ![r.validator] =
               IF j = None THEN Upsert(j, r.count)
               ELSE [Upsert(j, r.count) EXCEPT !.until = j.until]]
    /\ report' = [report EXCEPT ![w] = Idle]
    /\ UNCHANGED now

\* Both INSERTs and their commit; the write lock is taken by the first.
Slash(w) ==
    /\ report[w].pc = "counted"
    /\ LET r == report[w]
       IN /\ events' = events \cup
               {[id |-> LastId + 1, validator |-> r.validator, height |-> r.height,
                 percent |-> Percent(r.count), known |-> r.known, at |-> now]}
          /\ jail' = [jail EXCEPT ![r.validator] = Upsert(@, r.count)]
    /\ report' = [report EXCEPT ![w] = Idle]
    /\ UNCHANGED now

\* The worker is killed or the database stays locked: nothing is written.
Fail(w) ==
    /\ report[w] # Idle
    /\ report' = [report EXCEPT ![w] = Idle]
    /\ UNCHANGED <<events, jail, now>>

Hour ==
    /\ now < MaxHour
    /\ now' = now + 1
    /\ UNCHANGED <<events, jail, report>>

Next ==
    \/ \E w \in Workers :
         \/ \E v \in Validators, h \in Heights : Check(w, v, h) \/ Refuse(w, v, h)
         \/ Count(w) \/ Slash(w) \/ Fail(w)
    \/ Hour

Spec == Init /\ [][Next]_vars

\* is_jailed
IsJailed(v) == jail[v] # None /\ now < jail[v].until

-----------------------------------------------------------------------------
(* "10% of stake for first offense, increasing" (slashing.py:63): a penalty  *)
(* is at least the one due for the events its handler could see, and at most *)
(* the one due for those committed before it.                                *)
PenaltyIsBounded ==
    \A e \in events :
        LET before(k) == Percent(Cardinality({f \in EventsOf(e.validator) : f.id <= k}))
        IN before(e.known) <= e.percent /\ e.percent <= before(e.id - 1)

CountsMatch ==
    \A v \in Validators :
        IF jail[v] = None THEN EventsOf(v) = {}
        ELSE jail[v].count = Cardinality(EventsOf(v))
Percents == [e \in events |-> e.percent]
TotalsMatch ==
    \A v \in Validators :
        jail[v] # None => jail[v].total = SumFunctionOnSet(Percents, EventsOf(v))

(* However the handlers overlap, slash_count and total_slashed of a          *)
(* validator are the number and the sum of its recorded events, each of      *)
(* which is punished as its handler's view demands.                          *)
JailMatchesEvents == CountsMatch /\ TotalsMatch /\ PenaltyIsBounded

(* "Check if already slashed for this offense" (slashing.py:53): an offence  *)
(* is slashed a second time only by a handler that had looked for it before  *)
(* the first event was committed.                                            *)
DuplicateIsARace ==
    \A e, f \in events :
        /\ e.validator = f.validator /\ e.height = f.height
        /\ e.id < f.id
        => f.known < e.id

(* A validator is reported as jailed for at least an hour after each of its  *)
(* events, even when a handler with an old count replaces the jail term.     *)
ServesAnHour ==
    \A e \in events : now <= e.at => IsJailed(e.validator)
=============================================================================
