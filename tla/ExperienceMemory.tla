-------------------------- MODULE ExperienceMemory --------------------------
(* Structured memories (memory/experience.py and its Postgres variant,      *)
(* repositories/postgres_state.py), with those who write them: runs add     *)
(* them, the daily job's curator reviews them, an owner purges the expired  *)
(* ones, and planners read and touch them.                                  *)
(*                                                                          *)
(* A curator decides over one listing and then writes review by review.  On *)
(* SQLite a review is one UPDATE, a purge one DELETE and a retrieval one    *)
(* transaction.  On Postgres a review is a get and a put, which inserts the *)
(* row when it is gone; a purge deletes row by row what it listed; and a    *)
(* planner touches what it listed row by row, each under its lock.          *)
(*                                                                          *)
(* Memories are numbered as they are created.  Of a memory there are its    *)
(* status, its validation count and whether it has expired; what the score  *)
(* of its confidence makes of it is a choice.                               *)
EXTENDS Naturals, Sequences, FiniteSets, Functions

CONSTANTS
    Memories,       \* 1..n
    Goal,           \* Goal[m]: the task type and the goal of m
    Advice,         \* Advice[m]: the action it recommends, or NoAdvice
    NoAdvice,
    Good,           \* memories of successes
    Critical,       \* memories of critical risk or of a security violation
    Expiring,       \* memories with an expiry
    Curators, Planners,
    Limit,          \* memories of one review
    Scan,           \* rows that a Postgres purge reads
    MaxReviews      \* bound: listings that curators review

ConstantsOK ==
    /\ IsFiniteSet(Memories) /\ Memories = 1..Cardinality(Memories)
    /\ DOMAIN Goal = Memories /\ DOMAIN Advice = Memories
    /\ Good \subseteq Memories /\ Critical \subseteq Memories /\ Expiring \subseteq Memories
    /\ Limit \in Nat \ {0} /\ Scan \in Nat \ {0} /\ MaxReviews \in Nat

Verdict == {"candidate", "validated", "trusted", "deprecated", "blocked", "needs_review"}
Promoted == {"validated", "trusted"}
NoRow == 0

VARIABLES
    postgres,
    order,          \* the stored memories as they are listed, the newest first
    ever,           \* how many were created
    old,            \* the oldest ones, which are out of the window of days
    expired,
    standing,       \* their memory_status
    validations,    \* their validation_count
    plan,           \* what each curator has still to write
    group,          \* the listing that it decides over
    row,            \* on Postgres, the validation_count it got, and 1; or NoRow
    doomed,         \* what the purge has still to delete
    glimpse,        \* what each planner listed and has still to touch: their status then
    reviews,        \* listings taken
    word,           \* history: the last verdict on each memory
    votes,          \* history: reviews that promoted it
    beside,         \* history: the listing over which that verdict was reached
    purged,         \* history: memories that a purge deleted
    raced           \* history: deleted or reviewed while a review held their row

vars == <<postgres, order, ever, old, expired, standing, validations, plan, group, row, doomed,
          glimpse, reviews, word, votes, beside, purged, raced>>
memoryVars == <<order, standing, validations>>
verdictVars == <<word, votes, beside>>
historyVars == <<verdictVars, purged, raced>>

Stored == Range(order)
Busy(c) == plan[c] # << >>

TypeOK ==
    /\ postgres \in BOOLEAN
    /\ order \in Seq(Memories) /\ IsInjective(order)
    /\ ever \in 0..Cardinality(Memories) /\ old \in 0..ever /\ expired \subseteq Expiring
    /\ standing \in [Memories -> Verdict] /\ validations \in [Memories -> Nat]
    /\ plan \in [Curators -> Seq(Memories)] /\ group \in [Curators -> SUBSET Memories]
    /\ row \in [Curators -> Nat]
    /\ doomed \subseteq expired
    /\ DOMAIN glimpse = Planners /\ \A p \in Planners : DOMAIN glimpse[p] \subseteq Memories
    /\ reviews \in 0..MaxReviews /\ word \in [Memories -> Verdict]
    /\ votes \in [Memories -> Nat] /\ beside \in [Memories -> SUBSET Memories]
    /\ purged \subseteq Memories /\ raced \subseteq Memories

Init ==
    /\ postgres \in BOOLEAN
    /\ order = << >> /\ ever = 0 /\ old = 0 /\ expired = {}
    /\ standing = [m \in Memories |-> "candidate"] /\ validations = [m \in Memories |-> 0]
    /\ plan = [c \in Curators |-> << >>] /\ group = [c \in Curators |-> {}]
    /\ row = [c \in Curators |-> NoRow]
    /\ doomed = {} /\ glimpse = [p \in Planners |-> << >>] /\ reviews = 0
    /\ word = standing /\ votes = validations /\ beside = [m \in Memories |-> {}]
    /\ purged = {} /\ raced = {}

----------------------------------------------------------------------------
\* A run adds what it learned, as a candidate; time passes.
Add ==
    /\ ever < Cardinality(Memories)
    /\ ever' = ever + 1 /\ order' = <<ever + 1>> \o order
    /\ UNCHANGED <<old, expired, standing, validations, plan, group, row, doomed, glimpse,
                   reviews, historyVars>>
Expire(m) ==
    /\ m \in Expiring /\ m <= ever /\ expired' = expired \cup {m}
    /\ UNCHANGED <<order, ever, old, standing, validations, plan, group, row, doomed, glimpse,
                   reviews, historyVars>>
Age ==
    /\ old < ever /\ old' = old + 1
    /\ UNCHANGED <<order, ever, expired, standing, validations, plan, group, row, doomed,
                   glimpse, reviews, historyVars>>

----------------------------------------------------------------------------
\* Memories of one goal, some good and some not, that recommend different actions.
Contradicted(m, listed) ==
    LET same == {x \in listed : Goal[x] = Goal[m]} IN
    /\ same \cap Good # {} /\ same \ Good # {}
    /\ \E x, y \in same : Advice[x] # Advice[y] /\ NoAdvice \notin {Advice[x], Advice[y]}
\* Mutant of Verdicts: each memory is judged by itself.
VerdictsAlone(m, listed) ==
    IF m \in Critical THEN {"blocked"}
    ELSE {"deprecated", "validated", "candidate"} \cup (IF m \in Good THEN {"trusted"} ELSE {})
\* What the policy may decide, with whatever confidence and age.
Verdicts(m, listed) ==
    IF m \in Critical THEN {"blocked"}
    ELSE IF Contradicted(m, listed) THEN {"needs_review"}
    ELSE {"deprecated", "validated", "candidate"} \cup (IF m \in Good THEN {"trusted"} ELSE {})

Newer(m, n) == \E i, j \in DOMAIN order : i < j /\ order[i] = m /\ order[j] = n
\* The memories S as they are listed.
Listing(S) ==
    {s \in [1..Cardinality(S) -> S] :
        Range(s) = S /\ \A i, j \in DOMAIN s : i < j => Newer(s[i], s[j])}

\* The newest Limit memories of the window.
Recent ==
    LET young == {m \in Stored : m > old} IN
    {m \in young : Cardinality({n \in young : Newer(n, m)}) < Limit}
List(c) ==
    /\ ~Busy(c) /\ reviews < MaxReviews /\ Recent # {}
    /\ \E s \in Listing(Recent) : plan' = [plan EXCEPT ![c] = s]
    /\ group' = [group EXCEPT ![c] = Recent]
    /\ reviews' = reviews + 1
    /\ UNCHANGED <<memoryVars, ever, old, expired, row, doomed, glimpse, historyVars>>

\* The curator goes on to its next review.
GoOn(c) ==
    /\ plan' = [plan EXCEPT ![c] = Tail(@)]
    /\ group' = IF Len(plan[c]) = 1 THEN [group EXCEPT ![c] = {}] ELSE group

\* The verdict v on m, among the memories listed, is stored, with a validation_count one
\* higher than n if it promotes.
Record(m, v, n, listed) ==
    /\ v \in Verdicts(m, listed)
    /\ standing' = [standing EXCEPT ![m] = v]
    /\ validations' = [validations EXCEPT ![m] = IF v \in Promoted THEN n + 1 ELSE n]
    /\ word' = [word EXCEPT ![m] = v]
    /\ votes' = [votes EXCEPT ![m] = IF v \in Promoted THEN @ + 1 ELSE @]
    /\ beside' = [beside EXCEPT ![m] = listed]
\* A write to the row of m while other reviews hold what they got from it.
Holders(c, m) == {b \in Curators \ {c} : row[b] # NoRow /\ Head(plan[b]) = m}

\* SQLite: UPDATE ... WHERE id = ?, which also makes it the newest of the listing.
Review(c, v) ==
    /\ ~postgres /\ Busy(c)
    /\ LET m == Head(plan[c]) IN
       IF m \in Stored
       THEN /\ Record(m, v, validations[m], group[c])
            /\ \E others \in Listing(Stored \ {m}) : order' = <<m>> \o others
       ELSE UNCHANGED <<memoryVars, verdictVars>>
    /\ GoOn(c)
    /\ UNCHANGED <<ever, old, expired, row, doomed, glimpse, reviews, purged, raced>>

\* Mutant of RowThere: a missing row is no reason to stop.
RowAny(m) == TRUE
RowThere(m) == m \in Stored
\* Postgres: get, and nothing more when the row is gone.
GetRow(c) ==
    /\ postgres /\ Busy(c) /\ row[c] = NoRow
    /\ LET m == Head(plan[c]) IN
       IF RowThere(m)
       THEN row' = [row EXCEPT ![c] = validations[m] + 1] /\ UNCHANGED <<plan, group>>
       ELSE GoOn(c) /\ UNCHANGED row
    /\ UNCHANGED <<memoryVars, ever, old, expired, doomed, glimpse, reviews, historyVars>>
\* And put, an upsert of what was read: a row that is gone is inserted as a new one.
PutRow(c, v) ==
    /\ postgres /\ Busy(c) /\ row[c] # NoRow
    /\ LET m == Head(plan[c]) IN
       /\ Record(m, v, row[c] - 1, group[c])
       /\ order' = IF m \in Stored THEN order ELSE <<m>> \o order
       /\ raced' = IF Holders(c, m) = {} THEN raced ELSE raced \cup {m}
    /\ row' = [row EXCEPT ![c] = NoRow]
    /\ GoOn(c)
    /\ UNCHANGED <<ever, old, expired, doomed, glimpse, reviews, purged>>

\* The daily job dies between two reviews.
Stop(c) ==
    /\ Busy(c)
    /\ plan' = [plan EXCEPT ![c] = << >>] /\ group' = [group EXCEPT ![c] = {}]
    /\ row' = [row EXCEPT ![c] = NoRow]
    /\ UNCHANGED <<memoryVars, ever, old, expired, doomed, glimpse, reviews, historyVars>>

----------------------------------------------------------------------------
\* An owner purges: the expired memories, on Postgres those of the Scan newest rows.
ListExpired ==
    /\ doomed = {}
    /\ doomed' = expired \cap
         (IF postgres THEN {order[i] : i \in {i \in DOMAIN order : i <= Scan}} ELSE Stored)
    /\ doomed' # {}
    /\ UNCHANGED <<memoryVars, ever, old, expired, plan, group, row, glimpse, reviews, historyVars>>
\* SQLite deletes them at once, Postgres one by one.
Delete ==
    /\ doomed # {}
    /\ \E now \in IF postgres THEN {{m} : m \in doomed} ELSE {doomed} :
       /\ order' \in Listing(Stored \ now)
       /\ doomed' = doomed \ now
       /\ purged' = purged \cup now
       /\ raced' = raced \cup {m \in now : \E c \in Curators : row[c] # NoRow /\ Head(plan[c]) = m}
    /\ UNCHANGED <<ever, old, expired, standing, validations, plan, group, row, glimpse, reviews,
                   verdictVars>>

----------------------------------------------------------------------------
\* Mutant of Visible: what waits for a review is shown.
VisibleUnlessBlocked(m) == m \notin expired /\ standing[m] \notin {"deprecated", "blocked"}
Visible(m) == m \notin expired /\ standing[m] \in {"candidate", "validated", "trusted"}
\* Postgres: a planner lists what it may see, to touch one after the other.  (On SQLite
\* it reads and touches in one transaction, which changes nothing that is modelled.)
Retrieve(p) ==
    /\ postgres /\ DOMAIN glimpse[p] = {}
    /\ \E m \in Stored : Visible(m)
    /\ glimpse' = [glimpse EXCEPT ![p] = [m \in {x \in Stored : Visible(x)} |-> standing[m]]]
    /\ UNCHANGED <<memoryVars, ever, old, expired, plan, group, row, doomed, reviews, historyVars>>

\* Mutant of Touched: the listed row is written back.
TouchedSnapshot(m, seen) == seen
\* The row under its lock, whatever the planner saw in the listing.
Touched(m, seen) == standing[m]
Touch(p, m) ==
    /\ m \in DOMAIN glimpse[p]
    /\ standing' = IF m \in Stored THEN [standing EXCEPT ![m] = Touched(m, glimpse[p][m])]
                   ELSE standing
    /\ glimpse' = [glimpse EXCEPT ![p] = [x \in DOMAIN @ \ {m} |-> @[x]]]
    /\ UNCHANGED <<order, validations, ever, old, expired, plan, group, row, doomed, reviews,
                   historyVars>>

Next ==
    /\ UNCHANGED postgres
    /\ \/ Add \/ Age \/ ListExpired \/ Delete
       \/ \E m \in Memories : Expire(m)
       \/ \E c \in Curators :
           \/ List(c) \/ GetRow(c) \/ Stop(c)
           \/ \E v \in Verdict : Review(c, v) \/ PutRow(c, v)
       \/ \E p \in Planners :
           \/ Retrieve(p)
           \/ \E m \in Memories : Touch(p, m)

Spec == Init /\ [][Next]_vars

----------------------------------------------------------------------------
\* A purged memory stays away, unless a review on Postgres held its row when it was
\* deleted (update_memory_review puts back what it got).
PurgedStays == \A m \in purged \cap Stored : postgres /\ m \in raced

\* The last review of a memory stands, however late a planner touches what it listed
\* ("Do not overwrite a concurrent curator review with a stale snapshot"), and every
\* promotion is counted unless reviews of one row crossed.
ReviewStands ==
    \A m \in Stored :
        /\ standing[m] = word[m]
        /\ m \notin raced => validations[m] = votes[m]

\* A memory that a planner is shown was last reviewed apart from each that contradicts
\* it, so the last review of two that are shown together did not see both: however
\* reviews overlap, are cut short and are overtaken by touches and purges.
RivalsApart ==
    \A a, b \in Stored :
        Contradicted(a, {a, b}) /\ Visible(a) => b \notin beside[a]
=============================================================================
